--------------------------- MODULE Session_proof ---------------------------
(***************************************************************************)
(* Theorems of the two ends of a session.                                  *)
(*                                                                         *)
(* SessionHost, for every set of pages and of songs, and any bounds: once   *)
(* nothing is under way, exactly the pages that say they are open host     *)
(* their sessions, and the relay has their queues as they are; and a       *)
(* session hosted by one page never loses a queued song.                   *)
(*                                                                         *)
(* RemoteControl, for any sliders the host doesn't disable, any values and *)
(* any number of messages: RemoteSafe, as RemotePart has it.               *)
(***************************************************************************)
EXTENDS SessionHost, RemotePart, SequenceLemmas, FiniteSetTheorems

-----------------------------------------------------------------------------
\* Events, and the sequences of them on the way to a page.

Reasons == {"lost", "replaced", "missing"}

\* The events a page is told of, and which is which.
LEMMA EventKinds ==
  /\ Opened \in Events /\ Opened.type = "opened"
  /\ \A q \in Queues : Hello(q) \in Events /\ Hello(q).type = "hello" /\ Hello(q).queue = q
  /\ \A by \in Reasons : Closed(by) \in Events /\ Closed(by).type = "closed" /\ Closed(by).by = by
  /\ \A e \in Events : /\ e.type \in {"opened", "hello", "closed"}
                       /\ e.type = "hello" => e.queue \in Queues
                       /\ e.type = "closed" => e.by \in Reasons /\ e = Closed(e.by)
<1>1. Opened \in Events /\ Opened.type = "opened"
  BY DEF Opened, Events
<1>2. \A q \in Queues : Hello(q) \in Events /\ Hello(q).type = "hello" /\ Hello(q).queue = q
  BY DEF Hello, Events
<1>3. \A by \in Reasons : Closed(by) \in Events /\ Closed(by).type = "closed" /\ Closed(by).by = by
  BY DEF Closed, Events, Reasons
<1>4. ASSUME NEW e \in Events
      PROVE  /\ e.type \in {"opened", "hello", "closed"}
             /\ e.type = "hello" => e.queue \in Queues
             /\ e.type = "closed" => e.by \in Reasons /\ e = Closed(e.by)
  <2>1. CASE e = Opened
    BY <1>1, <2>1
  <2>2. ASSUME NEW q \in Queues, e = Hello(q)
        PROVE  e.type = "hello" /\ e.queue \in Queues
    BY <1>2, <2>2
  <2>3. ASSUME NEW by \in Reasons, e = Closed(by)
        PROVE  e.type = "closed" /\ e.by \in Reasons /\ e = Closed(e.by)
    BY <1>3, <2>3
  <2>4. \/ e = Opened
        \/ \E q \in Queues : e = Hello(q)
        \/ \E by \in Reasons : e = Closed(by)
    BY DEF Events, Reasons
  <2>5. QED
    BY <2>1, <2>2, <2>3, <2>4
<1>5. QED
  BY <1>1, <1>2, <1>3, <1>4

\* The connection is over, or will be once its page has read what it is told.
IsCut(d) == \E i \in 1 .. Len(d) : d[i].type = "closed"

\* The page has been greeted.
IsGreeted(d) == \A i \in 1 .. Len(d) : d[i].type # "hello"

\* What a connection brings: it opens, then greets, then may close; and it
\* brings something else after it opens.
Shaped(d, w) ==
  /\ w = "none" => d = <<>>
  /\ \A i \in 1 .. Len(d) :
       /\ d[i].type = "opened" => i = 1 /\ w = "connecting" /\ Len(d) > 1
       /\ d[i].type = "hello" => (i = 1 /\ w = "open") \/ (i = 2 /\ d[1].type = "opened")

\* What a page is told as the relay lets it in, or turns it away.
LEMMA AdmittedShape ==
  /\ \A q \in Queues : LET d == <<Opened, Hello(q)>> IN
       /\ d \in Seq(Events) /\ Len(d) = 2 /\ d # <<>> /\ Shaped(d, "connecting") /\ ~IsCut(d) /\ ~IsGreeted(d)
       /\ \A i \in 1 .. 2 : d[i].type = "hello" => d[i].queue = q
  /\ LET d == <<Opened, Closed("missing")>> IN
       /\ d \in Seq(Events) /\ Len(d) = 2 /\ d # <<>> /\ Shaped(d, "connecting") /\ IsCut(d) /\ IsGreeted(d)
<1>1. ASSUME NEW q \in Queues
      PROVE  LET d == <<Opened, Hello(q)>> IN
               /\ d \in Seq(Events) /\ Len(d) = 2 /\ d # <<>> /\ Shaped(d, "connecting") /\ ~IsCut(d) /\ ~IsGreeted(d)
               /\ \A i \in 1 .. 2 : d[i].type = "hello" => d[i].queue = q
  <2> DEFINE d == <<Opened, Hello(q)>>
  <2>1. d \in Seq(Events) /\ Len(d) = 2 /\ d # <<>> /\ d[1] = Opened /\ d[2] = Hello(q)
    BY EventKinds
  <2>2. d[1].type = "opened" /\ d[2].type = "hello" /\ d[2].queue = q
    BY <2>1, EventKinds
  <2> HIDE DEF d
  <2>3. \A i \in 1 .. Len(d) : i = 1 \/ i = 2
    BY <2>1
  <2>4. Shaped(d, "connecting") /\ ~IsCut(d) /\ ~IsGreeted(d)
    BY <2>1, <2>2, <2>3 DEF Shaped, IsCut, IsGreeted
  <2>5. \A i \in 1 .. 2 : d[i].type = "hello" => d[i].queue = q
    BY <2>1, <2>2, <2>3
  <2>6. QED
    BY <2>1, <2>4, <2>5 DEF d
<1>2. LET d == <<Opened, Closed("missing")>> IN
       /\ d \in Seq(Events) /\ Len(d) = 2 /\ d # <<>> /\ Shaped(d, "connecting") /\ IsCut(d) /\ IsGreeted(d)
  <2> DEFINE d == <<Opened, Closed("missing")>>
  <2>0. "missing" \in Reasons
    BY DEF Reasons
  <2>1. d \in Seq(Events) /\ Len(d) = 2 /\ d # <<>> /\ d[1] = Opened /\ d[2] = Closed("missing")
    BY <2>0, EventKinds
  <2>2. d[1].type = "opened" /\ d[2].type = "closed"
    BY <2>0, <2>1, EventKinds
  <2> HIDE DEF d
  <2>3. \A i \in 1 .. Len(d) : i = 1 \/ i = 2
    BY <2>1
  <2>4. Shaped(d, "connecting") /\ IsCut(d) /\ IsGreeted(d)
    BY <2>1, <2>2, <2>3 DEF Shaped, IsCut, IsGreeted
  <2>5. QED
    BY <2>1, <2>4 DEF d
<1>3. QED
  BY <1>1, <1>2

\* A connection that is lost brings the first n of what was under way, and
\* that it is over; one that is closed brings all of it first (n is its length).
LEMMA CutShape ==
  ASSUME NEW d \in Seq(Events), NEW w, w # "none", Shaped(d, w), NEW n \in 0 .. Len(d), NEW by \in Reasons,
         NEW e \in Seq(Events), Len(e) = n + 1, \A i \in 1 .. n : e[i] = d[i], e[n + 1] = Closed(by)
  PROVE  /\ Shaped(e, w) /\ IsCut(e) /\ e # <<>>
         /\ \A i \in 1 .. Len(e) : e[i].type = "hello" => i \in 1 .. Len(d) /\ d[i] = e[i]
         /\ \A i \in 1 .. Len(e) : e[i] = Closed("missing") => by = "missing" \/ (i \in 1 .. Len(d) /\ d[i] = e[i])
<1>1. /\ n \in Nat /\ Len(d) \in Nat /\ n <= Len(d) /\ DOMAIN e = 1 .. (n + 1) /\ e # <<>>
      /\ 1 .. n \subseteq 1 .. Len(d)
  BY LenProperties, EmptySeq
<1>2. e[n + 1].type = "closed" /\ e[n + 1].by = by
  BY EventKinds
<1>3. \A i \in 1 .. Len(e) : i \in 1 .. n \/ i = n + 1
  BY <1>1
<1>4. IsCut(e)
  <2>1. n + 1 \in 1 .. Len(e)
    BY <1>1
  <2>2. QED
    BY <1>2, <2>1 DEF IsCut
<1>5. \A i \in 1 .. Len(e) : e[i].type = "hello" => i \in 1 .. Len(d) /\ d[i] = e[i]
  BY <1>1, <1>2, <1>3
<1>6. \A i \in 1 .. Len(e) : e[i] = Closed("missing") => by = "missing" \/ (i \in 1 .. Len(d) /\ d[i] = e[i])
  <2>1. "missing" \in Reasons
    BY DEF Reasons
  <2>2. Closed("missing").by = "missing"
    BY <2>1, EventKinds
  <2>3. QED
    BY <1>1, <1>2, <1>3, <2>2
<1>7. Shaped(e, w)
  <2>1. ASSUME NEW i \in 1 .. Len(e), e[i].type = "opened"
        PROVE  i = 1 /\ w = "connecting" /\ Len(e) > 1
    <3>1. i \in 1 .. n /\ i \in 1 .. Len(d) /\ d[i].type = "opened"
      BY <1>1, <1>2, <1>3, <2>1
    <3>2. i = 1 /\ w = "connecting"
      BY <3>1 DEF Shaped
    <3>3. QED
      BY <1>1, <3>1, <3>2
  <2>2. ASSUME NEW i \in 1 .. Len(e), e[i].type = "hello"
        PROVE  (i = 1 /\ w = "open") \/ (i = 2 /\ e[1].type = "opened")
    <3>1. i \in 1 .. n /\ i \in 1 .. Len(d) /\ d[i].type = "hello"
      BY <1>1, <1>2, <1>3, <2>2
    <3>2. (i = 1 /\ w = "open") \/ (i = 2 /\ d[1].type = "opened")
      BY <3>1 DEF Shaped
    <3>3. i = 2 => 1 \in 1 .. n
      BY <1>1, <3>1
    <3>4. QED
      BY <3>2, <3>3
  <2>3. QED
    BY <2>1, <2>2 DEF Shaped
<1>8. QED
  BY <1>1, <1>4, <1>5, <1>6, <1>7

\* Closing a connection.
LEMMA ClosedShape ==
  ASSUME NEW d \in Seq(Events), NEW w, w # "none", Shaped(d, w), NEW by \in Reasons
  PROVE  LET e == Append(d, Closed(by)) IN
         /\ e \in Seq(Events) /\ Shaped(e, w) /\ IsCut(e) /\ e # <<>>
         /\ \A i \in 1 .. Len(e) : e[i].type = "hello" => i \in 1 .. Len(d) /\ d[i] = e[i]
         /\ \A i \in 1 .. Len(e) : e[i] = Closed("missing") => by = "missing" \/ (i \in 1 .. Len(d) /\ d[i] = e[i])
<1> DEFINE e == Append(d, Closed(by))
           n == Len(d)
<1>1. Closed(by) \in Events
  BY EventKinds
<1>2. /\ e \in Seq(Events) /\ Len(e) = n + 1 /\ n \in Nat
      /\ \A i \in 1 .. n : e[i] = d[i]
      /\ e[n + 1] = Closed(by)
  BY <1>1, AppendAt
<1> HIDE DEF e
<1>3. n \in 0 .. Len(d)
  BY <1>2
<1>4. /\ Shaped(e, w) /\ IsCut(e) /\ e # <<>>
      /\ \A i \in 1 .. Len(e) : e[i].type = "hello" => i \in 1 .. Len(d) /\ d[i] = e[i]
      /\ \A i \in 1 .. Len(e) : e[i] = Closed("missing") => by = "missing" \/ (i \in 1 .. Len(d) /\ d[i] = e[i])
  BY <1>2, <1>3, CutShape
<1>5. QED
  BY <1>2, <1>4 DEF e

\* Losing one.
LEMMA LostShape ==
  ASSUME NEW d \in Seq(Events), NEW w, w # "none", Shaped(d, w), NEW n \in 0 .. Len(d)
  PROVE  LET e == Append(SubSeq(d, 1, n), Closed("lost")) IN
         /\ e \in Seq(Events) /\ Shaped(e, w) /\ IsCut(e) /\ e # <<>>
         /\ \A i \in 1 .. Len(e) : e[i].type = "hello" => i \in 1 .. Len(d) /\ d[i] = e[i]
         /\ \A i \in 1 .. Len(e) : e[i] = Closed("missing") => i \in 1 .. Len(d) /\ d[i] = e[i]
<1> DEFINE r == SubSeq(d, 1, n)
           e == Append(r, Closed("lost"))
<1>1. "lost" \in Reasons /\ Closed("lost") \in Events
  BY EventKinds DEF Reasons
<1>2. n \in Nat /\ Len(d) \in Nat /\ n <= Len(d) /\ \A i \in 1 .. n : d[i] \in Events
  BY LenProperties, ElementOfSeq
<1>3. /\ r \in Seq(Events)
      /\ Len(r) = IF 1 <= n THEN n - 1 + 1 ELSE 0
      /\ \A i \in 1 .. (n - 1 + 1) : r[i] = d[1 + i - 1]
  BY <1>2, SubSeqProperties
<1>4. Len(r) = n /\ \A i \in 1 .. n : r[i] = d[i]
  BY <1>2, <1>3
<1> HIDE DEF r
<1>5. /\ e \in Seq(Events) /\ Len(e) = n + 1
      /\ \A i \in 1 .. n : e[i] = d[i]
      /\ e[n + 1] = Closed("lost")
  BY <1>1, <1>3, <1>4, AppendAt
<1> HIDE DEF e
<1>6. /\ Shaped(e, w) /\ IsCut(e) /\ e # <<>>
      /\ \A i \in 1 .. Len(e) : e[i].type = "hello" => i \in 1 .. Len(d) /\ d[i] = e[i]
      /\ \A i \in 1 .. Len(e) : e[i] = Closed("missing") => i \in 1 .. Len(d) /\ d[i] = e[i]
  <2>1. "lost" # "missing"
    OBVIOUS
  <2>2. QED
    BY <1>1, <1>5, <2>1, CutShape
<1>7. QED
  BY <1>5, <1>6 DEF e, r

\* The page handles that it has opened, or been greeted.
LEMMA HandledShape ==
  ASSUME NEW d \in Seq(Events), d # <<>>, NEW w, w # "none", Shaped(d, w)
  PROVE  /\ Head(d) \in Events /\ Head(d) = d[1] /\ 1 \in 1 .. Len(d) /\ Tail(d) \in Seq(Events)
         /\ \A i \in 1 .. Len(Tail(d)) : i + 1 \in 1 .. Len(d) /\ Tail(d)[i] = d[i + 1]
         /\ d[1].type = "opened" => /\ w = "connecting" /\ Tail(d) # <<>> /\ Shaped(Tail(d), "open")
                                    /\ IsCut(Tail(d)) <=> IsCut(d)
                                    /\ IsGreeted(Tail(d)) <=> IsGreeted(d)
         /\ d[1].type = "hello" => /\ w = "open" /\ Shaped(Tail(d), "open") /\ IsGreeted(Tail(d))
                                   /\ IsCut(Tail(d)) <=> IsCut(d)
<1> DEFINE n == Len(d)
           e == Tail(d)
<1>1. /\ e \in Seq(Events) /\ n \in Nat \ {0} /\ Len(e) = n - 1 /\ \A i \in 1 .. (n - 1) : e[i] = d[i + 1]
      /\ Head(d) = d[1] /\ Head(d) \in Events
  BY TailAt
<1> HIDE DEF e
<1>2. 1 \in 1 .. n /\ \A i \in 1 .. Len(e) : i + 1 \in 1 .. n /\ i + 1 # 1 /\ e[i] = d[i + 1]
  BY <1>1
<1>3. \A j \in 1 .. n : j # 1 => j - 1 \in 1 .. Len(e) /\ e[j - 1] = d[j]
  <2>1. ASSUME NEW j \in 1 .. n, j # 1 PROVE j - 1 \in 1 .. (n - 1) /\ (j - 1) + 1 = j
    BY <1>1, <2>1
  <2>2. QED
    BY <1>1, <2>1
<1>4. d[1].type # "closed" => (IsCut(e) <=> IsCut(d))
  <2>1. ASSUME NEW i \in 1 .. Len(e), e[i].type = "closed"
        PROVE  IsCut(d)
    <3>1. i + 1 \in 1 .. n /\ d[i + 1].type = "closed"
      BY <1>2, <2>1
    <3>2. QED
      BY <3>1 DEF IsCut
  <2>2. ASSUME d[1].type # "closed", NEW j \in 1 .. n, d[j].type = "closed"
        PROVE  IsCut(e)
    <3>1. j # 1
      BY <2>2
    <3>2. j - 1 \in 1 .. Len(e) /\ e[j - 1].type = "closed"
      BY <1>3, <2>2, <3>1
    <3>3. QED
      BY <3>2 DEF IsCut
  <2>3. QED
    BY <2>1, <2>2 DEF IsCut
<1>5. d[1].type # "hello" => (IsGreeted(e) <=> IsGreeted(d))
  <2>1. ASSUME IsGreeted(d), NEW i \in 1 .. Len(e)
        PROVE  e[i].type # "hello"
    BY <1>2, <2>1 DEF IsGreeted
  <2>2. ASSUME IsGreeted(e), d[1].type # "hello", NEW j \in 1 .. n
        PROVE  d[j].type # "hello"
    <3>1. CASE j = 1
      BY <2>2, <3>1
    <3>2. CASE j # 1
      <4>1. j - 1 \in 1 .. Len(e) /\ e[j - 1] = d[j]
        BY <1>3, <3>2
      <4>2. e[j - 1].type # "hello"
        BY <2>2, <4>1 DEF IsGreeted
      <4>3. QED
        BY <4>1, <4>2
    <3>3. QED
      BY <3>1, <3>2
  <2>3. QED
    BY <2>1, <2>2 DEF IsGreeted
<1>6. ASSUME NEW i \in 1 .. Len(e)
      PROVE  /\ e[i].type # "opened"
             /\ e[i].type = "hello" => i = 1 /\ d[1].type = "opened"
  <2>1. i + 1 \in 1 .. n /\ i + 1 # 1 /\ e[i] = d[i + 1]
    BY <1>2
  <2>2. d[i + 1].type # "opened"
    BY <2>1 DEF Shaped
  <2>3. d[i + 1].type = "hello" => i + 1 = 2 /\ d[1].type = "opened"
    BY <2>1 DEF Shaped
  <2>4. i \in Nat
    BY <1>1
  <2>5. QED
    BY <2>1, <2>2, <2>3, <2>4
<1>7. Shaped(e, "open")
  BY <1>6 DEF Shaped
<1>8. d[1].type = "opened" => w = "connecting" /\ e # <<>>
  <2>1. d[1].type = "opened" => w = "connecting" /\ n > 1
    BY <1>2 DEF Shaped
  <2>2. n > 1 => e # <<>>
    BY <1>1, EmptySeq
  <2>3. QED
    BY <2>1, <2>2
<1>9. d[1].type = "hello" => w = "open" /\ IsGreeted(e)
  <2>1. d[1].type = "hello" => w = "open"
    BY <1>2 DEF Shaped
  <2>2. d[1].type = "hello" => IsGreeted(e)
    BY <1>6 DEF IsGreeted
  <2>3. QED
    BY <2>1, <2>2
<1>10. QED
  BY <1>1, <1>2, <1>4, <1>5, <1>7, <1>8, <1>9 DEF e

-----------------------------------------------------------------------------
\* The inductive invariant.

HostTypes ==
  /\ status \in [Pages -> {"away", "connecting", "open", "missing", "replaced"}]
  /\ ws \in [Pages -> {"none", "connecting", "open"}]
  /\ code \in [Pages -> Codes] /\ queue \in [Pages -> Queues]
  /\ down \in [Pages -> Seq(Events)] /\ up \in [Pages -> Seq(Queues)]
  /\ host \in [Codes -> Pages \cup {NoPage}] /\ saved \in [Codes -> Queues]
  /\ restored \subseteq Pages /\ swapped \subseteq Pages /\ fresh \subseteq Pages
  /\ timer \subseteq Pages /\ creating \subseteq Pages /\ timer \cap creating = {} /\ reopened \subseteq Codes
  /\ drawn \in Codes /\ alive \subseteq 1 .. drawn
  /\ \A c \in Codes : (host[c] # NoPage => c \in alive) /\ (saved[c] # {} => c \in alive)

\* A page's socket: what it shows follows from its connection, and what is on
\* its way to it is what a connection brings.
SocketOK(p) ==
  /\ Shaped(down[p], ws[p])
  /\ ws[p] # "open" => up[p] = <<>>
  /\ status[p] = "open" <=> ws[p] = "open"
  /\ ws[p] = "connecting" => status[p] = "connecting"
  /\ p \in timer \/ p \in creating => ws[p] = "none" /\ status[p] = "connecting"

Hosting(p) == Connected(p) /\ ~IsCut(down[p])

\* It hosts its session, and no other, from when the relay lets it in until the
\* connection is over.
RoleOK(p) == \A c \in Codes : host[c] = p <=> (c = code[p] /\ Hosting(p))

\* Once greeted, the last state it published is what it shows.
ToldOK(p) ==
  Hosting(p) /\ IsGreeted(down[p]) =>
    IF up[p] = <<>> THEN saved[code[p]] = queue[p] ELSE up[p][Len(up[p])] = queue[p]

HInv == HostTypes /\ \A p \in Pages : SocketOK(p) /\ RoleOK(p) /\ ToldOK(p)

\* An empty stream.
LEMMA EmptyStream ==
  /\ \A w : Shaped(<<>>, w)
  /\ ~IsCut(<<>>) /\ IsGreeted(<<>>)
  /\ \A S : <<>> \in Seq(S)
<1>1. Len(<<>>) = 0 /\ \A S : <<>> \in Seq(S)
  OBVIOUS
<1>2. 1 .. 0 = {}
  OBVIOUS
<1>3. QED
  BY <1>1, <1>2 DEF Shaped, IsCut, IsGreeted

\* A page none of whose own state changes.
LEMMA OthersKept ==
  ASSUME NEW q \in Pages, SocketOK(q), RoleOK(q), ToldOK(q),
         status'[q] = status[q], ws'[q] = ws[q], down'[q] = down[q], up'[q] = up[q],
         code'[q] = code[q], queue'[q] = queue[q],
         q \in timer' => q \in timer, q \in creating' => q \in creating,
         \A c \in Codes : host'[c] = q <=> host[c] = q,
         Hosting(q) => saved'[code[q]] = saved[code[q]]
  PROVE  SocketOK(q)' /\ RoleOK(q)' /\ ToldOK(q)'
<1>1. SocketOK(q)'
  BY DEF SocketOK
<1>2. Hosting(q)' <=> Hosting(q)
  BY DEF Hosting, Connected
<1>3. RoleOK(q)'
  BY <1>2 DEF RoleOK
<1>4. ToldOK(q)'
  BY <1>2 DEF ToldOK
<1>5. QED
  BY <1>1, <1>3, <1>4

\* A page that is not connected hosts nothing.
LEMMA NotConnected ==
  ASSUME NEW p \in Pages, ws[p] # "open", down[p] = <<>>
  PROVE  /\ ~Hosting(p) /\ ToldOK(p)
         /\ RoleOK(p) <=> \A c \in Codes : host[c] # p
BY DEF Hosting, Connected, RoleOK, ToldOK

\* Nor does one whose connection is over.
LEMMA CutOff ==
  ASSUME NEW p \in Pages, IsCut(down[p])
  PROVE  /\ ~Hosting(p) /\ ToldOK(p)
         /\ RoleOK(p) <=> \A c \in Codes : host[c] # p
BY DEF Hosting, RoleOK, ToldOK

\* A page let in but not greeted yet has nothing to be told of.
LEMMA Ungreeted ==
  ASSUME NEW p \in Pages, ~IsGreeted(down[p])
  PROVE  ToldOK(p)
BY DEF ToldOK

\* A page whose socket is being opened hosts nothing until the relay says so,
\* and is greeted by what the relay said.
LEMMA GreetedIsOpen ==
  ASSUME HInv, NEW p \in Pages, Hosting(p), IsGreeted(down[p])
  PROVE  ws[p] = "open"
<1>1. down[p] \in Seq(Events) /\ Shaped(down[p], ws[p]) /\ ws[p] \in {"none", "connecting", "open"}
  BY DEF HInv, HostTypes, SocketOK
<1>2. SUFFICES ASSUME ws[p] # "open" PROVE FALSE
  OBVIOUS
<1>3. down[p] # <<>>
  BY <1>2 DEF Hosting, Connected
<1>4. Len(down[p]) \in Nat \ {0} /\ 1 \in 1 .. Len(down[p])
  BY <1>1, <1>3, TailAt
<1>5. \A i \in 1 .. Len(down[p]) : down[p][i] \in Events
  BY <1>1, ElementOfSeq
<1>6. \A i \in 1 .. Len(down[p]) : down[p][i].type = "opened"
  BY <1>5, EventKinds DEF Hosting, IsCut, IsGreeted
<1>7. Len(down[p]) > 1
  BY <1>1, <1>4, <1>6 DEF Shaped
<1>8. 2 \in 1 .. Len(down[p])
  BY <1>4, <1>7
<1>9. 2 = 1
  BY <1>1, <1>6, <1>8 DEF Shaped
<1>10. QED
  BY <1>9

-----------------------------------------------------------------------------
\* It holds initially, and every action keeps it.

LEMMA InitHInv ==
  ASSUME HostAssumption, Init
  PROVE  HInv
<1> USE HostAssumption DEF Init
<1>1. 1 \in Codes /\ {} \in Queues
  BY DEF Codes, Queues
<1>2. HostTypes
  <2>1. status \in [Pages -> {"away", "connecting", "open", "missing", "replaced"}] /\ ws \in [Pages -> {"none", "connecting", "open"}]
    OBVIOUS
  <2>2. code \in [Pages -> Codes] /\ queue \in [Pages -> Queues] /\ saved \in [Codes -> Queues] /\ host \in [Codes -> Pages \cup {NoPage}]
    BY <1>1
  <2>3. down \in [Pages -> Seq(Events)] /\ up \in [Pages -> Seq(Queues)]
    BY EmptyStream
  <2>4. \A c \in Codes : (host[c] # NoPage => c \in alive) /\ (saved[c] # {} => c \in alive)
    OBVIOUS
  <2>5. QED
    BY <1>1, <2>1, <2>2, <2>3, <2>4 DEF HostTypes
<1>3. ASSUME NEW p \in Pages
      PROVE  SocketOK(p) /\ RoleOK(p) /\ ToldOK(p)
  <2>1. down[p] = <<>> /\ up[p] = <<>> /\ ws[p] # "open" /\ \A c \in Codes : host[c] # p
    OBVIOUS
  <2>2. SocketOK(p)
    BY <2>1, EmptyStream DEF SocketOK
  <2>3. QED
    BY <2>1, <2>2, NotConnected
<1>4. QED
  BY <1>2, <1>3 DEF HInv

\* What is true of one page.
LEMMA PageTypes ==
  ASSUME HInv, NEW p \in Pages
  PROVE  /\ down[p] \in Seq(Events) /\ up[p] \in Seq(Queues) /\ queue[p] \in Queues /\ code[p] \in Codes
         /\ ws[p] \in {"none", "connecting", "open"}
         /\ saved[code[p]] \in Queues
         /\ SocketOK(p) /\ RoleOK(p) /\ ToldOK(p)
         /\ ws[p] = "none" => down[p] = <<>> /\ up[p] = <<>>
         /\ Connected(p) => ws[p] # "none"
<1>1. HostTypes /\ SocketOK(p) /\ RoleOK(p) /\ ToldOK(p)
  BY DEF HInv
<1>2. ws[p] = "none" => down[p] = <<>> /\ up[p] = <<>>
  <2>1. down[p] \in Seq(Events)
    BY <1>1 DEF HostTypes
  <2>2. Shaped(down[p], ws[p])
    BY <1>1 DEF SocketOK
  <2>3. QED
    BY <1>1, <2>2 DEF SocketOK, Shaped
<1>3. Connected(p) => ws[p] # "none"
  BY <1>2 DEF Connected
<1>4. QED
  BY <1>1, <1>2, <1>3 DEF HostTypes

LEMMA AdmitStep ==
  ASSUME HostAssumption, HInv, NEW p \in Pages, Admit(p)
  PROVE  HInv'
<1> USE DEF Admit, pageVars
<1> DEFINE c == code[p]
<1>0. HostTypes
  BY DEF HInv
<1>1. /\ ws[p] = "connecting" /\ down[p] = <<>> /\ c \in Codes /\ saved[c] \in Queues
      /\ SocketOK(p) /\ RoleOK(p) /\ ToldOK(p)
  BY PageTypes
<1>2. \A d \in Codes : host[d] # p
  BY <1>1, NotConnected
<1>3. CASE c \in alive
  <2> DEFINE h == <<Opened, Hello(saved[c])>>
  <2>1. /\ down' = [q \in Pages |-> CASE q = p -> h
                                      [] q # p /\ q = host[c] -> Append(down[q], Closed("replaced"))
                                      [] OTHER -> down[q]]
        /\ host' = [host EXCEPT ![c] = p]
    BY <1>3
  <2>2. h \in Seq(Events) /\ h # <<>> /\ Shaped(h, "connecting") /\ ~IsCut(h) /\ ~IsGreeted(h)
    BY <1>1, AdmittedShape
  <2> HIDE DEF h
  <2>3. /\ down'[p] = h
        /\ \A q \in Pages : q # p /\ q # host[c] => down'[q] = down[q]
        /\ \A q \in Pages : q # p /\ q = host[c] => down'[q] = Append(down[q], Closed("replaced"))
    BY <2>1
  <2>4. host'[c] = p /\ \A d \in Codes : d # c => host'[d] = host[d]
    BY <1>0, <1>1, <2>1 DEF HostTypes
  <2>5. SocketOK(p)' /\ RoleOK(p)' /\ ToldOK(p)'
    <3>1. SocketOK(p)'
      BY <1>1, <2>2, <2>3 DEF SocketOK
    <3>2. Hosting(p)'
      BY <2>2, <2>3 DEF Hosting, Connected
    <3>3. RoleOK(p)'
      BY <1>2, <2>4, <3>2 DEF RoleOK
    <3>4. ToldOK(p)'
      BY <2>2, <2>3 DEF ToldOK
    <3>5. QED
      BY <3>1, <3>3, <3>4
  <2>6. ASSUME NEW q \in Pages, q # p, q = host[c]
        PROVE  /\ down'[q] \in Seq(Events)
               /\ SocketOK(q)' /\ RoleOK(q)' /\ ToldOK(q)'
    <3>1. RoleOK(q) /\ SocketOK(q) /\ down[q] \in Seq(Events)
      BY PageTypes
    <3>2. Hosting(q) /\ c = code[q] /\ \A d \in Codes : d # c => host[d] # q
      BY <1>1, <2>6, <3>1 DEF RoleOK
    <3>3. ws[q] # "none"
      BY <3>2, PageTypes DEF Hosting
    <3>4. "replaced" \in Reasons /\ Shaped(down[q], ws[q])
      BY <3>1 DEF Reasons, SocketOK
    <3>5. down'[q] \in Seq(Events) /\ Shaped(down'[q], ws[q]) /\ IsCut(down'[q])
      <4> DEFINE e == Append(down[q], Closed("replaced"))
      <4>1. e \in Seq(Events) /\ Shaped(e, ws[q]) /\ IsCut(e)
        BY <3>1, <3>3, <3>4, ClosedShape
      <4>2. down'[q] = e
        BY <2>3, <2>6
      <4> HIDE DEF e
      <4>3. QED
        BY <4>1, <4>2
    <3>6. SocketOK(q)'
      BY <3>1, <3>5 DEF SocketOK
    <3>7. \A d \in Codes : host'[d] # q
      BY <2>4, <2>6, <3>2
    <3>8. RoleOK(q)' /\ ToldOK(q)'
      BY <3>5, <3>7 DEF RoleOK, ToldOK, Hosting
    <3>9. QED
      BY <3>5, <3>6, <3>8
  <2>7. ASSUME NEW q \in Pages, q # p, q # host[c]
        PROVE  SocketOK(q)' /\ RoleOK(q)' /\ ToldOK(q)'
    <3>1. SocketOK(q) /\ RoleOK(q) /\ ToldOK(q)
      BY PageTypes
    <3>2. \A d \in Codes : host'[d] = q <=> host[d] = q
      BY <2>4, <2>7
    <3>3. down'[q] = down[q]
      BY <2>3, <2>7
    <3>4. QED
      BY <3>1, <3>2, <3>3, OthersKept
  <2>8. HostTypes'
    <3>1. down' \in [Pages -> Seq(Events)]
      <4>1. \A q \in Pages : down'[q] \in Seq(Events)
        BY <1>0, <2>2, <2>3, <2>6 DEF HostTypes
      <4>2. QED
        BY <2>1, <4>1
    <3>2. host' \in [Codes -> Pages \cup {NoPage}]
      BY <1>0, <1>1, <2>1 DEF HostTypes
    <3>3. \A d \in Codes : (host'[d] # NoPage => d \in alive') /\ (saved'[d] # {} => d \in alive')
      BY <1>0, <1>3, <2>4 DEF HostTypes
    <3>4. QED
      BY <1>0, <3>1, <3>2, <3>3 DEF HostTypes
  <2>9. QED
    BY <2>5, <2>6, <2>7, <2>8 DEF HInv
<1>4. CASE c \notin alive
  <2> DEFINE h == <<Opened, Closed("missing")>>
  <2>1. down' = [down EXCEPT ![p] = h] /\ host' = host
    BY <1>4
  <2>2. h \in Seq(Events) /\ h # <<>> /\ Shaped(h, "connecting") /\ IsCut(h)
    BY AdmittedShape
  <2> HIDE DEF h
  <2>3. down'[p] = h /\ \A q \in Pages : q # p => down'[q] = down[q]
    BY <1>0, <2>1 DEF HostTypes
  <2>4. SocketOK(p)' /\ RoleOK(p)' /\ ToldOK(p)'
    <3>1. SocketOK(p)'
      BY <1>1, <2>2, <2>3 DEF SocketOK
    <3>2. RoleOK(p)' /\ ToldOK(p)'
      BY <1>2, <2>1, <2>2, <2>3 DEF RoleOK, ToldOK, Hosting
    <3>3. QED
      BY <3>1, <3>2
  <2>5. ASSUME NEW q \in Pages, q # p
        PROVE  SocketOK(q)' /\ RoleOK(q)' /\ ToldOK(q)'
    <3>1. SocketOK(q) /\ RoleOK(q) /\ ToldOK(q)
      BY PageTypes
    <3>2. QED
      BY <2>1, <2>3, <2>5, <3>1, OthersKept
  <2>6. HostTypes'
    <3>1. down' \in [Pages -> Seq(Events)]
      BY <1>0, <2>1, <2>2 DEF HostTypes
    <3>2. QED
      BY <1>0, <2>1, <3>1 DEF HostTypes
  <2>7. QED
    BY <2>4, <2>5, <2>6 DEF HInv
<1>5. QED
  BY <1>3, <1>4

LEMMA ReceiveStep ==
  ASSUME HostAssumption, HInv, NEW p \in Pages, Receive(p)
  PROVE  HInv'
<1> USE DEF Receive, pageVars
<1> DEFINE c == code[p]
           u == up[p]
<1>0. HostTypes
  BY DEF HInv
<1>1. /\ u # <<>> /\ u \in Seq(Queues) /\ c \in Codes
      /\ SocketOK(p) /\ RoleOK(p) /\ ToldOK(p)
  BY PageTypes
<1>2. ws[p] = "open"
  BY <1>1 DEF SocketOK
<1>3. /\ Tail(u) \in Seq(Queues) /\ Head(u) \in Queues /\ Len(u) \in Nat \ {0} /\ Len(Tail(u)) = Len(u) - 1
      /\ \A i \in 1 .. (Len(u) - 1) : Tail(u)[i] = u[i + 1]
      /\ Head(u) = u[1]
  BY <1>1, TailAt
<1>4. up'[p] = Tail(u) /\ \A q \in Pages : q # p => up'[q] = up[q]
  BY <1>0 DEF HostTypes
<1>5. /\ host[c] = p => saved'[c] = Head(u)
      /\ \A d \in Codes : d # c \/ host[c] # p => saved'[d] = saved[d]
  BY <1>0, <1>1 DEF HostTypes
<1>6. SocketOK(p)' /\ RoleOK(p)' /\ ToldOK(p)'
  <2>1. SocketOK(p)'
    BY <1>1, <1>2 DEF SocketOK
  <2>2. Hosting(p)' <=> Hosting(p)
    BY DEF Hosting, Connected
  <2>3. RoleOK(p)'
    BY <1>1, <2>2 DEF RoleOK
  <2>4. ASSUME Hosting(p), IsGreeted(down[p])
        PROVE  IF up'[p] = <<>> THEN saved'[c] = queue[p] ELSE up'[p][Len(up'[p])] = queue[p]
    <3>1. host[c] = p
      BY <1>1, <2>4 DEF RoleOK
    <3>2. u[Len(u)] = queue[p]
      BY <1>1, <2>4 DEF ToldOK
    <3>3. CASE Tail(u) = <<>>
      <4>1. Len(Tail(u)) = 0
        BY <1>3, <3>3, EmptySeq
      <4>2. Len(u) = 1
        BY <1>3, <4>1
      <4>3. QED
        BY <1>3, <1>4, <1>5, <3>1, <3>2, <3>3, <4>2
    <3>4. CASE Tail(u) # <<>>
      <4>1. Len(Tail(u)) # 0
        BY <1>3, <3>4, EmptySeq
      <4>2. Len(u) - 1 \in 1 .. (Len(u) - 1) /\ (Len(u) - 1) + 1 = Len(u)
        <5>1. ASSUME NEW n \in Nat \ {0}, n - 1 # 0
              PROVE  n - 1 \in 1 .. (n - 1) /\ (n - 1) + 1 = n
          BY <5>1
        <5>2. Len(u) \in Nat \ {0} /\ Len(u) - 1 # 0
          BY <1>3, <4>1
        <5>3. QED
          BY <5>1, <5>2
      <4>3. Tail(u)[Len(u) - 1] = u[Len(u)]
        BY <1>3, <4>2
      <4>4. QED
        BY <1>3, <1>4, <3>2, <3>4, <4>3
    <3>5. QED
      BY <3>3, <3>4
  <2>5. ToldOK(p)'
    BY <2>2, <2>4 DEF ToldOK
  <2>6. QED
    BY <2>1, <2>3, <2>5
<1>7. ASSUME NEW q \in Pages, q # p
      PROVE  SocketOK(q)' /\ RoleOK(q)' /\ ToldOK(q)'
  <2>1. SocketOK(q) /\ RoleOK(q) /\ ToldOK(q) /\ code[q] \in Codes
    BY PageTypes
  <2>2. Hosting(q) => saved'[code[q]] = saved[code[q]]
    <3>1. Hosting(q) => host[code[q]] = q
      BY <2>1 DEF RoleOK
    <3>2. QED
      BY <1>5, <1>7, <2>1, <3>1
  <2>3. QED
    BY <1>4, <1>7, <2>1, <2>2, OthersKept
<1>8. HostTypes'
  <2>1. up' \in [Pages -> Seq(Queues)]
    BY <1>0, <1>3 DEF HostTypes
  <2>2. saved' \in [Codes -> Queues]
    BY <1>0, <1>3 DEF HostTypes
  <2>3. \A d \in Codes : saved'[d] # {} => d \in alive'
    <3>1. p # NoPage
      BY DEF HostAssumption
    <3>2. QED
      BY <1>0, <1>5, <3>1 DEF HostTypes
  <2>4. QED
    BY <1>0, <2>1, <2>2, <2>3 DEF HostTypes
<1>9. QED
  BY <1>6, <1>7, <1>8 DEF HInv

\* A page whose place is given up.
LEMMA PlaceLeft ==
  ASSUME HostAssumption, HInv, NEW p \in Pages, host' = HostLeft(p)
  PROVE  /\ host' \in [Codes -> Pages \cup {NoPage}]
         /\ \A d \in Codes : host'[d] # p /\ (host'[d] # NoPage => host[d] # NoPage)
         /\ \A q \in Pages : q # p => \A d \in Codes : host'[d] = q <=> host[d] = q
<1>1. host \in [Codes -> Pages \cup {NoPage}] /\ p # NoPage /\ NoPage \notin Pages
  BY DEF HInv, HostTypes, HostAssumption
<1>2. host' = [d \in Codes |-> IF host[d] = p THEN NoPage ELSE host[d]]
  BY DEF HostLeft
<1>3. \A d \in Codes : host'[d] = IF host[d] = p THEN NoPage ELSE host[d]
  BY <1>2
<1>4. host' \in [Codes -> Pages \cup {NoPage}]
  BY <1>1, <1>2
<1>5. QED
  BY <1>1, <1>3, <1>4

LEMMA LoseStep ==
  ASSUME HostAssumption, HInv, NEW p \in Pages, Lose(p)
  PROVE  HInv'
<1> USE DEF Lose, Fault, pageVars
<1>0. HostTypes
  BY DEF HInv
<1>1. ws[p] # "none" /\ down[p] \in Seq(Events) /\ SocketOK(p) /\ Shaped(down[p], ws[p])
  BY PageTypes DEF SocketOK
<1>2. PICK n \in 0 .. Len(down[p]) : down' = [down EXCEPT ![p] = Append(SubSeq(@, 1, n), Closed("lost"))]
  OBVIOUS
<1> DEFINE e == Append(SubSeq(down[p], 1, n), Closed("lost"))
<1>3. e \in Seq(Events) /\ Shaped(e, ws[p]) /\ IsCut(e)
  BY <1>1, LostShape
<1>4. down' = [down EXCEPT ![p] = e]
  BY <1>2
<1> HIDE DEF e
<1>5. down'[p] = e /\ up'[p] = <<>> /\ \A q \in Pages : q # p => down'[q] = down[q] /\ up'[q] = up[q]
  BY <1>0, <1>4 DEF HostTypes
<1>6. /\ host' \in [Codes -> Pages \cup {NoPage}]
      /\ \A d \in Codes : host'[d] # p /\ (host'[d] # NoPage => host[d] # NoPage)
      /\ \A q \in Pages : q # p => \A d \in Codes : host'[d] = q <=> host[d] = q
  BY PlaceLeft
<1>7. SocketOK(p)' /\ RoleOK(p)' /\ ToldOK(p)'
  <2>1. SocketOK(p)'
    BY <1>1, <1>3, <1>5 DEF SocketOK
  <2>2. RoleOK(p)' /\ ToldOK(p)'
    BY <1>3, <1>5, <1>6 DEF RoleOK, ToldOK, Hosting
  <2>3. QED
    BY <2>1, <2>2
<1>8. ASSUME NEW q \in Pages, q # p
      PROVE  SocketOK(q)' /\ RoleOK(q)' /\ ToldOK(q)'
  <2>1. SocketOK(q) /\ RoleOK(q) /\ ToldOK(q)
    BY PageTypes
  <2>2. QED
    BY <1>5, <1>6, <1>8, <2>1, OthersKept
<1>9. HostTypes'
  <2>1. down' \in [Pages -> Seq(Events)] /\ up' \in [Pages -> Seq(Queues)]
    BY <1>0, <1>3, <1>4, EmptyStream DEF HostTypes
  <2>2. QED
    BY <1>0, <1>6, <2>1 DEF HostTypes
<1>10. QED
  BY <1>7, <1>8, <1>9 DEF HInv

LEMMA RestartStep ==
  ASSUME HostAssumption, HInv, Restart
  PROVE  HInv'
<1> USE DEF Restart, Fault, pageVars
<1>0. HostTypes
  BY DEF HInv
<1>1. {} \in Queues /\ "lost" \in Reasons
  BY DEF Queues, Reasons
<1>2. ASSUME NEW p \in Pages
      PROVE  down'[p] \in Seq(Events) /\ SocketOK(p)' /\ RoleOK(p)' /\ ToldOK(p)'
  <2>1. down[p] \in Seq(Events) /\ SocketOK(p) /\ Shaped(down[p], ws[p]) /\ up'[p] = <<>>
    BY PageTypes DEF SocketOK
  <2>2. \A d \in Codes : host'[d] # p
    BY DEF HostAssumption
  <2>3. CASE Connected(p)
    <3> DEFINE e == Append(down[p], Closed("lost"))
    <3>1. ws[p] # "none"
      BY <2>3, PageTypes
    <3>2. e \in Seq(Events) /\ Shaped(e, ws[p]) /\ IsCut(e)
      BY <1>1, <2>1, <3>1, ClosedShape
    <3>3. down'[p] = e
      BY <2>3
    <3> HIDE DEF e
    <3>4. SocketOK(p)'
      BY <2>1, <3>2, <3>3 DEF SocketOK
    <3>5. RoleOK(p)' /\ ToldOK(p)'
      BY <2>2, <3>2, <3>3 DEF RoleOK, ToldOK, Hosting
    <3>6. QED
      BY <3>2, <3>3, <3>4, <3>5
  <2>4. CASE ~Connected(p)
    <3>1. down'[p] = down[p]
      BY <2>4
    <3>2. SocketOK(p)'
      BY <2>1, <3>1 DEF SocketOK
    <3>3. ~Hosting(p)'
      BY <2>4, <3>1 DEF Hosting, Connected
    <3>4. RoleOK(p)' /\ ToldOK(p)'
      BY <2>2, <3>3 DEF RoleOK, ToldOK
    <3>5. QED
      BY <2>1, <3>1, <3>2, <3>4
  <2>5. QED
    BY <2>3, <2>4
<1>3. HostTypes'
  <2>1. down' \in [Pages -> Seq(Events)]
    BY <1>2
  <2>2. up' \in [Pages -> Seq(Queues)]
    BY EmptyStream
  <2>3. saved' \in [Codes -> Queues] /\ host' \in [Codes -> Pages \cup {NoPage}]
    BY <1>1
  <2>4. \A d \in Codes : (host'[d] # NoPage => d \in alive') /\ (saved'[d] # {} => d \in alive')
    OBVIOUS
  <2>5. QED
    BY <1>0, <2>1, <2>2, <2>3, <2>4 DEF HostTypes
<1>4. QED
  BY <1>2, <1>3 DEF HInv

\* What an event from the relay is, as its page handles it.
LEMMA EventHandled ==
  ASSUME HInv, NEW p \in Pages, down[p] # <<>>
  PROVE  LET d == down[p] IN
         /\ d \in Seq(Events) /\ ws[p] # "none" /\ Connected(p) /\ Head(d) \in Events /\ Head(d) = d[1] /\ Tail(d) \in Seq(Events)
         /\ p \notin timer /\ p \notin creating
         /\ d[1].type = "opened" => /\ ws[p] = "connecting" /\ Tail(d) # <<>> /\ Shaped(Tail(d), "open")
                                    /\ IsCut(Tail(d)) <=> IsCut(d)
                                    /\ IsGreeted(Tail(d)) <=> IsGreeted(d)
         /\ d[1].type = "hello" => /\ ws[p] = "open" /\ Shaped(Tail(d), "open") /\ IsGreeted(Tail(d))
                                   /\ IsCut(Tail(d)) <=> IsCut(d)
         /\ d[1].type = "closed" => IsCut(d)
<1> DEFINE d == down[p]
<1>1. d \in Seq(Events) /\ SocketOK(p) /\ d # <<>> /\ ws[p] # "none" /\ Connected(p)
  BY PageTypes DEF Connected
<1>2. Shaped(d, ws[p]) /\ p \notin timer /\ p \notin creating
  BY <1>1 DEF SocketOK
<1> HIDE DEF d
<1>3. /\ Head(d) \in Events /\ Head(d) = d[1] /\ 1 \in 1 .. Len(d) /\ Tail(d) \in Seq(Events)
      /\ d[1].type = "opened" => /\ ws[p] = "connecting" /\ Tail(d) # <<>> /\ Shaped(Tail(d), "open")
                                 /\ IsCut(Tail(d)) <=> IsCut(d)
                                 /\ IsGreeted(Tail(d)) <=> IsGreeted(d)
      /\ d[1].type = "hello" => /\ ws[p] = "open" /\ Shaped(Tail(d), "open") /\ IsGreeted(Tail(d))
                                /\ IsCut(Tail(d)) <=> IsCut(d)
  BY <1>1, <1>2, HandledShape
<1>4. d[1].type = "closed" => IsCut(d)
  BY <1>3 DEF IsCut
<1>5. QED
  BY <1>1, <1>2, <1>3, <1>4 DEF d

LEMMA OnOpenStep ==
  ASSUME HostAssumption, HInv, NEW p \in Pages, OnOpen(p)
  PROVE  HInv'
<1> USE DEF OnOpen, Event, relayVars
<1>0. HostTypes
  BY DEF HInv
<1>1. /\ down[p] # <<>> /\ Head(down[p]).type = "opened"
      /\ SocketOK(p) /\ RoleOK(p) /\ ToldOK(p)
  BY PageTypes
<1>2. /\ ws[p] = "connecting" /\ Connected(p) /\ Tail(down[p]) \in Seq(Events) /\ Tail(down[p]) # <<>>
      /\ Shaped(Tail(down[p]), "open")
      /\ IsCut(Tail(down[p])) <=> IsCut(down[p])
      /\ IsGreeted(Tail(down[p])) <=> IsGreeted(down[p])
      /\ p \notin timer /\ p \notin creating
  BY <1>1, EventHandled
<1>3. /\ down'[p] = Tail(down[p]) /\ ws'[p] = "open" /\ status'[p] = "open"
      /\ \A q \in Pages : q # p => down'[q] = down[q] /\ ws'[q] = ws[q] /\ status'[q] = status[q]
  BY <1>0 DEF HostTypes
<1>4. SocketOK(p)' /\ RoleOK(p)' /\ ToldOK(p)'
  <2>1. SocketOK(p)'
    BY <1>2, <1>3 DEF SocketOK
  <2>2. Hosting(p)' <=> Hosting(p)
    BY <1>2, <1>3 DEF Hosting, Connected
  <2>3. RoleOK(p)'
    BY <1>1, <2>2 DEF RoleOK
  <2>4. ToldOK(p)'
    BY <1>1, <1>2, <1>3, <2>2 DEF ToldOK
  <2>5. QED
    BY <2>1, <2>3, <2>4
<1>5. ASSUME NEW q \in Pages, q # p
      PROVE  SocketOK(q)' /\ RoleOK(q)' /\ ToldOK(q)'
  <2>1. SocketOK(q) /\ RoleOK(q) /\ ToldOK(q)
    BY PageTypes
  <2>2. QED
    BY <1>3, <1>5, <2>1, OthersKept
<1>6. HostTypes'
  <2>1. down' \in [Pages -> Seq(Events)]
    BY <1>0, <1>2 DEF HostTypes
  <2>2. status' \in [Pages -> {"away", "connecting", "open", "missing", "replaced"}] /\ ws' \in [Pages -> {"none", "connecting", "open"}]
    BY <1>0 DEF HostTypes
  <2>3. QED
    BY <1>0, <2>1, <2>2 DEF HostTypes
<1>7. QED
  BY <1>4, <1>5, <1>6 DEF HInv

LEMMA OnHelloStep ==
  ASSUME HostAssumption, HInv, NEW p \in Pages, OnHello(p)
  PROVE  HInv'
<1> USE DEF OnHello, Event, relayVars
<1>0. HostTypes
  BY DEF HInv
<1>1. /\ down[p] # <<>> /\ Head(down[p]).type = "hello" /\ up[p] \in Seq(Queues)
      /\ SocketOK(p) /\ RoleOK(p) /\ ToldOK(p)
  BY PageTypes
<1>2. /\ ws[p] = "open" /\ Connected(p) /\ Tail(down[p]) \in Seq(Events)
      /\ Shaped(Tail(down[p]), "open")
      /\ IsCut(Tail(down[p])) <=> IsCut(down[p])
      /\ p \notin timer /\ p \notin creating
      /\ Head(down[p]).queue \in Queues
  BY <1>1, EventHandled, EventKinds
<1>3. queue' \in [Pages -> Queues] /\ \A q \in Pages : q # p => queue'[q] = queue[q]
  BY <1>0, <1>2 DEF HostTypes, Restored, Queues
<1>4. queue'[p] \in Queues
  BY <1>3
<1>5. /\ down'[p] = Tail(down[p]) /\ up'[p] = Append(up[p], queue'[p])
      /\ \A q \in Pages : q # p => down'[q] = down[q] /\ up'[q] = up[q]
  BY <1>0 DEF HostTypes
<1>6. up'[p] \in Seq(Queues) /\ up'[p] # <<>> /\ up'[p][Len(up'[p])] = queue'[p]
  <2>1. ASSUME NEW u \in Seq(Queues), NEW x \in Queues
        PROVE  Append(u, x) \in Seq(Queues) /\ Append(u, x) # <<>> /\ Append(u, x)[Len(Append(u, x))] = x
    BY AppendAt, AppendElements
  <2>2. QED
    BY <1>1, <1>4, <1>5, <2>1
<1>7. SocketOK(p)' /\ RoleOK(p)' /\ ToldOK(p)'
  <2>1. SocketOK(p)'
    BY <1>1, <1>2, <1>5 DEF SocketOK
  <2>2. Hosting(p)' <=> Hosting(p)
    BY <1>2, <1>5 DEF Hosting, Connected
  <2>3. RoleOK(p)'
    BY <1>1, <2>2 DEF RoleOK
  <2>4. ToldOK(p)'
    BY <1>6 DEF ToldOK
  <2>5. QED
    BY <2>1, <2>3, <2>4
<1>8. ASSUME NEW q \in Pages, q # p
      PROVE  SocketOK(q)' /\ RoleOK(q)' /\ ToldOK(q)'
  <2>1. SocketOK(q) /\ RoleOK(q) /\ ToldOK(q)
    BY PageTypes
  <2>2. QED
    BY <1>3, <1>5, <1>8, <2>1, OthersKept
<1>9. HostTypes'
  <2>1. down' \in [Pages -> Seq(Events)]
    BY <1>0, <1>2 DEF HostTypes
  <2>2. up' \in [Pages -> Seq(Queues)]
    <3>1. up' = [up EXCEPT ![p] = up'[p]]
      BY <1>5
    <3>2. QED
      BY <1>0, <1>6, <3>1 DEF HostTypes
  <2>3. QED
    BY <1>0, <1>3, <2>1, <2>2 DEF HostTypes
<1>10. QED
  BY <1>7, <1>8, <1>9 DEF HInv

LEMMA OnCloseStep ==
  ASSUME HostAssumption, HInv, NEW p \in Pages, OnClose(p)
  PROVE  HInv'
<1> USE DEF OnClose, Event, relayVars
<1> DEFINE by == Head(down[p]).by
<1>0. HostTypes
  BY DEF HInv
<1>1. /\ down[p] # <<>> /\ Head(down[p]).type = "closed"
      /\ SocketOK(p) /\ RoleOK(p) /\ ToldOK(p)
  BY PageTypes
<1>2. IsCut(down[p]) /\ p \notin timer /\ p \notin creating /\ by \in Reasons
  BY <1>1, EventHandled, EventKinds
<1>3. \A c \in Codes : host[c] # p
  BY <1>1, <1>2, CutOff
<1>4. /\ down'[p] = <<>> /\ up'[p] = <<>> /\ ws'[p] = "none"
      /\ status'[p] = IF by = "lost" \/ Swaps(p, by) THEN "connecting" ELSE by
      /\ \A q \in Pages : q # p => down'[q] = down[q] /\ up'[q] = up[q] /\ ws'[q] = ws[q] /\ status'[q] = status[q]
  BY <1>0 DEF HostTypes
<1>5. /\ timer' \subseteq Pages /\ creating' \subseteq Pages /\ swapped' \subseteq Pages
      /\ p \in timer' => by = "lost"
      /\ p \in creating' => Swaps(p, by)
      /\ \A q \in Pages : q # p => (q \in timer' => q \in timer) /\ (q \in creating' => q \in creating)
  BY <1>0, <1>2 DEF HostTypes
<1>6. status'[p] # "open" /\ status'[p] \in {"connecting", "missing", "replaced"}
  BY <1>2, <1>4 DEF Reasons
<1>7. SocketOK(p)' /\ RoleOK(p)' /\ ToldOK(p)'
  <2>1. SocketOK(p)'
    BY <1>4, <1>5, <1>6, EmptyStream DEF SocketOK
  <2>2. RoleOK(p)' /\ ToldOK(p)'
    BY <1>3, <1>4 DEF Hosting, Connected, RoleOK, ToldOK
  <2>3. QED
    BY <2>1, <2>2
<1>8. ASSUME NEW q \in Pages, q # p
      PROVE  SocketOK(q)' /\ RoleOK(q)' /\ ToldOK(q)'
  <2>1. SocketOK(q) /\ RoleOK(q) /\ ToldOK(q)
    BY PageTypes
  <2>2. QED
    BY <1>4, <1>5, <1>8, <2>1, OthersKept
<1>9. HostTypes'
  <2>1. down' \in [Pages -> Seq(Events)] /\ up' \in [Pages -> Seq(Queues)] /\ ws' \in [Pages -> {"none", "connecting", "open"}]
    BY <1>0, EmptyStream DEF HostTypes
  <2>2. status' \in [Pages -> {"away", "connecting", "open", "missing", "replaced"}]
    <3>1. status' = [status EXCEPT ![p] = status'[p]]
      BY <1>4
    <3>2. QED
      BY <1>0, <1>6, <3>1 DEF HostTypes
  <2>3. timer' \cap creating' = {}
    <3>1. ~(p \in timer' /\ p \in creating')
      BY <1>5 DEF Swaps
    <3>2. QED
      BY <1>0, <1>5, <3>1 DEF HostTypes
  <2>4. QED
    BY <1>0, <1>5, <2>1, <2>2, <2>3 DEF HostTypes
<1>10. QED
  BY <1>7, <1>8, <1>9 DEF HInv

\* A page with no connection, and the same page as it starts or gives up one.
LEMMA IdlePage ==
  ASSUME HInv, NEW p \in Pages, ws[p] = "none"
  PROVE  down[p] = <<>> /\ up[p] = <<>> /\ \A c \in Codes : host[c] # p
<1>1. down[p] = <<>> /\ up[p] = <<>> /\ RoleOK(p)
  BY PageTypes
<1>2. QED
  BY <1>1, NotConnected

LEMMA StillIdle ==
  ASSUME NEW p \in Pages, down'[p] = <<>>, up'[p] = <<>>, \A c \in Codes : host'[c] # p,
         \/ ws'[p] = "connecting" /\ status'[p] = "connecting" /\ p \notin timer' /\ p \notin creating'
         \/ ws'[p] = "none" /\ status'[p] # "open" /\ (p \in timer' \/ p \in creating' => status'[p] = "connecting")
  PROVE  SocketOK(p)' /\ RoleOK(p)' /\ ToldOK(p)'
<1>1. SocketOK(p)'
  BY EmptyStream DEF SocketOK
<1>2. RoleOK(p)' /\ ToldOK(p)'
  BY DEF Hosting, Connected, RoleOK, ToldOK
<1>3. QED
  BY <1>1, <1>2

LEMMA ReconnectStep ==
  ASSUME HostAssumption, HInv, NEW p \in Pages, Reconnect(p)
  PROVE  HInv'
<1> USE DEF Reconnect, Connect, relayVars
<1>0. HostTypes
  BY DEF HInv
<1>1. ws[p] = "none" /\ p \notin creating
  BY <1>0, PageTypes DEF SocketOK, HostTypes
<1>2. ws'[p] = "connecting" /\ status'[p] = "connecting" /\ \A q \in Pages : q # p => ws'[q] = ws[q] /\ status'[q] = status[q]
  BY <1>0 DEF HostTypes
<1>3. SocketOK(p)' /\ RoleOK(p)' /\ ToldOK(p)'
  BY <1>1, <1>2, IdlePage, StillIdle
<1>4. ASSUME NEW q \in Pages, q # p
      PROVE  SocketOK(q)' /\ RoleOK(q)' /\ ToldOK(q)'
  <2>1. SocketOK(q) /\ RoleOK(q) /\ ToldOK(q)
    BY PageTypes
  <2>2. QED
    BY <1>2, <1>4, <2>1, OthersKept
<1>5. HostTypes'
  <2>1. status' \in [Pages -> {"away", "connecting", "open", "missing", "replaced"}] /\ ws' \in [Pages -> {"none", "connecting", "open"}]
    BY <1>0 DEF HostTypes
  <2>2. QED
    BY <1>0, <2>1 DEF HostTypes
<1>6. QED
  BY <1>3, <1>4, <1>5 DEF HInv

LEMMA CreatedStep ==
  ASSUME HostAssumption, HInv, NEW p \in Pages, Created(p)
  PROVE  HInv'
<1> USE DEF Created, Connect
<1>0. HostTypes
  BY DEF HInv
<1>1. ws[p] = "none" /\ p \notin timer
  BY <1>0, PageTypes DEF SocketOK, HostTypes
<1>2. /\ ws'[p] = "connecting" /\ status'[p] = "connecting"
      /\ \A q \in Pages : q # p => ws'[q] = ws[q] /\ status'[q] = status[q] /\ code'[q] = code[q]
  BY <1>0 DEF HostTypes
<1>3. SocketOK(p)' /\ RoleOK(p)' /\ ToldOK(p)'
  BY <1>1, <1>2, IdlePage, StillIdle
<1>4. ASSUME NEW q \in Pages, q # p
      PROVE  SocketOK(q)' /\ RoleOK(q)' /\ ToldOK(q)'
  <2>1. SocketOK(q) /\ RoleOK(q) /\ ToldOK(q)
    BY PageTypes
  <2>2. QED
    BY <1>2, <1>4, <2>1, OthersKept
<1>5. drawn + 1 \in Codes /\ drawn' = drawn + 1 /\ 1 .. drawn \subseteq 1 .. (drawn + 1) /\ drawn + 1 \in 1 .. (drawn + 1)
  BY <1>0 DEF HostTypes, Codes, HostAssumption
<1>6. HostTypes'
  <2>1. status' \in [Pages -> {"away", "connecting", "open", "missing", "replaced"}] /\ ws' \in [Pages -> {"none", "connecting", "open"}]
    BY <1>0 DEF HostTypes
  <2>2. code' \in [Pages -> Codes]
    BY <1>0, <1>5 DEF HostTypes
  <2>3. drawn' \in Codes /\ alive' \subseteq 1 .. drawn'
    BY <1>0, <1>5 DEF HostTypes
  <2>4. \A c \in Codes : (host'[c] # NoPage => c \in alive') /\ (saved'[c] # {} => c \in alive')
    BY <1>0 DEF HostTypes
  <2>5. /\ restored' \subseteq Pages /\ swapped' \subseteq Pages /\ fresh' \subseteq Pages
        /\ timer' \subseteq Pages /\ creating' \subseteq Pages /\ timer' \cap creating' = {}
    BY <1>0 DEF HostTypes
  <2>6. QED
    BY <1>0, <2>1, <2>2, <2>3, <2>4, <2>5 DEF HostTypes
<1>7. QED
  BY <1>3, <1>4, <1>6 DEF HInv

LEMMA CreateFailedStep ==
  ASSUME HostAssumption, HInv, NEW p \in Pages, CreateFailed(p)
  PROVE  HInv'
<1> USE DEF CreateFailed, relayVars
<1>0. HostTypes
  BY DEF HInv
<1>1. ws[p] = "none" /\ p \notin timer
  BY <1>0, PageTypes DEF SocketOK, HostTypes
<1>2. status'[p] = "missing" /\ \A q \in Pages : q # p => status'[q] = status[q]
  BY <1>0 DEF HostTypes
<1>3. SocketOK(p)' /\ RoleOK(p)' /\ ToldOK(p)'
  BY <1>1, <1>2, IdlePage, StillIdle
<1>4. ASSUME NEW q \in Pages, q # p
      PROVE  SocketOK(q)' /\ RoleOK(q)' /\ ToldOK(q)'
  <2>1. SocketOK(q) /\ RoleOK(q) /\ ToldOK(q)
    BY PageTypes
  <2>2. QED
    BY <1>2, <1>4, <2>1, OthersKept
<1>5. HostTypes'
  <2>1. status' \in [Pages -> {"away", "connecting", "open", "missing", "replaced"}]
    BY <1>0 DEF HostTypes
  <2>2. QED
    BY <1>0, <2>1 DEF HostTypes
<1>6. QED
  BY <1>3, <1>4, <1>5 DEF HInv

LEMMA ChangeStep ==
  ASSUME HostAssumption, HInv, NEW p \in Pages, NEW n \in Queues, Change(p, n)
  PROVE  HInv'
<1> USE DEF Change, Act, relayVars
<1>0. HostTypes
  BY DEF HInv
<1>1. up[p] \in Seq(Queues) /\ SocketOK(p) /\ RoleOK(p) /\ ToldOK(p)
  BY PageTypes
<1>2. queue'[p] = n /\ \A q \in Pages : q # p => queue'[q] = queue[q]
  BY <1>0 DEF HostTypes
<1>3. /\ ws[p] = "open" => up'[p] = Append(up[p], n)
      /\ ws[p] # "open" => up'[p] = up[p]
      /\ \A q \in Pages : q # p => up'[q] = up[q]
  BY <1>0 DEF HostTypes, Sent
<1>4. /\ up'[p] \in Seq(Queues)
      /\ ws[p] = "open" => up'[p] # <<>> /\ up'[p][Len(up'[p])] = n
  <2>1. ASSUME NEW u \in Seq(Queues), NEW x \in Queues
        PROVE  Append(u, x) \in Seq(Queues) /\ Append(u, x) # <<>> /\ Append(u, x)[Len(Append(u, x))] = x
    BY AppendAt, AppendElements
  <2>2. QED
    BY <1>1, <1>3, <2>1
<1>5. SocketOK(p)' /\ RoleOK(p)' /\ ToldOK(p)'
  <2>1. SocketOK(p)'
    BY <1>1, <1>3 DEF SocketOK
  <2>2. Hosting(p)' <=> Hosting(p)
    BY DEF Hosting, Connected
  <2>3. RoleOK(p)'
    BY <1>1, <2>2 DEF RoleOK
  <2>4. ToldOK(p)'
    <3>1. Hosting(p) /\ IsGreeted(down[p]) => ws[p] = "open"
      BY GreetedIsOpen
    <3>2. QED
      BY <1>2, <1>4, <2>2, <3>1 DEF ToldOK
  <2>5. QED
    BY <2>1, <2>3, <2>4
<1>6. ASSUME NEW q \in Pages, q # p
      PROVE  SocketOK(q)' /\ RoleOK(q)' /\ ToldOK(q)'
  <2>1. SocketOK(q) /\ RoleOK(q) /\ ToldOK(q)
    BY PageTypes
  <2>2. QED
    BY <1>2, <1>3, <1>6, <2>1, OthersKept
<1>7. HostTypes'
  <2>1. queue' \in [Pages -> Queues]
    BY <1>0 DEF HostTypes
  <2>2. up' \in [Pages -> Seq(Queues)]
    <3>1. up' \in [Pages -> Seq(Queues)] \/ up' = up
      <4>1. up' = [up EXCEPT ![p] = up'[p]] \/ up' = up
        BY <1>3 DEF Sent
      <4>2. QED
        BY <1>0, <1>4, <4>1 DEF HostTypes
    <3>2. QED
      BY <1>0, <3>1 DEF HostTypes
  <2>3. QED
    BY <1>0, <2>1, <2>2 DEF HostTypes
<1>8. QED
  BY <1>5, <1>6, <1>7 DEF HInv

LEMMA ReclaimStep ==
  ASSUME HostAssumption, HInv, NEW p \in Pages, Reclaim(p)
  PROVE  HInv'
<1> USE DEF Reclaim, Act, Connect, relayVars
<1>0. HostTypes
  BY DEF HInv
<1>1. ws[p] = "none" /\ p \notin timer /\ p \notin creating
  BY PageTypes DEF SocketOK
<1>2. ws'[p] = "connecting" /\ status'[p] = "connecting" /\ \A q \in Pages : q # p => ws'[q] = ws[q] /\ status'[q] = status[q]
  BY <1>0 DEF HostTypes
<1>3. SocketOK(p)' /\ RoleOK(p)' /\ ToldOK(p)'
  BY <1>1, <1>2, IdlePage, StillIdle
<1>4. ASSUME NEW q \in Pages, q # p
      PROVE  SocketOK(q)' /\ RoleOK(q)' /\ ToldOK(q)'
  <2>1. SocketOK(q) /\ RoleOK(q) /\ ToldOK(q)
    BY PageTypes
  <2>2. QED
    BY <1>2, <1>4, <2>1, OthersKept
<1>5. HostTypes'
  <2>1. status' \in [Pages -> {"away", "connecting", "open", "missing", "replaced"}] /\ ws' \in [Pages -> {"none", "connecting", "open"}]
    BY <1>0 DEF HostTypes
  <2>2. QED
    BY <1>0, <2>1 DEF HostTypes
<1>6. QED
  BY <1>3, <1>4, <1>5 DEF HInv

LEMMA StartAnewStep ==
  ASSUME HostAssumption, HInv, NEW p \in Pages, StartAnew(p)
  PROVE  HInv'
<1> USE DEF StartAnew, Act, relayVars
<1>0. HostTypes
  BY DEF HInv
<1>1. ws[p] = "none" /\ p \notin timer
  BY PageTypes DEF SocketOK
<1>2. status'[p] = "connecting" /\ \A q \in Pages : q # p => status'[q] = status[q]
  BY <1>0 DEF HostTypes
<1>3. SocketOK(p)' /\ RoleOK(p)' /\ ToldOK(p)'
  BY <1>1, <1>2, IdlePage, StillIdle
<1>4. ASSUME NEW q \in Pages, q # p
      PROVE  SocketOK(q)' /\ RoleOK(q)' /\ ToldOK(q)'
  <2>1. SocketOK(q) /\ RoleOK(q) /\ ToldOK(q)
    BY PageTypes
  <2>2. QED
    BY <1>2, <1>4, <2>1, OthersKept
<1>5. HostTypes'
  <2>1. status' \in [Pages -> {"away", "connecting", "open", "missing", "replaced"}]
    BY <1>0 DEF HostTypes
  <2>2. QED
    BY <1>0, <1>1, <2>1 DEF HostTypes
<1>6. QED
  BY <1>3, <1>4, <1>5 DEF HInv

LEMMA OpenStep ==
  ASSUME HostAssumption, HInv, NEW p \in Pages, NEW c \in 1 .. drawn, Open(p, c)
  PROVE  HInv'
<1> USE DEF Open
<1>0. HostTypes
  BY DEF HInv
<1>1. c \in Codes /\ {} \in Queues
  BY <1>0 DEF HostTypes, Codes, Queues, HostAssumption
<1>2. /\ ws'[p] = (IF c \in alive THEN "connecting" ELSE "none") /\ status'[p] = (IF c \in alive THEN "connecting" ELSE "away")
      /\ down'[p] = <<>> /\ up'[p] = <<>> /\ p \notin timer' /\ p \notin creating'
      /\ \A q \in Pages : q # p => /\ ws'[q] = ws[q] /\ status'[q] = status[q] /\ code'[q] = code[q]
                                   /\ queue'[q] = queue[q] /\ down'[q] = down[q] /\ up'[q] = up[q]
  BY <1>0 DEF HostTypes
<1>3. /\ host' \in [Codes -> Pages \cup {NoPage}]
      /\ \A d \in Codes : host'[d] # p /\ (host'[d] # NoPage => host[d] # NoPage)
      /\ \A q \in Pages : q # p => \A d \in Codes : host'[d] = q <=> host[d] = q
  BY PlaceLeft
<1>4. SocketOK(p)' /\ RoleOK(p)' /\ ToldOK(p)'
  BY <1>2, <1>3, StillIdle
<1>5. ASSUME NEW q \in Pages, q # p
      PROVE  SocketOK(q)' /\ RoleOK(q)' /\ ToldOK(q)'
  <2>1. SocketOK(q) /\ RoleOK(q) /\ ToldOK(q)
    BY PageTypes
  <2>2. QED
    BY <1>2, <1>3, <1>5, <2>1, OthersKept
<1>6. HostTypes'
  <2>1. status' \in [Pages -> {"away", "connecting", "open", "missing", "replaced"}] /\ ws' \in [Pages -> {"none", "connecting", "open"}]
    BY <1>0 DEF HostTypes
  <2>2. code' \in [Pages -> Codes] /\ queue' \in [Pages -> Queues]
    BY <1>0, <1>1 DEF HostTypes
  <2>3. down' \in [Pages -> Seq(Events)] /\ up' \in [Pages -> Seq(Queues)]
    BY <1>0, EmptyStream DEF HostTypes
  <2>4. \A d \in Codes : (host'[d] # NoPage => d \in alive') /\ (saved'[d] # {} => d \in alive')
    BY <1>0, <1>3 DEF HostTypes
  <2>5. /\ restored' \subseteq Pages /\ swapped' \subseteq Pages /\ fresh' \subseteq Pages
        /\ timer' \subseteq Pages /\ creating' \subseteq Pages /\ timer' \cap creating' = {}
        /\ reopened' \subseteq Codes
    BY <1>0, <1>1 DEF HostTypes
  <2>6. QED
    BY <1>0, <1>3, <2>1, <2>2, <2>3, <2>4, <2>5 DEF HostTypes
<1>7. QED
  BY <1>4, <1>5, <1>6 DEF HInv

LEMMA StutterStep ==
  ASSUME HInv, UNCHANGED vars
  PROVE  HInv'
<1>1. HostTypes'
  BY DEF HInv, HostTypes, vars, pageVars, relayVars
<1>2. ASSUME NEW p \in Pages PROVE SocketOK(p)' /\ RoleOK(p)' /\ ToldOK(p)'
  BY PageTypes, OthersKept DEF vars, pageVars, relayVars
<1>3. QED
  BY <1>1, <1>2 DEF HInv

LEMMA NextHInv ==
  ASSUME HostAssumption, HInv, [Next]_vars
  PROVE  HInv'
<1>1. CASE Restart
  BY <1>1, RestartStep
<1>2. ASSUME NEW p \in Pages, Goes(p) PROVE HInv'
  BY <1>2, AdmitStep, ReceiveStep, OnOpenStep, OnHelloStep, OnCloseStep, ReconnectStep, CreatedStep, CreateFailedStep DEF Goes
<1>3. ASSUME NEW p \in Pages, Lose(p) \/ Reclaim(p) \/ StartAnew(p) PROVE HInv'
  BY <1>3, LoseStep, ReclaimStep, StartAnewStep
<1>4. ASSUME NEW p \in Pages, NEW n \in Queues, Change(p, n) PROVE HInv'
  BY <1>4, ChangeStep
<1>5. ASSUME NEW p \in Pages, NEW c \in 1 .. drawn, Open(p, c) PROVE HInv'
  BY <1>5, OpenStep
<1>6. CASE UNCHANGED vars
  BY <1>6, StutterStep
<1>7. QED
  BY <1>1, <1>2, <1>3, <1>4, <1>5, <1>6 DEF Next

\* Every page's socket is in step with its status and with the relay's idea of
\* who hosts its session, whatever connections are lost and however the relay
\* restarts.
THEOREM HostInvariant == Spec => []HInv
<1>1. Init => HInv
  BY InitHInv, HostAssumption
<1>2. HInv /\ [Next]_vars => HInv'
  BY NextHInv, HostAssumption
<1>3. QED
  BY <1>1, <1>2, PTL DEF Spec

LEMMA InvImpliesSafe ==
  ASSUME HostAssumption, HInv
  PROVE  HostsSafe
<1>0. HostTypes
  BY DEF HInv
<1>1. HTypeOK
  <2>1. \A p \in timer \union creating : ws[p] = "none" /\ down[p] = <<>> /\ up[p] = <<>>
    <3>1. ASSUME NEW p \in Pages, p \in timer \/ p \in creating
          PROVE  ws[p] = "none" /\ down[p] = <<>> /\ up[p] = <<>>
      BY <3>1, PageTypes DEF SocketOK
    <3>2. QED
      BY <1>0, <3>1 DEF HostTypes
  <2>2. \A c \in Codes : host[c] # NoPage => c \in alive /\ code[host[c]] = c
    <3>1. ASSUME NEW c \in Codes, host[c] # NoPage
          PROVE  c \in alive /\ code[host[c]] = c
      <4>1. host[c] \in Pages /\ c \in alive
        BY <1>0, <3>1 DEF HostTypes
      <4>2. RoleOK(host[c])
        BY <4>1, PageTypes
      <4>3. QED
        BY <4>1, <4>2 DEF RoleOK
    <3>2. QED
      BY <3>1
  <2>3. \A p \in Pages : ws[p] = "open" => status[p] = "open"
    BY PageTypes DEF SocketOK
  <2>4. drawn <= MaxSessions
    BY <1>0 DEF HostTypes, Codes, HostAssumption
  <2>5. QED
    BY <1>0, <2>1, <2>2, <2>3, <2>4 DEF HTypeOK, HostTypes
<1>2. ASSUME Quiet, NEW p \in Pages
      PROVE  /\ (status[p] = "open") <=> (host[code[p]] = p)
             /\ status[p] = "open" => saved[code[p]] = queue[p]
  <2>1. /\ SocketOK(p) /\ RoleOK(p) /\ ToldOK(p) /\ code[p] \in Codes
        /\ down[p] = <<>> /\ up[p] = <<>> /\ ws[p] # "connecting"
    BY <1>2, PageTypes DEF Quiet
  <2>2. Hosting(p) <=> status[p] = "open"
    BY <2>1, EmptyStream DEF Hosting, Connected, SocketOK
  <2>3. host[code[p]] = p <=> Hosting(p)
    BY <2>1 DEF RoleOK
  <2>4. Hosting(p) => saved[code[p]] = queue[p]
    BY <2>1, EmptyStream DEF ToldOK
  <2>5. QED
    BY <2>2, <2>3, <2>4
<1>3. HostsAgreeOnceQuiet
  BY <1>2 DEF HostsAgreeOnceQuiet
<1>4. QED
  BY <1>1, <1>3 DEF HostsSafe

\* Once nothing is under way, exactly the pages that say they are open host
\* their sessions, and the relay has their queues as they are.
THEOREM HostsAreSafe == Spec => []HostsSafe
<1>1. HInv => HostsSafe
  BY InvImpliesSafe, HostAssumption
<1>2. QED
  BY <1>1, HostInvariant, PTL

-----------------------------------------------------------------------------
\* A session hosted by one page never loses a queued song that lasts, unless
\* the page's queue can change before the first hello.

\* States that each hold what lo and those before them hold of k, and of k
\* nothing hi doesn't.
Rising(k, u, lo, hi) ==
  /\ lo \intersect k \subseteq hi
  /\ \A i \in 1 .. Len(u) : lo \intersect k \subseteq u[i] /\ u[i] \intersect k \subseteq hi
  /\ \A i, j \in 1 .. Len(u) : i <= j => u[i] \intersect k \subseteq u[j]

LEMMA RisingEmpty ==
  ASSUME NEW k, NEW lo, NEW hi, lo \intersect k \subseteq hi
  PROVE  Rising(k, <<>>, lo, hi)
<1>1. Len(<<>>) = 0 /\ 1 .. 0 = {}
  OBVIOUS
<1>2. QED
  BY <1>1 DEF Rising

LEMMA RisingTail ==
  ASSUME NEW k, NEW S, NEW u \in Seq(S), u # <<>>, NEW lo, NEW hi, Rising(k, u, lo, hi)
  PROVE  lo \intersect k \subseteq Head(u) /\ Rising(k, Tail(u), lo, hi) /\ Rising(k, Tail(u), Head(u), hi)
<1> DEFINE n == Len(u)
           t == Tail(u)
<1>1. /\ n \in Nat \ {0} /\ Len(t) = n - 1 /\ \A i \in 1 .. (n - 1) : t[i] = u[i + 1]
      /\ Head(u) = u[1]
  BY TailAt
<1> HIDE DEF t
<1>2. 1 \in 1 .. n /\ \A i \in 1 .. Len(t) : i \in Nat /\ i + 1 \in 1 .. n /\ 1 <= i + 1 /\ t[i] = u[i + 1]
  BY <1>1
<1>3. lo \intersect k \subseteq u[1] /\ u[1] \intersect k \subseteq hi
  BY <1>2 DEF Rising
<1>4. \A i \in 1 .. Len(t) : lo \intersect k \subseteq t[i] /\ t[i] \intersect k \subseteq hi /\ u[1] \intersect k \subseteq t[i]
  BY <1>2 DEF Rising
<1>5. \A i, j \in 1 .. Len(t) : i <= j => t[i] \intersect k \subseteq t[j]
  <2>1. ASSUME NEW i \in 1 .. Len(t), NEW j \in 1 .. Len(t), i <= j
        PROVE  t[i] \intersect k \subseteq t[j]
    <3>1. i + 1 <= j + 1 /\ i + 1 \in 1 .. n /\ j + 1 \in 1 .. n
      BY <1>2, <2>1
    <3>2. QED
      BY <1>2, <3>1 DEF Rising
  <2>2. QED
    BY <2>1
<1>6. QED
  BY <1>1, <1>3, <1>4, <1>5 DEF Rising, t

LEMMA RisingAppend ==
  ASSUME NEW k, NEW S, NEW u \in Seq(S), NEW lo, NEW hi, Rising(k, u, lo, hi), NEW x \in S,
         hi \intersect k \subseteq x
  PROVE  Rising(k, Append(u, x), lo, x)
<1> DEFINE n == Len(u)
           t == Append(u, x)
<1>1. n \in Nat /\ Len(t) = n + 1 /\ (\A i \in 1 .. n : t[i] = u[i]) /\ t[n + 1] = x
  BY AppendAt
<1> HIDE DEF t
<1>2. \A i \in 1 .. Len(t) : i \in 1 .. n \/ i = n + 1
  BY <1>1
<1>3. \A i \in 1 .. n : lo \intersect k \subseteq t[i] /\ t[i] \intersect k \subseteq hi
  BY <1>1 DEF Rising
<1>4. lo \intersect k \subseteq x
  BY DEF Rising
<1>5. \A i \in 1 .. Len(t) : lo \intersect k \subseteq t[i] /\ t[i] \intersect k \subseteq x
  BY <1>1, <1>2, <1>3, <1>4
<1>6. ASSUME NEW i \in 1 .. Len(t), NEW j \in 1 .. Len(t), i <= j
      PROVE  t[i] \intersect k \subseteq t[j]
  <2>1. CASE j = n + 1
    BY <1>1, <1>5, <2>1
  <2>2. CASE j # n + 1
    <3>1. j \in 1 .. n
      BY <1>2, <2>2
    <3>2. i \in 1 .. n
      BY <1>1, <1>6, <3>1
    <3>3. u[i] \intersect k \subseteq u[j]
      BY <1>6, <3>1, <3>2 DEF Rising
    <3>4. QED
      BY <1>1, <3>1, <3>2, <3>3
  <2>3. QED
    BY <2>1, <2>2
<1>7. QED
  BY <1>4, <1>5, <1>6 DEF Rising, t

\* The only page open at its session.
Sole(p) == code[p] \in alive /\ HostedBy(code[p]) = {p}

IsRefused(d) == \E i \in 1 .. Len(d) : d[i] = Closed("missing")

\* A page gives a session up only when the session is gone; one that hasn't
\* restored has nothing of its own, and is greeted with what the relay has (nothing
\* of a session that no page was opened at); and what the only page of a session
\* has published since, and shows, holds of that what lasts.
KeptOK(p) ==
  /\ code[p] <= drawn
  /\ p \in creating \/ status[p] = "missing" \/ IsRefused(down[p]) => code[p] \notin alive
  /\ p \notin restored => queue[p] = {} /\ up[p] = <<>>
  /\ Sole(p) /\ p \notin restored =>
       \A i \in 1 .. Len(down[p]) : down[p][i].type = "hello" => down[p][i].queue = saved[code[p]]
  /\ Sole(p) /\ p \notin restored /\ code[p] \notin reopened => saved[code[p]] = {}
  /\ Sole(p) /\ p \in restored => Rising(Lasting(code[p]), up[p], saved[code[p]], queue[p])

KInv == \A p \in Pages : KeptOK(p)

\* Who is open at a session, while no page comes, goes or changes session.
LEMMA SameHosts ==
  ASSUME \A q \in Pages : code'[q] = code[q] /\ (status'[q] = "away" <=> status[q] = "away"), alive' = alive,
         NEW p \in Pages
  PROVE  Sole(p)' <=> Sole(p)
<1>1. {q \in Pages : status'[q] # "away" /\ code'[q] = code'[p]} = {q \in Pages : status[q] # "away" /\ code[q] = code[p]}
  OBVIOUS
<1>2. HostedBy(code[p])' = HostedBy(code[p])
  BY <1>1 DEF HostedBy
<1>3. QED
  BY <1>2 DEF Sole

\* A page none of whose own state changes.
LEMMA OthersKeptOK ==
  ASSUME HInv, NEW q \in Pages, KeptOK(q), drawn \in Nat, drawn' \in Nat, drawn <= drawn',
         status'[q] = status[q], down'[q] = down[q], up'[q] = up[q], code'[q] = code[q], queue'[q] = queue[q],
         q \in creating' => q \in creating, q \in restored' <=> q \in restored,
         code[q] \in alive' => code[q] \in alive,
         Sole(q)' => /\ Sole(q) /\ saved'[code[q]] = saved[code[q]]
                     /\ code[q] \in reopened' <=> code[q] \in reopened
  PROVE  KeptOK(q)'
<1>1. code[q] \in Nat
  BY PageTypes DEF Codes
<1>2. code'[q] <= drawn'
  BY <1>1 DEF KeptOK, Lasting
<1>3. QED
  BY <1>2 DEF KeptOK, Lasting

\* Two pages open at a session.
LEMMA NotSole ==
  ASSUME NEW p \in Pages, NEW q \in Pages, p # q, status[p] # "away", code[p] = code[q]
  PROVE  ~Sole(q)
BY DEF Sole, HostedBy

\* A page with a connection, a timer or a session to come is open.
LEMMA IsHere ==
  ASSUME HInv, NEW p \in Pages, ws[p] # "none" \/ p \in timer \/ p \in creating
  PROVE  status[p] # "away"
BY PageTypes DEF SocketOK

LEMMA InitKInv ==
  ASSUME HostAssumption, Init
  PROVE  KInv
<1>1. ASSUME NEW p \in Pages PROVE KeptOK(p)
  <2>1. /\ code[p] <= drawn /\ p \notin creating /\ status[p] # "missing"
        /\ queue[p] = {} /\ down[p] = <<>> /\ up[p] = <<>> /\ p \notin restored /\ saved[code[p]] = {}
    BY DEF Init, Codes, HostAssumption
  <2>2. ~IsRefused(<<>>) /\ 1 .. Len(<<>>) = {}
    BY DEF IsRefused
  <2>3. QED
    BY <2>1, <2>2 DEF KeptOK, Lasting
<1>2. QED
  BY <1>1 DEF KInv

LEMMA DrawnTyped ==
  ASSUME HInv
  PROVE  HostTypes /\ drawn \in Nat
BY DEF HInv, HostTypes, Codes

LEMMA AdmitKept ==
  ASSUME HostAssumption, HInv, HInv', KInv, NEW p \in Pages, Admit(p)
  PROVE  KInv'
<1> USE DEF Admit, pageVars
<1> DEFINE c == code[p]
<1>0. HostTypes /\ drawn \in Nat
  BY DrawnTyped
<1>1. /\ ws[p] = "connecting" /\ down[p] = <<>> /\ c \in Codes /\ saved[c] \in Queues
      /\ RoleOK(p) /\ KeptOK(p)
  BY PageTypes DEF KInv
<1>2. status[p] # "away"
  BY <1>1, IsHere
<1>3. \A q \in Pages : Sole(q)' <=> Sole(q)
  BY SameHosts
<1>4. CASE c \in alive
  <2> DEFINE h == <<Opened, Hello(saved[c])>>
  <2>1. down' = [q \in Pages |-> CASE q = p -> h
                                   [] q # p /\ q = host[c] -> Append(down[q], Closed("replaced"))
                                   [] OTHER -> down[q]]
    BY <1>4
  <2>2. h \in Seq(Events) /\ Len(h) = 2 /\ (\A i \in 1 .. 2 : h[i].type = "hello" => h[i].queue = saved[c])
    BY <1>1, AdmittedShape
  <2>3. ~IsRefused(h)
    <3>1. "missing" \in Reasons
      BY DEF Reasons
    <3>2. h[1] = Opened /\ h[2] = Hello(saved[c])
      OBVIOUS
    <3>3. h[1] # Closed("missing") /\ h[2] # Closed("missing")
      BY <1>1, <3>1, <3>2, EventKinds
    <3> HIDE DEF h
    <3>4. \A i \in 1 .. Len(h) : i = 1 \/ i = 2
      BY <2>2
    <3>5. QED
      BY <3>3, <3>4 DEF IsRefused
  <2> HIDE DEF h
  <2>4. /\ down'[p] = h
        /\ \A q \in Pages : q # p /\ q # host[c] => down'[q] = down[q]
        /\ \A q \in Pages : q # p /\ q = host[c] => down'[q] = Append(down[q], Closed("replaced"))
    BY <2>1
  <2>5. KeptOK(p)'
    BY <1>1, <1>3, <2>2, <2>3, <2>4 DEF KeptOK, Lasting
  <2>6. ASSUME NEW q \in Pages, q # p, q # host[c]
        PROVE  KeptOK(q)'
    <3>1. KeptOK(q) /\ (Sole(q)' => Sole(q))
      BY <1>3 DEF KInv
    <3>2. down'[q] = down[q] /\ drawn' \in Nat /\ drawn <= drawn'
      BY <1>0, <2>4, <2>6
    <3>3. QED
      BY <1>0, <3>1, <3>2, OthersKeptOK
  <2>7. ASSUME NEW q \in Pages, q # p, q = host[c]
        PROVE  KeptOK(q)'
    <3>1. KeptOK(q) /\ down[q] \in Seq(Events) /\ RoleOK(q) /\ SocketOK(q)
      BY PageTypes DEF KInv
    <3>2. Hosting(q) /\ code[q] = c
      BY <1>1, <2>7, <3>1 DEF RoleOK
    <3>3. ~Sole(q) /\ ~Sole(q)'
      BY <1>2, <1>3, <2>7, <3>2, NotSole
    <3>4. IsRefused(down'[q]) => IsRefused(down[q])
      <4> DEFINE e == Append(down[q], Closed("replaced"))
                 d == down[q]
      <4>1. ws[q] # "none" /\ Shaped(down[q], ws[q]) /\ "replaced" \in Reasons /\ "replaced" # "missing"
        BY <3>1, <3>2, PageTypes DEF SocketOK, Hosting, Reasons
      <4>2. \A i \in 1 .. Len(e) : e[i] = Closed("missing") => "replaced" = "missing" \/ (i \in 1 .. Len(d) /\ d[i] = e[i])
        BY <3>1, <4>1, ClosedShape
      <4>3. down'[q] = e
        BY <2>4, <2>7
      <4> HIDE DEF e
      <4>4. QED
        BY <4>1, <4>2, <4>3 DEF IsRefused
    <3>5. QED
      BY <3>1, <3>3, <3>4 DEF KeptOK, Lasting
  <2>8. QED
    BY <2>5, <2>6, <2>7 DEF KInv
<1>5. CASE c \notin alive
  <2>1. down' = [down EXCEPT ![p] = <<Opened, Closed("missing")>>]
    BY <1>5
  <2>2. \A q \in Pages : q # p => down'[q] = down[q]
    BY <1>0, <2>1 DEF HostTypes
  <2>3. ~Sole(p)'
    BY <1>5 DEF Sole
  <2>4. KeptOK(p)'
    BY <1>1, <1>5, <2>3 DEF KeptOK, Lasting
  <2>5. ASSUME NEW q \in Pages, q # p
        PROVE  KeptOK(q)'
    <3>1. KeptOK(q) /\ (Sole(q)' => Sole(q))
      BY <1>3 DEF KInv
    <3>2. down'[q] = down[q] /\ drawn' \in Nat /\ drawn <= drawn'
      BY <1>0, <2>2, <2>5
    <3>3. QED
      BY <1>0, <3>1, <3>2, OthersKeptOK
  <2>6. QED
    BY <2>4, <2>5 DEF KInv
<1>6. QED
  BY <1>4, <1>5

\* The state a host published last is the first the relay receives.
LEMMA ReceiveKept ==
  ASSUME HostAssumption, HInv, HInv', KInv, NEW p \in Pages, Receive(p)
  PROVE  /\ KInv'
         /\ Sole(p) => saved[code[p]] \intersect Lasting(code[p]) \subseteq saved'[code[p]]
<1> USE DEF Receive, pageVars
<1> DEFINE c == code[p]
           u == up[p]
           k == Lasting(code[p])
<1>0. HostTypes /\ drawn \in Nat
  BY DEF HInv, HostTypes, Codes
<1>1. /\ u # <<>> /\ u \in Seq(Queues) /\ c \in Codes /\ SocketOK(p) /\ KeptOK(p)
  BY PageTypes DEF KInv
<1>2. ws[p] = "open" /\ p \in restored
  BY <1>1 DEF SocketOK, KeptOK
<1>3. status[p] # "away"
  BY <1>2, IsHere
<1>4. \A q \in Pages : Sole(q)' <=> Sole(q)
  BY SameHosts
<1>5. up'[p] = Tail(u) /\ \A q \in Pages : q # p => up'[q] = up[q]
  BY <1>0 DEF HostTypes
<1>6. /\ saved'[c] = Head(u) \/ saved'[c] = saved[c]
      /\ \A d \in Codes : d # c => saved'[d] = saved[d]
  BY <1>0, <1>1 DEF HostTypes
<1>7. Sole(p) => /\ saved[c] \intersect k \subseteq Head(u)
                 /\ Rising(k, Tail(u), saved[c], queue[p]) /\ Rising(k, Tail(u), Head(u), queue[p])
  <2>1. ASSUME Sole(p) PROVE Rising(k, u, saved[c], queue[p])
    BY <1>1, <1>2, <2>1 DEF KeptOK, Lasting
  <2>2. QED
    BY <1>1, <2>1, RisingTail
<1>8. KeptOK(p)'
  <2>1. Sole(p) => Rising(k, up'[p], saved'[c], queue[p])
    BY <1>5, <1>6, <1>7
  <2>2. QED
    BY <1>1, <1>2, <1>4, <2>1 DEF KeptOK, Lasting
<1>9. ASSUME NEW q \in Pages, q # p
      PROVE  KeptOK(q)'
  <2>1. KeptOK(q) /\ code[q] \in Codes
    BY PageTypes DEF KInv
  <2>2. Sole(q) => saved'[code[q]] = saved[code[q]]
    BY <1>3, <1>6, <1>9, <2>1, NotSole
  <2>3. Sole(q)' => Sole(q) /\ saved'[code[q]] = saved[code[q]]
    BY <1>4, <2>2
  <2>4. up'[q] = up[q] /\ drawn' \in Nat /\ drawn <= drawn'
    BY <1>0, <1>5, <1>9
  <2>5. QED
    BY <1>0, <2>1, <2>3, <2>4, OthersKeptOK
<1>10. Sole(p) => saved[c] \intersect k \subseteq saved'[c]
  BY <1>6, <1>7
<1>11. QED
  BY <1>8, <1>9, <1>10 DEF KInv

LEMMA LoseKept ==
  ASSUME HostAssumption, HInv, HInv', KInv, NEW p \in Pages, Lose(p)
  PROVE  KInv'
<1> USE DEF Lose, Fault, pageVars
<1>0. HostTypes /\ drawn \in Nat
  BY DEF HInv, HostTypes, Codes
<1>1. ws[p] # "none" /\ down[p] \in Seq(Events) /\ Shaped(down[p], ws[p]) /\ KeptOK(p)
  BY PageTypes DEF SocketOK, KInv
<1>2. PICK n \in 0 .. Len(down[p]) : down' = [down EXCEPT ![p] = Append(SubSeq(@, 1, n), Closed("lost"))]
  OBVIOUS
<1> DEFINE e == Append(SubSeq(down[p], 1, n), Closed("lost"))
           d == down[p]
<1>3. /\ \A i \in 1 .. Len(e) : e[i].type = "hello" => i \in 1 .. Len(d) /\ d[i] = e[i]
      /\ \A i \in 1 .. Len(e) : e[i] = Closed("missing") => i \in 1 .. Len(d) /\ d[i] = e[i]
  BY <1>1, LostShape
<1>4. down' = [down EXCEPT ![p] = e]
  BY <1>2
<1> HIDE DEF e
<1>5. down'[p] = e /\ up'[p] = <<>> /\ \A q \in Pages : q # p => down'[q] = down[q] /\ up'[q] = up[q]
  BY <1>0, <1>4 DEF HostTypes
<1>6. \A q \in Pages : Sole(q)' <=> Sole(q)
  BY SameHosts
<1>7. KeptOK(p)'
  <2>1. IsRefused(down'[p]) => IsRefused(down[p])
    BY <1>3, <1>5 DEF IsRefused
  <2>2. Sole(p) /\ p \notin restored => \A i \in 1 .. Len(e) : e[i].type = "hello" => e[i].queue = saved[code[p]]
    BY <1>1, <1>3 DEF KeptOK, Lasting
  <2>3. Sole(p) /\ p \in restored => Rising(Lasting(code[p]), <<>>, saved[code[p]], queue[p])
    <3>1. Sole(p) /\ p \in restored => saved[code[p]] \intersect Lasting(code[p]) \subseteq queue[p]
      BY <1>1 DEF KeptOK, Lasting, Rising
    <3>2. QED
      BY <3>1, RisingEmpty
  <2>4. QED
    BY <1>1, <1>5, <1>6, <2>1, <2>2, <2>3 DEF KeptOK, Lasting
<1>8. ASSUME NEW q \in Pages, q # p
      PROVE  KeptOK(q)'
  <2>1. KeptOK(q) /\ (Sole(q)' => Sole(q))
    BY <1>6 DEF KInv
  <2>2. down'[q] = down[q] /\ up'[q] = up[q] /\ drawn' \in Nat /\ drawn <= drawn'
    BY <1>0, <1>5, <1>8
  <2>3. QED
    BY <1>0, <2>1, <2>2, OthersKeptOK
<1>9. QED
  BY <1>7, <1>8 DEF KInv

LEMMA RestartKept ==
  ASSUME HostAssumption, HInv, HInv', KInv, Restart
  PROVE  KInv'
<1> USE DEF Restart, Fault, pageVars
<1>1. ASSUME NEW p \in Pages
      PROVE  KeptOK(p)'
  <2>1. KeptOK(p) /\ ~Sole(p)' /\ code'[p] \notin alive' /\ up'[p] = <<>>
    BY DEF KInv, Sole
  <2>2. QED
    BY <2>1 DEF KeptOK, Lasting
<1>2. QED
  BY <1>1 DEF KInv

LEMMA OnOpenKept ==
  ASSUME HostAssumption, HInv, HInv', KInv, NEW p \in Pages, OnOpen(p)
  PROVE  KInv'
<1> USE DEF OnOpen, Event, relayVars
<1> DEFINE d == down[p]
           t == Tail(d)
<1>0. HostTypes /\ drawn \in Nat
  BY DEF HInv, HostTypes, Codes
<1>1. d # <<>> /\ Head(d).type = "opened" /\ d \in Seq(Events) /\ KeptOK(p)
  BY PageTypes DEF KInv
<1>2. down'[p] = t /\ status'[p] = "open" /\ \A q \in Pages : q # p => down'[q] = down[q] /\ status'[q] = status[q]
  BY <1>0 DEF HostTypes
<1>3. \A i \in 1 .. Len(t) : i + 1 \in 1 .. Len(d) /\ t[i] = d[i + 1]
  <2>1. ws[p] # "none" /\ Shaped(d, ws[p])
    BY <1>1, PageTypes DEF Connected, SocketOK
  <2>2. QED
    BY <1>1, <2>1, HandledShape
<1>4. \A q \in Pages : Sole(q)' <=> Sole(q)
  <2>1. status[p] # "away"
    BY <1>1, PageTypes, IsHere DEF Connected
  <2>2. \A q \in Pages : code'[q] = code[q] /\ (status'[q] = "away" <=> status[q] = "away")
    BY <1>2, <2>1
  <2>3. QED
    BY <2>2, SameHosts
<1> HIDE DEF t
<1>5. KeptOK(p)'
  <2>1. IsRefused(down'[p]) => IsRefused(d)
    BY <1>2, <1>3 DEF IsRefused
  <2>2. Sole(p) /\ p \notin restored => \A i \in 1 .. Len(t) : t[i].type = "hello" => t[i].queue = saved[code[p]]
    BY <1>1, <1>3 DEF KeptOK, Lasting
  <2>3. QED
    BY <1>1, <1>2, <1>4, <2>1, <2>2 DEF KeptOK, Lasting
<1>6. ASSUME NEW q \in Pages, q # p
      PROVE  KeptOK(q)'
  <2>1. KeptOK(q) /\ (Sole(q)' => Sole(q))
    BY <1>4 DEF KInv
  <2>2. drawn' \in Nat /\ drawn <= drawn'
    BY <1>0
  <2>3. QED
    BY <1>0, <1>2, <1>6, <2>1, <2>2, OthersKeptOK
<1>7. QED
  BY <1>5, <1>6 DEF KInv

\* What the only page of a session publishes once it is greeted holds what the
\* relay had: it restores it first, the first time.
LEMMA OnHelloKept ==
  ASSUME HostAssumption, HInv, HInv', KInv, NEW p \in Pages, OnHello(p)
  PROVE  KInv'
<1> USE DEF OnHello, Event, relayVars
<1> DEFINE d == down[p]
           t == Tail(d)
           k == Lasting(code[p])
<1>0. HostTypes /\ drawn \in Nat
  BY DEF HInv, HostTypes, Codes
<1>1. /\ d # <<>> /\ Head(d).type = "hello" /\ d \in Seq(Events) /\ KeptOK(p)
      /\ up[p] \in Seq(Queues) /\ saved[code[p]] \in Queues
  BY PageTypes DEF KInv
<1>2. /\ down'[p] = t /\ up'[p] = Append(up[p], queue'[p]) /\ queue' \in [Pages -> Queues] /\ queue'[p] \in Queues
      /\ \A q \in Pages : q # p => down'[q] = down[q] /\ up'[q] = up[q] /\ queue'[q] = queue[q]
  <2>1. queue' \in [Pages -> Queues]
    BY DEF HInv, HostTypes
  <2>2. \A q \in Pages : q # p => queue'[q] = queue[q]
    BY <1>0 DEF HostTypes, Restored
  <2>3. /\ down'[p] = t /\ up'[p] = Append(up[p], queue'[p])
        /\ \A q \in Pages : q # p => down'[q] = down[q] /\ up'[q] = up[q]
    BY <1>0 DEF HostTypes
  <2>4. queue'[p] \in Queues
    BY <2>1
  <2>5. QED
    BY <2>1, <2>2, <2>3, <2>4
<1>3. /\ \A i \in 1 .. Len(t) : i + 1 \in 1 .. Len(d) /\ t[i] = d[i + 1]
      /\ 1 \in 1 .. Len(d) /\ Head(d) = d[1]
  <2>1. ws[p] # "none" /\ Shaped(d, ws[p])
    BY <1>1, PageTypes DEF Connected, SocketOK
  <2>2. QED
    BY <1>1, <2>1, HandledShape
<1>4. \A q \in Pages : Sole(q)' <=> Sole(q)
  BY SameHosts
<1> HIDE DEF t
<1>5. IsRefused(down'[p]) => IsRefused(d)
  BY <1>2, <1>3 DEF IsRefused
<1>6. ASSUME Sole(p)
      PROVE  Rising(k, up'[p], saved[code[p]], queue'[p])
  <2>1. CASE p \in restored
    <3>1. queue' = queue
      BY <2>1 DEF Restored
    <3>2. Rising(k, up[p], saved[code[p]], queue[p])
      BY <1>1, <1>6, <2>1 DEF KeptOK, Lasting
    <3>3. QED
      BY <1>1, <1>2, <3>1, <3>2, RisingAppend
  <2>2. CASE p \notin restored
    <3>1. queue[p] = {} /\ up[p] = <<>> /\ Head(d).queue = saved[code[p]]
      BY <1>1, <1>3, <1>6, <2>2 DEF KeptOK, Lasting
    <3>2. queue'[p] = saved[code[p]] \intersect Streamed
      BY <1>0, <2>2, <3>1 DEF HostTypes, Restored
    <3>3. saved[code[p]] \intersect k \subseteq queue'[p]
      BY <1>1, <1>6, <2>2, <3>2 DEF KeptOK, Lasting
    <3>4. Rising(k, up[p], saved[code[p]], queue'[p])
      BY <3>1, <3>3, RisingEmpty
    <3>5. QED
      BY <1>1, <1>2, <3>4, RisingAppend
  <2>3. QED
    BY <2>1, <2>2
<1>7. KeptOK(p)'
  <2>1. p \in restored'
    OBVIOUS
  <2>2. QED
    BY <1>1, <1>4, <1>5, <1>6, <2>1 DEF KeptOK, Lasting
<1>8. ASSUME NEW q \in Pages, q # p
      PROVE  KeptOK(q)'
  <2>1. KeptOK(q) /\ (Sole(q)' => Sole(q))
    BY <1>4 DEF KInv
  <2>2. drawn' \in Nat /\ drawn <= drawn'
    BY <1>0
  <2>3. QED
    BY <1>0, <1>2, <1>8, <2>1, <2>2, OthersKeptOK
<1>9. QED
  BY <1>7, <1>8 DEF KInv

LEMMA OnCloseKept ==
  ASSUME HostAssumption, HInv, HInv', KInv, NEW p \in Pages, OnClose(p)
  PROVE  KInv'
<1> USE DEF OnClose, Event, relayVars
<1> DEFINE by == Head(down[p]).by
           d == down[p]
<1>0. HostTypes /\ drawn \in Nat
  BY DEF HInv, HostTypes, Codes
<1>1. d # <<>> /\ Head(d).type = "closed" /\ d \in Seq(Events) /\ KeptOK(p) /\ p \notin creating
  BY EventHandled, PageTypes DEF KInv
<1>2. by \in Reasons /\ Head(d) = Closed(by) /\ 1 \in 1 .. Len(d) /\ Head(d) = d[1]
  <2>1. 1 \in 1 .. Len(d) /\ Head(d) = d[1] /\ Head(d) \in Events
    BY <1>1, TailAt
  <2>2. QED
    BY <1>1, <2>1, EventKinds
<1>3. by = "missing" => code[p] \notin alive
  BY <1>1, <1>2 DEF KeptOK, Lasting, IsRefused
<1>4. /\ down'[p] = <<>> /\ up'[p] = <<>>
      /\ status'[p] = IF by = "lost" \/ Swaps(p, by) THEN "connecting" ELSE by
      /\ p \in creating' => Swaps(p, by)
      /\ \A q \in Pages : q # p => /\ down'[q] = down[q] /\ up'[q] = up[q] /\ status'[q] = status[q]
                                   /\ q \in creating' => q \in creating
  BY <1>0, <1>1 DEF HostTypes
<1>5. \A q \in Pages : Sole(q)' <=> Sole(q)
  <2>1. status[p] # "away" /\ status'[p] # "away"
    BY <1>1, <1>2, <1>4, PageTypes, IsHere DEF Connected, Reasons
  <2>2. \A q \in Pages : code'[q] = code[q] /\ (status'[q] = "away" <=> status[q] = "away")
    BY <1>4, <2>1
  <2>3. QED
    BY <2>2, SameHosts
<1>6. KeptOK(p)'
  <2>1. p \in creating' \/ status'[p] = "missing" => by = "missing"
    BY <1>4 DEF Swaps
  <2>2. ~IsRefused(<<>>) /\ 1 .. Len(<<>>) = {}
    BY DEF IsRefused
  <2>3. Sole(p) /\ p \in restored => Rising(Lasting(code[p]), <<>>, saved[code[p]], queue[p])
    <3>1. Sole(p) /\ p \in restored => saved[code[p]] \intersect Lasting(code[p]) \subseteq queue[p]
      BY <1>1 DEF KeptOK, Lasting, Rising
    <3>2. QED
      BY <3>1, RisingEmpty
  <2>4. QED
    BY <1>1, <1>3, <1>4, <1>5, <2>1, <2>2, <2>3 DEF KeptOK, Lasting
<1>7. ASSUME NEW q \in Pages, q # p
      PROVE  KeptOK(q)'
  <2>1. KeptOK(q) /\ (Sole(q)' => Sole(q))
    BY <1>5 DEF KInv
  <2>2. drawn' \in Nat /\ drawn <= drawn'
    BY <1>0
  <2>3. QED
    BY <1>0, <1>4, <1>7, <2>1, <2>2, OthersKeptOK
<1>8. QED
  BY <1>6, <1>7 DEF KInv

LEMMA ReconnectKept ==
  ASSUME HostAssumption, HInv, HInv', KInv, NEW p \in Pages, Reconnect(p)
  PROVE  KInv'
<1> USE DEF Reconnect, Connect, relayVars
<1>0. HostTypes /\ drawn \in Nat
  BY DEF HInv, HostTypes, Codes
<1>1. status'[p] = "connecting" /\ \A q \in Pages : q # p => status'[q] = status[q]
  BY <1>0 DEF HostTypes
<1>2. \A q \in Pages : Sole(q)' <=> Sole(q)
  <2>1. status[p] # "away"
    BY IsHere
  <2>2. QED
    BY <1>1, <2>1, SameHosts
<1>3. KeptOK(p)'
  <2>1. KeptOK(p)
    BY DEF KInv
  <2>2. QED
    BY <1>1, <1>2, <2>1 DEF KeptOK, Lasting
<1>4. ASSUME NEW q \in Pages, q # p
      PROVE  KeptOK(q)'
  <2>1. KeptOK(q) /\ (Sole(q)' => Sole(q))
    BY <1>2 DEF KInv
  <2>2. drawn' \in Nat /\ drawn <= drawn'
    BY <1>0
  <2>3. QED
    BY <1>0, <1>1, <1>4, <2>1, <2>2, OthersKeptOK
<1>5. QED
  BY <1>3, <1>4 DEF KInv

LEMMA CreateFailedKept ==
  ASSUME HostAssumption, HInv, HInv', KInv, NEW p \in Pages, CreateFailed(p)
  PROVE  KInv'
<1> USE DEF CreateFailed, relayVars
<1>0. HostTypes /\ drawn \in Nat
  BY DEF HInv, HostTypes, Codes
<1>1. status'[p] = "missing" /\ \A q \in Pages : q # p => status'[q] = status[q]
  BY <1>0 DEF HostTypes
<1>2. \A q \in Pages : Sole(q)' <=> Sole(q)
  <2>1. status[p] # "away"
    BY IsHere
  <2>2. QED
    BY <1>1, <2>1, SameHosts
<1>3. KeptOK(p)'
  <2>1. KeptOK(p)
    BY DEF KInv
  <2>2. QED
    BY <1>1, <1>2, <2>1 DEF KeptOK, Lasting
<1>4. ASSUME NEW q \in Pages, q # p
      PROVE  KeptOK(q)'
  <2>1. KeptOK(q) /\ (Sole(q)' => Sole(q))
    BY <1>2 DEF KInv
  <2>2. drawn' \in Nat /\ drawn <= drawn'
    BY <1>0
  <2>3. QED
    BY <1>0, <1>1, <1>4, <2>1, <2>2, OthersKeptOK
<1>5. QED
  BY <1>3, <1>4 DEF KInv

LEMMA ReclaimKept ==
  ASSUME HostAssumption, HInv, HInv', KInv, NEW p \in Pages, Reclaim(p)
  PROVE  KInv'
<1> USE DEF Reclaim, Act, Connect, relayVars
<1>0. HostTypes /\ drawn \in Nat
  BY DEF HInv, HostTypes, Codes
<1>1. status'[p] = "connecting" /\ \A q \in Pages : q # p => status'[q] = status[q]
  BY <1>0 DEF HostTypes
<1>2. \A q \in Pages : Sole(q)' <=> Sole(q)
  BY <1>1, SameHosts
<1>3. KeptOK(p)'
  <2>1. KeptOK(p)
    BY DEF KInv
  <2>2. QED
    BY <1>1, <1>2, <2>1 DEF KeptOK, Lasting
<1>4. ASSUME NEW q \in Pages, q # p
      PROVE  KeptOK(q)'
  <2>1. KeptOK(q) /\ (Sole(q)' => Sole(q))
    BY <1>2 DEF KInv
  <2>2. drawn' \in Nat /\ drawn <= drawn'
    BY <1>0
  <2>3. QED
    BY <1>0, <1>1, <1>4, <2>1, <2>2, OthersKeptOK
<1>5. QED
  BY <1>3, <1>4 DEF KInv

LEMMA StartAnewKept ==
  ASSUME HostAssumption, HInv, HInv', KInv, NEW p \in Pages, StartAnew(p)
  PROVE  KInv'
<1> USE DEF StartAnew, Act, relayVars
<1>0. HostTypes /\ drawn \in Nat
  BY DEF HInv, HostTypes, Codes
<1>1. status'[p] = "connecting" /\ \A q \in Pages : q # p => status'[q] = status[q]
  BY <1>0 DEF HostTypes
<1>2. \A q \in Pages : Sole(q)' <=> Sole(q)
  BY <1>1, SameHosts
<1>3. KeptOK(p)'
  <2>1. KeptOK(p)
    BY DEF KInv
  <2>2. QED
    BY <1>1, <1>2, <2>1 DEF KeptOK, Lasting
<1>4. ASSUME NEW q \in Pages, q # p
      PROVE  KeptOK(q)'
  <2>1. KeptOK(q) /\ (Sole(q)' => Sole(q))
    BY <1>2 DEF KInv
  <2>2. drawn' \in Nat /\ drawn <= drawn'
    BY <1>0
  <2>3. QED
    BY <1>0, <1>1, <1>4, <2>1, <2>2, OthersKeptOK
<1>5. QED
  BY <1>3, <1>4 DEF KInv

LEMMA ChangeKept ==
  ASSUME HostAssumption, Busy = FALSE, HInv, HInv', KInv, NEW p \in Pages, NEW n \in Queues, Change(p, n)
  PROVE  KInv'
<1> USE DEF Change, Act, relayVars
<1>0. HostTypes /\ drawn \in Nat
  BY DEF HInv, HostTypes, Codes
<1>1. up[p] \in Seq(Queues) /\ p \in restored /\ KeptOK(p)
  BY PageTypes DEF KInv
<1>2. /\ queue'[p] = n /\ (up'[p] = Append(up[p], n) \/ up'[p] = up[p])
      /\ \A q \in Pages : q # p => queue'[q] = queue[q] /\ up'[q] = up[q]
  BY <1>0 DEF HostTypes, Sent
<1>3. \A q \in Pages : Sole(q)' <=> Sole(q)
  BY SameHosts
<1>4. ASSUME Sole(p) PROVE Rising(Lasting(code[p]), up'[p], saved[code[p]], n)
  <2>1. Rising(Lasting(code[p]), up[p], saved[code[p]], queue[p]) /\ queue[p] \subseteq n
    BY <1>1, <1>4 DEF KeptOK, Lasting
  <2>2. Rising(Lasting(code[p]), Append(up[p], n), saved[code[p]], n)
    BY <1>1, <2>1, RisingAppend
  <2>3. Rising(Lasting(code[p]), up[p], saved[code[p]], n)
    BY <2>1 DEF Rising
  <2>4. QED
    BY <1>2, <2>2, <2>3
<1>5. KeptOK(p)'
  BY <1>1, <1>2, <1>3, <1>4 DEF KeptOK, Lasting
<1>6. ASSUME NEW q \in Pages, q # p
      PROVE  KeptOK(q)'
  <2>1. KeptOK(q) /\ (Sole(q)' => Sole(q))
    BY <1>3 DEF KInv
  <2>2. drawn' \in Nat /\ drawn <= drawn'
    BY <1>0
  <2>3. QED
    BY <1>0, <1>2, <1>6, <2>1, <2>2, OthersKeptOK
<1>7. QED
  BY <1>5, <1>6 DEF KInv

\* A page that created a session is the only one there, and the relay has
\* nothing of it yet.
LEMMA CreatedKept ==
  ASSUME HostAssumption, HInv, HInv', KInv, NEW p \in Pages, Created(p)
  PROVE  KInv'
<1> USE DEF Created, Connect
<1> DEFINE n == drawn + 1
<1>0. HostTypes /\ drawn \in Nat /\ n \in Codes /\ drawn' = n /\ drawn' \in Nat
  BY DEF HInv, HostTypes, Codes, HostAssumption
<1>1. /\ status'[p] = "connecting" /\ code'[p] = n
      /\ \A q \in Pages : q # p => status'[q] = status[q] /\ code'[q] = code[q]
  BY <1>0 DEF HostTypes
<1>2. \A q \in Pages : code[q] \in Nat /\ code[q] <= drawn /\ code[q] # n
  <2>1. ASSUME NEW q \in Pages PROVE code[q] \in Nat /\ code[q] <= drawn
    BY PageTypes DEF KInv, KeptOK, Lasting, Codes
  <2>2. QED
    BY <1>0, <2>1
<1>3. saved[n] = {} /\ n \notin alive
  BY <1>0 DEF HostTypes
<1>4. KeptOK(p)'
  <2>1. ws[p] = "none" /\ down[p] = <<>> /\ up[p] = <<>>
    BY PageTypes DEF SocketOK
  <2>2. p \notin creating' /\ p \in restored' /\ code'[p] <= drawn'
    BY <1>0, <1>1
  <2>3. ~IsRefused(<<>>) /\ 1 .. Len(<<>>) = {}
    BY DEF IsRefused
  <2>4. Rising(Lasting(n), <<>>, saved[n], queue[p])
    BY <1>3, RisingEmpty
  <2>5. QED
    BY <1>1, <2>1, <2>2, <2>3, <2>4 DEF KeptOK, Lasting
<1>5. ASSUME NEW q \in Pages, q # p
      PROVE  KeptOK(q)'
  <2>1. KeptOK(q)
    BY DEF KInv
  <2>2. code[q] \in alive' => code[q] \in alive
    BY <1>2
  <2>3. Sole(q)' => Sole(q)
    <3>1. SUFFICES ASSUME Sole(q)' PROVE Sole(q)
      OBVIOUS
    <3>2. code[q] \in alive
      BY <1>1, <1>5, <2>2, <3>1 DEF Sole
    <3>3. \A r \in Pages : status'[r] # "away" /\ code'[r] = code[q] <=> r = q
      BY <1>1, <1>5, <3>1 DEF Sole, HostedBy
    <3>4. code[p] # code[q]
      <4>1. code[p] \notin alive
        BY DEF KInv, KeptOK, Lasting
      <4>2. QED
        BY <3>2, <4>1
    <3>5. \A r \in Pages : status[r] # "away" /\ code[r] = code[q] <=> r = q
      BY <1>1, <1>5, <3>3, <3>4
    <3>6. QED
      BY <3>2, <3>5 DEF Sole, HostedBy
  <2>4. drawn <= drawn'
    BY <1>0
  <2>5. q \in restored' <=> q \in restored
    BY <1>5
  <2>6. QED
    BY <1>0, <1>1, <1>5, <2>1, <2>2, <2>3, <2>4, <2>5, OthersKeptOK
<1>6. QED
  BY <1>4, <1>5 DEF KInv

\* A page that opens at a session, or is reloaded, has nothing of its own yet.
LEMMA OpenKept ==
  ASSUME HostAssumption, HInv, HInv', KInv, NEW p \in Pages, NEW c \in 1 .. drawn, Open(p, c)
  PROVE  KInv'
<1> USE DEF Open
<1>0. HostTypes /\ drawn \in Nat /\ c \in Nat /\ c <= drawn
  BY DEF HInv, HostTypes, Codes
<1>1. /\ status'[p] = (IF c \in alive THEN "connecting" ELSE "away") /\ code'[p] = c
      /\ down'[p] = <<>> /\ up'[p] = <<>> /\ queue'[p] = {} /\ p \notin restored' /\ p \notin creating'
      /\ \A q \in Pages : q # p => /\ status'[q] = status[q] /\ code'[q] = code[q] /\ queue'[q] = queue[q]
                                   /\ down'[q] = down[q] /\ up'[q] = up[q] /\ (q \in restored' <=> q \in restored)
  BY <1>0 DEF HostTypes
<1>2. KeptOK(p)'
  <2>1. ~IsRefused(<<>>) /\ 1 .. Len(<<>>) = {}
    BY DEF IsRefused
  <2>2. QED
    BY <1>0, <1>1, <2>1 DEF KeptOK, Lasting
<1>3. ASSUME NEW q \in Pages, q # p
      PROVE  KeptOK(q)'
  <2>1. KeptOK(q)
    BY DEF KInv
  <2>2. Sole(q)' => Sole(q)
    <3>1. SUFFICES ASSUME Sole(q)' PROVE Sole(q)
      OBVIOUS
    <3>2. code[q] \in alive
      BY <1>1, <1>3, <3>1 DEF Sole
    <3>3. \A r \in Pages : status'[r] # "away" /\ code'[r] = code[q] <=> r = q
      BY <1>1, <1>3, <3>1 DEF Sole, HostedBy
    <3>4. ~(status[p] # "away" /\ code[p] = code[q])
      <4>1. SUFFICES ASSUME status[p] # "away", code[p] = code[q] PROVE FALSE
        OBVIOUS
      <4>2. c = code[q] /\ status'[p] = "connecting"
        BY <1>1, <3>2, <4>1
      <4>3. QED
        BY <1>1, <1>3, <3>3, <4>2
    <3>5. \A r \in Pages : status[r] # "away" /\ code[r] = code[q] <=> r = q
      BY <1>1, <1>3, <3>3, <3>4
    <3>6. QED
      BY <3>2, <3>5 DEF Sole, HostedBy
  <2>3. Sole(q)' => code[q] # c
    <3>1. SUFFICES ASSUME Sole(q)', code[q] = c PROVE FALSE
      OBVIOUS
    <3>2. c \in alive /\ code'[q] = c
      BY <1>1, <1>3, <3>1 DEF Sole
    <3>3. status'[p] # "away" /\ code'[p] = code'[q]
      BY <1>1, <3>2
    <3>4. QED
      BY <1>3, <3>1, <3>3 DEF Sole, HostedBy
  <2>4. Sole(q)' => (code[q] \in reopened' <=> code[q] \in reopened) /\ saved'[code[q]] = saved[code[q]]
    BY <2>3
  <2>5. QED
    BY <1>0, <1>1, <1>3, <2>1, <2>2, <2>4, OthersKeptOK
<1>4. QED
  BY <1>2, <1>3 DEF KInv

LEMMA StutterKept ==
  ASSUME HInv, KInv, UNCHANGED vars
  PROVE  KInv'
<1>0. drawn \in Nat
  BY DEF HInv, HostTypes, Codes
<1>1. ASSUME NEW q \in Pages PROVE KeptOK(q)'
  <2>1. KeptOK(q)
    BY DEF KInv
  <2>2. Sole(q)' <=> Sole(q)
    BY SameHosts DEF vars, pageVars, relayVars
  <2>3. QED
    BY <1>0, <2>1, <2>2, OthersKeptOK DEF vars, pageVars, relayVars
<1>2. QED
  BY <1>1 DEF KInv

LEMMA NextKInv ==
  ASSUME HostAssumption, Busy = FALSE, HInv, HInv', KInv, [Next]_vars
  PROVE  KInv'
<1>1. CASE Restart
  BY <1>1, RestartKept
<1>2. ASSUME NEW p \in Pages, Goes(p) PROVE KInv'
  BY <1>2, AdmitKept, ReceiveKept, OnOpenKept, OnHelloKept, OnCloseKept, ReconnectKept, CreatedKept, CreateFailedKept DEF Goes
<1>3. ASSUME NEW p \in Pages, Lose(p) \/ Reclaim(p) \/ StartAnew(p) PROVE KInv'
  BY <1>3, LoseKept, ReclaimKept, StartAnewKept
<1>4. ASSUME NEW p \in Pages, NEW n \in Queues, Change(p, n) PROVE KInv'
  BY <1>4, ChangeKept
<1>5. ASSUME NEW p \in Pages, NEW c \in 1 .. drawn, Open(p, c) PROVE KInv'
  BY <1>5, OpenKept
<1>6. CASE UNCHANGED vars
  BY <1>6, StutterKept
<1>7. QED
  BY <1>1, <1>2, <1>3, <1>4, <1>5, <1>6 DEF Next

\* The relay's copy of the queue of a session with one page open at it loses
\* nothing that lasts in a step.
LEMMA StepKeepsQueue ==
  ASSUME HostAssumption, HInv, HInv', KInv, [Next]_vars
  PROVE  \A c \in alive \intersect alive' : Cardinality(HostedBy(c)) = 1 => saved[c] \intersect Lasting(c) \subseteq saved'[c]
<1>1. CASE alive' = {}
  BY <1>1
<1>2. CASE saved' = saved
  BY <1>2
<1>3. ASSUME NEW p \in Pages, Receive(p), NEW c \in alive \intersect alive', Cardinality(HostedBy(c)) = 1
      PROVE  saved[c] \intersect Lasting(c) \subseteq saved'[c]
  <2>0. saved \in [Codes -> Queues] /\ c \in Codes
    BY DEF HInv, HostTypes, Codes, HostAssumption
  <2>1. CASE c = code[p]
    <3>1. IsFiniteSet(HostedBy(c))
      <4>1. HostedBy(c) \subseteq Pages /\ IsFiniteSet(Pages)
        BY DEF HostedBy, HostAssumption
      <4>2. QED
        BY <4>1, FS_Subset
    <3>2. PICK x : HostedBy(c) = {x}
      BY <1>3, <3>1, FS_Singleton
    <3>3. status[p] # "away"
      BY <1>3, PageTypes, IsHere DEF Receive, SocketOK
    <3>4. p \in HostedBy(c)
      BY <2>1, <3>3 DEF HostedBy
    <3>5. Sole(p)
      BY <2>1, <3>2, <3>4 DEF Sole
    <3>6. QED
      BY <1>3, <2>1, <3>5, ReceiveKept
  <2>2. CASE c # code[p]
    <3>1. saved'[c] = saved[c]
      BY <1>3, <2>0, <2>2 DEF Receive
    <3>2. QED
      BY <3>1
  <2>3. QED
    BY <2>1, <2>2
<1>4. alive' = {} \/ saved' = saved \/ \E p \in Pages : Receive(p)
  <2>1. ASSUME NEW p \in Pages, Goes(p) PROVE saved' = saved \/ Receive(p)
    BY <2>1 DEF Goes, Admit, OnOpen, OnHello, OnClose, Reconnect, Created, CreateFailed, Event, relayVars
  <2>2. ASSUME NEW p \in Pages, Lose(p) \/ Reclaim(p) \/ StartAnew(p) PROVE saved' = saved
    BY <2>2 DEF Lose, Reclaim, StartAnew, Act, relayVars
  <2>3. ASSUME NEW p \in Pages, NEW n \in Queues, Change(p, n) PROVE saved' = saved
    BY <2>3 DEF Change, Act, relayVars
  <2>4. ASSUME NEW p \in Pages, NEW c \in 1 .. drawn, Open(p, c) PROVE saved' = saved
    BY <2>4 DEF Open
  <2>5. Restart => alive' = {}
    BY DEF Restart
  <2>6. UNCHANGED vars => saved' = saved
    BY DEF vars, relayVars
  <2>7. QED
    BY <2>1, <2>2, <2>3, <2>4, <2>5, <2>6 DEF Next
<1>5. QED
  BY <1>1, <1>2, <1>3, <1>4

\* A session hosted by one page never loses a queued song, however often it is
\* cut off, but for the uploads and bundles when it is reloaded or opened anew
\* (restore() has no track to add them by); as long as no page's queue changes
\* before the first hello it handles.
THEOREM QueueIsKept ==
  ASSUME Busy = FALSE
  PROVE  Spec => QueueKept
<1>1. Init => KInv
  BY InitKInv, HostAssumption
<1>2. HInv /\ HInv' /\ KInv /\ [Next]_vars => KInv'
  BY NextKInv, HostAssumption
<1>3. HInv /\ HInv' /\ KInv /\ [Next]_vars =>
        [\A c \in alive \intersect alive' : Cardinality(HostedBy(c)) = 1 => saved[c] \intersect Lasting(c) \subseteq saved'[c]]_vars
  BY StepKeepsQueue, HostAssumption
<1>4. QED
  BY <1>1, <1>2, <1>3, HostInvariant, PTL DEF Spec, QueueKept

(***************************************************************************)
(* RemoteControl: v1 status, v2 hostHere, v3 seen, v4 draft, v5 freed,     *)
(* v6 late, v7 paced, v8 held, v9 asked, v10 timer, v11 found, v12 wanted, *)
(* v13 shownFor, v14 up, v15 down, v16 online, v17 hostVal, v18 hasSong,   *)
(* v19 working, v20 moved.                                                 *)
(***************************************************************************)
HostVals   == [Sliders -> SliderValues \union {0}]
Drafts     == [Sliders -> SliderValues \union {9}]
DragMsgs   == [kind : {"drag"}, slider : Sliders, val : SliderValues]
SearchMsgs == [kind : {"search"}, of : 1..MaxRemoteSearches]
Hellos     == [kind : {"hello"}, host : BOOLEAN, song : BOOLEAN, val : HostVals]
States     == [kind : {"state"}, song : BOOLEAN, val : HostVals]
Presences  == [kind : {"host"}, here : BOOLEAN]
Replies    == [kind : {"reply"}, of : 1..MaxRemoteSearches, is : {"results", "no-results", "error"}]
UpMsgs     == DragMsgs \union SearchMsgs
DownMsgs   == Hellos \union States \union Presences \union Replies

\* The messages that say of something how it is, and those that say it is so.
DragsOf(s)       == {m \in DragMsgs : m.slider = s}
DragsTo(s, v)    == {m \in DragMsgs : m.slider = s /\ m.val = v}
Tellings         == Hellos \union States
Telling(song, v) == {m \in Tellings : m.song = song /\ m.val = v}
Greetings        == Hellos \union Presences
Greeting(here)   == {m \in Hellos : m.host = here} \union {m \in Presences : m.here = here}
\* Those that drop a slider's draft, whoever has a finger on it.
Drops(s) == Greeting(FALSE) \union {m \in Tellings : s = "track" /\ m.song = FALSE}
\* Searches, and answers to searches, after the w-th.
SearchesPast(w) == {m \in SearchMsgs : ~(m.of <= w)}
RepliesPast(w)  == {m \in Replies : ~(m.of <= w)}

\* No message of q is in M; the last of M in q is in N.
NoneIn(q, M)    == \A i \in DOMAIN q : q[i] \notin M
LastIn(q, M, N) == \E i \in DOMAIN q : q[i] \in N /\ \A j \in DOMAIN q : q[j] \in M => j <= i

\* A drag of s to v is pending, or the last that is on its way, or has arrived.
LandsAt(s, v) ==
  \/ v6[s] = v /\ s \in v7
  \/ v6[s] = 9 /\ (LastIn(v14, DragsOf(s), DragsTo(s, v)) \/ (NoneIn(v14, DragsOf(s)) /\ v17[s] = v))
\* The host would take a drag of s now.
Hears(s) == v16 = TRUE /\ (s = "track" => v18 = TRUE)

RemKinds ==
  /\ v1 \in {"connecting", "open", "left"} /\ v2 \in BOOLEAN /\ v16 \in BOOLEAN /\ v18 \in BOOLEAN
  /\ v3 \in [song : BOOLEAN, val : HostVals] /\ v17 \in HostVals
  /\ v4 \in Drafts /\ v6 \in Drafts /\ v20 \in Drafts
  /\ v5 \subseteq Sliders /\ v7 \subseteq Sliders /\ v8 \subseteq Sliders
  /\ v9 \in 0..MaxRemoteSearches /\ v10 \in 0..MaxRemoteSearches /\ v12 \in 0..MaxRemoteSearches
  /\ v13 \in 0..MaxRemoteSearches /\ v19 \subseteq 1..MaxRemoteSearches
  /\ v11 \in {"idle", "searching", "results", "no-results", "error"}
  /\ v14 \in Seq(UpMsgs) /\ v15 \in Seq(DownMsgs)

\* Nothing is on its way but over an open connection, and no draft outlives one.
WireInv ==
  /\ v1 # "open" => v14 = <<>> /\ v15 = <<>>
  /\ v1 = "connecting" => \A s \in Sliders : v4[s] = 9 /\ v20[s] = 9
  /\ \A s \in Sliders : v6[s] # 9 => s \in v7

\* What is searched for and answered was asked for, by the last search that was sent at most.
AskedInv ==
  /\ v12 <= v9 /\ \A id \in v19 : id <= v12
  /\ Cardinality(v19) <= MaxHostSearches
  /\ NoneIn(v14, SearchesPast(v12)) /\ NoneIn(v15, RepliesPast(v12))
  /\ v1 # "left" /\ v11 = "searching" => v10 = v9
  /\ v11 \in {"results", "no-results"} => v13 = v12

\* Once the remote has read all, it has seen the host's state, and knows whether the host is there.
KnownInv ==
  v1 = "open" =>
    /\ LastIn(v15, Tellings, Telling(v18, v17)) \/ (NoneIn(v15, Tellings) /\ v3 = [song |-> v18, val |-> v17])
    /\ LastIn(v15, Greetings, Greeting(v16)) \/ (NoneIn(v15, Greetings) /\ v2 = v16)

\* A draft is under a finger or let go; it lands, unless what drops it is on its way.
DraftInv ==
  v1 = "open" =>
    \A s \in Sliders : v4[s] # 9 =>
      /\ v2 = TRUE /\ s \in v8 \union v5
      /\ (Hears(s) /\ LandsAt(s, v4[s])) \/ ~NoneIn(v15, Drops(s))

MovedInv == v1 = "open" => \A s \in Sliders : v20[s] # 9 => v2 = TRUE /\ Hears(s) /\ LandsAt(s, v20[s])

RemInv == RemKinds /\ WireInv /\ AskedInv /\ KnownInv /\ DraftInv /\ MovedInv

\* What M and N say of a message added, of one read, and of several added.
Appended(q, m, M, N) ==
  /\ m \in N => LastIn(Append(q, m), M, N)
  /\ m \notin M /\ LastIn(q, M, N) => LastIn(Append(q, m), M, N)
  /\ m \notin M /\ NoneIn(q, M) => NoneIn(Append(q, m), M)
  /\ NoneIn(Append(q, m), M) => NoneIn(q, M) /\ m \notin M
Read(q, M, N) ==
  /\ NoneIn(q, M) => NoneIn(Tail(q), M) /\ Head(q) \notin M
  /\ LastIn(q, M, N) => LastIn(Tail(q), M, N) \/ (NoneIn(Tail(q), M) /\ Head(q) \in N)
  /\ Head(q) \notin M /\ NoneIn(Tail(q), M) => NoneIn(q, M)
Joined(q, r, M, N) ==
  /\ LastIn(r, M, N) => LastIn(q \o r, M, N)
  /\ NoneIn(r, M) /\ LastIn(q, M, N) => LastIn(q \o r, M, N)
  /\ NoneIn(r, M) /\ NoneIn(q, M) => NoneIn(q \o r, M)

LEMMA EmptyEnds ==
  ASSUME NEW M, NEW N
  PROVE  NoneIn(<<>>, M) /\ ~LastIn(<<>>, M, N)
BY DEF NoneIn, LastIn

LEMMA AppendEnds ==
  ASSUME NEW T, NEW q \in Seq(T), NEW m \in T, NEW M, NEW N, N \subseteq M
  PROVE  Appended(q, m, M, N)
<1> DEFINE a == Append(q, m)
<1>1. /\ Len(q) \in Nat /\ DOMAIN q = 1..Len(q)
      /\ DOMAIN a = 1..(Len(q) + 1) /\ Len(q) + 1 \in DOMAIN a
      /\ \A i \in DOMAIN q : i \in DOMAIN a /\ a[i] = q[i] /\ i <= Len(q) + 1
      /\ \A i \in DOMAIN a : i \in DOMAIN q \/ i = Len(q) + 1
      /\ a[Len(q) + 1] = m
  BY AppendProperties, LenProperties
<1>2. \A i \in DOMAIN a : i <= Len(q) + 1
  BY <1>1
<1> HIDE DEF a
<1>3. m \in N => LastIn(a, M, N)
  BY <1>1, <1>2 DEF LastIn
<1>4. m \notin M /\ LastIn(q, M, N) => LastIn(a, M, N)
  <2> SUFFICES ASSUME m \notin M, LastIn(q, M, N) PROVE LastIn(a, M, N)
    OBVIOUS
  <2>1. PICK i \in DOMAIN q : q[i] \in N /\ \A j \in DOMAIN q : q[j] \in M => j <= i
    BY DEF LastIn
  <2>2. i \in DOMAIN a /\ a[i] \in N
    BY <2>1, <1>1
  <2>3. \A j \in DOMAIN a : a[j] \in M => j <= i
    BY <2>1, <1>1
  <2> QED
    BY <2>2, <2>3 DEF LastIn
<1>5. m \notin M /\ NoneIn(q, M) => NoneIn(a, M)
  BY <1>1 DEF NoneIn
<1>6. NoneIn(a, M) => NoneIn(q, M) /\ m \notin M
  BY <1>1 DEF NoneIn
<1> QED
  BY <1>3, <1>4, <1>5, <1>6 DEF Appended, a

LEMMA ReadEnds ==
  ASSUME NEW T, NEW q \in Seq(T), q # <<>>, NEW M, NEW N, N \subseteq M
  PROVE  Read(q, M, N)
<1> DEFINE t == Tail(q)
<1>1. /\ Len(q) \in Nat /\ DOMAIN q = 1..Len(q) /\ 1 \in DOMAIN q /\ Head(q) = q[1]
      /\ DOMAIN t = 1..(Len(q) - 1)
      /\ \A i \in 1..(Len(q) - 1) : t[i] = q[i + 1]
  BY HeadTailProperties, LenProperties, EmptySeq
<1>2. \A i \in DOMAIN t : i \in Nat /\ i + 1 \in DOMAIN q /\ t[i] = q[i + 1]
  BY <1>1
<1>3. \A i \in DOMAIN q : i # 1 => i \in Nat /\ i - 1 \in DOMAIN t /\ t[i - 1] = q[i]
  <2> TAKE i \in DOMAIN q
  <2> SUFFICES ASSUME i # 1 PROVE i \in Nat /\ i - 1 \in DOMAIN t /\ t[i - 1] = q[i]
    OBVIOUS
  <2>1. i \in Nat /\ i - 1 \in 1..(Len(q) - 1) /\ (i - 1) + 1 = i
    BY <1>1
  <2> QED
    BY <2>1, <1>1
<1> HIDE DEF t
<1>4. NoneIn(q, M) => NoneIn(t, M) /\ Head(q) \notin M
  BY <1>1, <1>2 DEF NoneIn
<1>5. Head(q) \notin M /\ NoneIn(t, M) => NoneIn(q, M)
  BY <1>1, <1>3 DEF NoneIn
<1>6. LastIn(q, M, N) => LastIn(t, M, N) \/ (NoneIn(t, M) /\ Head(q) \in N)
  <2> SUFFICES ASSUME LastIn(q, M, N) PROVE LastIn(t, M, N) \/ (NoneIn(t, M) /\ Head(q) \in N)
    OBVIOUS
  <2>1. PICK i \in DOMAIN q : q[i] \in N /\ \A j \in DOMAIN q : q[j] \in M => j <= i
    BY DEF LastIn
  <2>2. CASE i = 1
    <3>1. \A j \in DOMAIN t : t[j] \notin M
      <4> TAKE j \in DOMAIN t
      <4>1. j \in Nat /\ j + 1 \in DOMAIN q /\ t[j] = q[j + 1] /\ ~(j + 1 <= 1)
        BY <1>1, <1>2
      <4> QED
        BY <4>1, <2>1, <2>2
    <3> QED
      BY <3>1, <2>1, <2>2, <1>1 DEF NoneIn
  <2>3. CASE i # 1
    <3>1. i \in Nat /\ i - 1 \in DOMAIN t /\ t[i - 1] \in N
      BY <2>1, <2>3, <1>3
    <3>2. \A j \in DOMAIN t : t[j] \in M => j <= i - 1
      <4> TAKE j \in DOMAIN t
      <4>1. j \in Nat /\ j + 1 \in DOMAIN q /\ t[j] = q[j + 1]
        BY <1>2
      <4>2. t[j] \in M => j + 1 <= i
        BY <4>1, <2>1
      <4> QED
        BY <4>1, <4>2, <3>1
    <3> QED
      BY <3>1, <3>2 DEF LastIn
  <2> QED
    BY <2>2, <2>3
<1> QED
  BY <1>4, <1>5, <1>6 DEF Read, t

LEMMA JoinEnds ==
  ASSUME NEW T, NEW q \in Seq(T), NEW r \in Seq(T), NEW M, NEW N, N \subseteq M
  PROVE  Joined(q, r, M, N)
<1> DEFINE c == q \o r
<1>1. /\ Len(q) \in Nat /\ DOMAIN q = 1..Len(q) /\ Len(r) \in Nat /\ DOMAIN r = 1..Len(r)
      /\ c \in Seq(T) /\ Len(c) = Len(q) + Len(r)
      /\ \A i \in 1..(Len(q) + Len(r)) : c[i] = IF i <= Len(q) THEN q[i] ELSE r[i - Len(q)]
  BY ConcatProperties, LenProperties
<1>2. DOMAIN c = 1..(Len(q) + Len(r))
  <2> HIDE DEF c
  <2> QED
    BY <1>1, LenProperties
<1> HIDE DEF c
<1>3. \A i \in DOMAIN q : i \in DOMAIN c /\ c[i] = q[i]
  BY <1>1, <1>2
<1>4. \A i \in DOMAIN r : i \in Nat /\ Len(q) + i \in DOMAIN c /\ c[Len(q) + i] = r[i]
  <2> TAKE i \in DOMAIN r
  <2>1. i \in Nat /\ Len(q) + i \in 1..(Len(q) + Len(r)) /\ ~(Len(q) + i <= Len(q)) /\ (Len(q) + i) - Len(q) = i
    BY <1>1
  <2> QED
    BY <2>1, <1>1, <1>2
<1>5. \A i \in DOMAIN c : i \in DOMAIN q \/ \E k \in DOMAIN r : i = Len(q) + k
  <2> TAKE i \in DOMAIN c
  <2>1. ~(i <= Len(q)) => i - Len(q) \in 1..Len(r) /\ i = Len(q) + (i - Len(q))
    BY <1>1, <1>2
  <2>2. i <= Len(q) => i \in 1..Len(q)
    BY <1>1, <1>2
  <2> QED
    BY <2>1, <2>2, <1>1
<1>6. LastIn(r, M, N) => LastIn(c, M, N)
  <2> SUFFICES ASSUME LastIn(r, M, N) PROVE LastIn(c, M, N)
    OBVIOUS
  <2>1. PICK i \in DOMAIN r : r[i] \in N /\ \A j \in DOMAIN r : r[j] \in M => j <= i
    BY DEF LastIn
  <2>2. Len(q) + i \in DOMAIN c /\ c[Len(q) + i] \in N
    BY <2>1, <1>4
  <2>3. \A j \in DOMAIN c : c[j] \in M => j <= Len(q) + i
    <3> TAKE j \in DOMAIN c
    <3>1. CASE j \in DOMAIN q
      BY <3>1, <1>1
    <3>2. ASSUME NEW k \in DOMAIN r, j = Len(q) + k PROVE c[j] \in M => j <= Len(q) + i
      <4>1. c[j] = r[k] /\ k \in Nat /\ i \in Nat
        BY <3>2, <1>1, <1>4
      <4>2. c[j] \in M => k <= i
        BY <4>1, <2>1
      <4> QED
        BY <4>1, <4>2, <3>2, <1>1
    <3> QED
      BY <3>1, <3>2, <1>5
  <2> QED
    BY <2>2, <2>3 DEF LastIn
<1>7. NoneIn(r, M) /\ LastIn(q, M, N) => LastIn(c, M, N)
  <2> SUFFICES ASSUME NoneIn(r, M), LastIn(q, M, N) PROVE LastIn(c, M, N)
    OBVIOUS
  <2>1. PICK i \in DOMAIN q : q[i] \in N /\ \A j \in DOMAIN q : q[j] \in M => j <= i
    BY DEF LastIn
  <2>2. i \in DOMAIN c /\ c[i] \in N
    BY <2>1, <1>3
  <2>3. \A j \in DOMAIN c : c[j] \in M => j <= i
    <3> TAKE j \in DOMAIN c
    <3>1. CASE j \in DOMAIN q
      BY <3>1, <2>1, <1>3
    <3>2. ASSUME NEW k \in DOMAIN r, j = Len(q) + k PROVE c[j] \notin M
      BY <3>2, <1>4 DEF NoneIn
    <3> QED
      BY <3>1, <3>2, <1>5
  <2> QED
    BY <2>2, <2>3 DEF LastIn
<1>8. NoneIn(r, M) /\ NoneIn(q, M) => NoneIn(c, M)
  BY <1>3, <1>4, <1>5 DEF NoneIn
<1> QED
  BY <1>6, <1>7, <1>8 DEF Joined, c

LEMMA JoinTwo ==
  ASSUME NEW T, NEW q \in Seq(T), NEW a \in T, NEW b \in T
  PROVE  q \o <<a, b>> = Append(Append(q, a), b)
OBVIOUS

LEMMA RemBounds ==
  /\ Sliders \subseteq {"seek", "volume", "track"} /\ 9 \notin SliderValues
  /\ MaxRemoteSearches \in Nat /\ MaxHostSearches \in Nat /\ Remote!None = 9 /\ Remote!Nowhere = [s \in Sliders |-> 9]
BY RemoteAssumption DEF Remote!None, Remote!Nowhere

LEMMA MsgKinds ==
  /\ \A m \in UpMsgs : /\ m.kind = "drag" => m \in DragMsgs
                       /\ m.kind = "search" => m \in SearchMsgs
                       /\ m.kind \in {"drag", "search"}
  /\ \A m \in DownMsgs : /\ m.kind = "hello" => m \in Hellos /\ m \notin Presences /\ m \notin Replies
                         /\ m.kind = "state" => m \in States /\ m \notin Hellos /\ m \notin Presences /\ m \notin Replies
                         /\ m.kind = "host" => m \in Presences /\ m \notin Hellos /\ m \notin States /\ m \notin Replies
                         /\ m.kind = "reply" => m \in Replies /\ m \notin Hellos /\ m \notin States /\ m \notin Presences
                         /\ m.kind \in {"hello", "state", "host", "reply"}
BY DEF UpMsgs, DownMsgs, DragMsgs, SearchMsgs, Hellos, States, Presences, Replies

LEMMA MsgSets ==
  /\ \A s, v : DragsTo(s, v) \subseteq DragsOf(s)
  /\ \A s : DragsOf(s) \subseteq DragMsgs
  /\ \A x, y : Telling(x, y) \subseteq Tellings
  /\ \A x : Greeting(x) \subseteq Greetings
BY DEF DragsTo, DragsOf, Telling, Tellings, Greeting, Greetings

LEMMA DragMade ==
  ASSUME NEW s \in Sliders, NEW v \in SliderValues
  PROVE  /\ Remote!DragTo(s, v) \in DragMsgs /\ Remote!DragTo(s, v) \in UpMsgs
         /\ Remote!DragTo(s, v) \in DragsTo(s, v)
         /\ \A t : t # s => Remote!DragTo(s, v) \notin DragsOf(t)
         /\ \A w : Remote!DragTo(s, v) \notin SearchesPast(w)
BY DEF Remote!DragTo, DragMsgs, UpMsgs, DragsTo, DragsOf, SearchesPast, SearchMsgs

\* A message added to a direction: what it says of each kind, and what the rest does.
LEMMA DownAppended ==
  ASSUME NEW q \in Seq(DownMsgs), NEW m \in DownMsgs
  PROVE  /\ Append(q, m) \in Seq(DownMsgs)
         /\ \A x, y : Appended(q, m, Tellings, Telling(x, y))
         /\ \A x : Appended(q, m, Greetings, Greeting(x))
         /\ \A s : Appended(q, m, Drops(s), Drops(s))
         /\ \A w : Appended(q, m, RepliesPast(w), RepliesPast(w))
<1>1. Append(q, m) \in Seq(DownMsgs)
  BY AppendProperties
<1>2. ASSUME NEW x, NEW y PROVE Appended(q, m, Tellings, Telling(x, y))
  BY MsgSets, AppendEnds
<1>3. ASSUME NEW x PROVE Appended(q, m, Greetings, Greeting(x))
  BY MsgSets, AppendEnds
<1>4. ASSUME NEW s PROVE Appended(q, m, Drops(s), Drops(s))
  BY AppendEnds
<1>5. ASSUME NEW w PROVE Appended(q, m, RepliesPast(w), RepliesPast(w))
  BY AppendEnds
<1> QED
  BY <1>1, <1>2, <1>3, <1>4, <1>5

LEMMA UpAppended ==
  ASSUME NEW q \in Seq(UpMsgs), NEW m \in UpMsgs
  PROVE  /\ Append(q, m) \in Seq(UpMsgs)
         /\ \A s, v : Appended(q, m, DragsOf(s), DragsTo(s, v))
         /\ \A w : Appended(q, m, SearchesPast(w), SearchesPast(w))
<1>1. Append(q, m) \in Seq(UpMsgs)
  BY AppendProperties
<1>2. ASSUME NEW s, NEW v PROVE Appended(q, m, DragsOf(s), DragsTo(s, v))
  BY MsgSets, AppendEnds
<1>5. ASSUME NEW w PROVE Appended(q, m, SearchesPast(w), SearchesPast(w))
  BY AppendEnds
<1> QED
  BY <1>1, <1>2, <1>5

LEMMA DownRead ==
  ASSUME NEW q \in Seq(DownMsgs), q # <<>>
  PROVE  /\ Tail(q) \in Seq(DownMsgs) /\ Head(q) \in DownMsgs
         /\ \A x, y : Read(q, Tellings, Telling(x, y))
         /\ \A x : Read(q, Greetings, Greeting(x))
         /\ \A s : Read(q, Drops(s), Drops(s))
         /\ \A w : Read(q, RepliesPast(w), RepliesPast(w))
<1>1. Tail(q) \in Seq(DownMsgs) /\ Head(q) \in DownMsgs
  BY HeadTailProperties
<1>2. ASSUME NEW x, NEW y PROVE Read(q, Tellings, Telling(x, y))
  BY MsgSets, ReadEnds
<1>3. ASSUME NEW x PROVE Read(q, Greetings, Greeting(x))
  BY MsgSets, ReadEnds
<1>4. ASSUME NEW s PROVE Read(q, Drops(s), Drops(s))
  BY ReadEnds
<1>5. ASSUME NEW w PROVE Read(q, RepliesPast(w), RepliesPast(w))
  BY ReadEnds
<1> QED
  BY <1>1, <1>2, <1>3, <1>4, <1>5

LEMMA UpRead ==
  ASSUME NEW q \in Seq(UpMsgs), q # <<>>
  PROVE  /\ Tail(q) \in Seq(UpMsgs) /\ Head(q) \in UpMsgs
         /\ \A s, v : Read(q, DragsOf(s), DragsTo(s, v))
         /\ \A w : Read(q, SearchesPast(w), SearchesPast(w))
<1>1. Tail(q) \in Seq(UpMsgs) /\ Head(q) \in UpMsgs
  BY HeadTailProperties
<1>2. ASSUME NEW s, NEW v PROVE Read(q, DragsOf(s), DragsTo(s, v))
  BY MsgSets, ReadEnds
<1>5. ASSUME NEW w PROVE Read(q, SearchesPast(w), SearchesPast(w))
  BY ReadEnds
<1> QED
  BY <1>1, <1>2, <1>5

LEMMA SlidersFinite ==
  ASSUME NEW due, due \subseteq Sliders
  PROVE  IsFiniteSet(due) /\ Cardinality(due) \in Nat
<1>1. IsFiniteSet({"seek"})
  <2>1. IsFiniteSet({} \union {"seek"})
    BY FS_EmptySet, FS_AddElement, Zenon
  <2> QED
    BY <2>1
<1>2. IsFiniteSet({"seek"} \union {"volume"})
  BY <1>1, FS_AddElement, Zenon
<1>3. IsFiniteSet(({"seek"} \union {"volume"}) \union {"track"})
  BY <1>2, FS_AddElement, Zenon
<1>4. due \in SUBSET (({"seek"} \union {"volume"}) \union {"track"})
  BY RemBounds
<1>5. IsFiniteSet(due)
  BY <1>3, <1>4, FS_Subset, Zenon
<1> QED
  BY <1>5, FS_CardinalityType

\* What is pending of several sliders, sent one after the other.
LEMMA FlushedSent ==
  ASSUME NEW due, due \subseteq Sliders, NEW late \in Drafts, \A s \in due : late[s] # 9,
         NEW list, list \in Remote!SetToSeqs(due),
         NEW sent, sent = [i \in DOMAIN list |-> Remote!DragTo(list[i], late[list[i]])]
  PROVE  /\ sent \in Seq(UpMsgs)
         /\ \A s \in due : LastIn(sent, DragsOf(s), DragsTo(s, late[s]))
         /\ \A s : s \notin due => NoneIn(sent, DragsOf(s))
         /\ \A w : NoneIn(sent, SearchesPast(w))
<1> DEFINE n == Cardinality(due)
<1>1. IsFiniteSet(due) /\ n \in Nat
  BY SlidersFinite
<1>2. list \in [1..n -> due] /\ \A i, j \in 1..n : i # j => list[i] # list[j]
  BY DEF Remote!SetToSeqs, Remote!Cardinality, Cardinality
<1>3. \A s \in due : \E i \in 1..n : list[i] = s
  <2>1. list \in Injection(1..n, due)
    BY <1>2 DEF Injection, IsInjective
  <2>2. Cardinality(1..n) = n
    BY <1>1, FS_Interval
  <2>3. list \in Surjection(1..n, due)
    BY <1>1, <2>1, <2>2, FS_Injection, Zenon
  <2> QED
    BY <2>3 DEF Surjection
<1> HIDE DEF n
<1>4. DOMAIN list = 1..n /\ DOMAIN sent = 1..n
  BY <1>2
<1>5. \A i \in 1..n : list[i] \in due /\ sent[i] = Remote!DragTo(list[i], late[list[i]])
  BY <1>2, <1>4
<1>6. \A s \in due : late[s] \in SliderValues /\ s \in Sliders
  BY DEF Drafts
<1>7. \A i \in 1..n : /\ sent[i] \in UpMsgs
                      /\ sent[i] \in DragsTo(list[i], late[list[i]])
                      /\ \A t : t # list[i] => sent[i] \notin DragsOf(t)
                      /\ \A w : sent[i] \notin SearchesPast(w)
  <2> TAKE i \in 1..n
  <2>1. PICK s \in Sliders : s = list[i] /\ late[s] \in SliderValues
    BY <1>5, <1>6
  <2>2. PICK v \in SliderValues : v = late[s]
    BY <2>1
  <2>3. sent[i] = Remote!DragTo(s, v)
    BY <1>5, <2>1, <2>2
  <2> QED
    BY <2>1, <2>2, <2>3, DragMade
<1>8. sent \in Seq(UpMsgs)
  <2>1. sent \in [1..n -> UpMsgs]
    BY <1>4, <1>7
  <2> QED
    BY <2>1, <1>1, SeqDef DEF n
<1>9. ASSUME NEW s \in due PROVE LastIn(sent, DragsOf(s), DragsTo(s, late[s]))
  <2>1. PICK i \in 1..n : list[i] = s
    BY <1>3
  <2>2. \A j \in DOMAIN sent : sent[j] \in DragsOf(s) => j = i
    BY <2>1, <1>2, <1>4, <1>7
  <2>3. \A j \in DOMAIN sent : sent[j] \in DragsOf(s) => j <= i
    BY <2>2, <1>1
  <2> QED
    BY <2>1, <2>3, <1>4, <1>7 DEF LastIn
<1>10. ASSUME NEW s, s \notin due PROVE NoneIn(sent, DragsOf(s))
  BY <1>10, <1>4, <1>5, <1>7 DEF NoneIn
<1>11. ASSUME NEW w PROVE NoneIn(sent, SearchesPast(w))
  BY <1>4, <1>7 DEF NoneIn
<1> QED
  BY <1>8, <1>9, <1>10, <1>11

\* A drag that is sent, or waits for the timer of one before, lands.
LEMMA PushLands ==
  ASSUME RemKinds, WireInv, v1 = "open", v2 = TRUE,
         NEW s \in Sliders, NEW v \in SliderValues, Remote!Push(s, v), v17' = v17
  PROVE  /\ v6' \in Drafts /\ v7' \subseteq Sliders /\ v14' \in Seq(UpMsgs)
         /\ \A t \in Sliders : v6'[t] # 9 => t \in v7'
         /\ LandsAt(s, v)'
         /\ \A t \in Sliders, w \in SliderValues : t # s /\ LandsAt(t, w) => LandsAt(t, w)'
         /\ \A w : NoneIn(v14, SearchesPast(w)) => NoneIn(v14', SearchesPast(w))
<1>1. v6 \in Drafts /\ v14 \in Seq(UpMsgs) /\ v7 \subseteq Sliders /\ (\A t \in Sliders : v6[t] # 9 => t \in v7) /\ v # 9
  BY RemBounds DEF RemKinds, WireInv
<1>2. CASE s \in v7
  <2>1. v6' = [v6 EXCEPT ![s] = v] /\ v7' = v7 /\ v14' = v14
    BY <1>2 DEF Remote!Push
  <2>2. v6' \in Drafts /\ v6'[s] = v /\ \A t \in Sliders : t # s => v6'[t] = v6[t]
    BY <1>1, <2>1 DEF Drafts
  <2> QED
    BY <1>1, <1>2, <2>1, <2>2 DEF LandsAt
<1>3. CASE s \notin v7
  <2> DEFINE m == Remote!DragTo(s, v)
  <2>1. v6' = v6 /\ v7' = v7 \union {s} /\ v14' = Append(v14, m)
    BY <1>3 DEF Remote!Push, Remote!Connected
  <2>2. m \in UpMsgs /\ m \in DragsTo(s, v) /\ (\A t : t # s => m \notin DragsOf(t)) /\ (\A w : m \notin SearchesPast(w))
    BY DragMade
  <2> HIDE DEF m
  <2>3. /\ Append(v14, m) \in Seq(UpMsgs)
        /\ \A t, w : Appended(v14, m, DragsOf(t), DragsTo(t, w))
        /\ \A w : Appended(v14, m, SearchesPast(w), SearchesPast(w))
    BY <1>1, <2>2, UpAppended
  <2>4. LastIn(v14', DragsOf(s), DragsTo(s, v))
    BY <2>1, <2>2, <2>3 DEF Appended
  <2>5. v6'[s] = 9
    BY <1>1, <1>3, <2>1
  <2>6. ASSUME NEW t \in Sliders, NEW w \in SliderValues, t # s, LandsAt(t, w)
        PROVE  LandsAt(t, w)'
    <3>1. /\ LastIn(v14, DragsOf(t), DragsTo(t, w)) => LastIn(v14', DragsOf(t), DragsTo(t, w))
          /\ NoneIn(v14, DragsOf(t)) => NoneIn(v14', DragsOf(t))
      BY <2>1, <2>2, <2>3, <2>6 DEF Appended
    <3> QED
      BY <2>1, <2>6, <3>1 DEF LandsAt
  <2>7. \A w : NoneIn(v14, SearchesPast(w)) => NoneIn(v14', SearchesPast(w))
    BY <2>1, <2>2, <2>3 DEF Appended
  <2> QED
    BY <1>1, <2>1, <2>3, <2>4, <2>5, <2>6, <2>7 DEF LandsAt
<1> QED
  BY <1>2, <1>3

\* What is pending when the timers are over lands as what is sent.
LEMMA FlushLands ==
  ASSUME RemKinds, WireInv, NEW S, S \subseteq Sliders, Remote!Flush(S), UNCHANGED <<v1, v2, v17>>
  PROVE  /\ v6' \in Drafts /\ v7' \subseteq Sliders /\ v14' \in Seq(UpMsgs)
         /\ \A t \in Sliders : v6'[t] # 9 => t \in v7'
         /\ v1 # "open" => v14' = v14
         /\ v1 = "open" /\ v2 = TRUE =>
              \A t \in Sliders, w \in SliderValues : LandsAt(t, w) => LandsAt(t, w)'
         /\ \A w : NoneIn(v14, SearchesPast(w)) => NoneIn(v14', SearchesPast(w))
<1> DEFINE due == {s \in S : v6[s] # 9}
<1>1. v6 \in Drafts /\ v14 \in Seq(UpMsgs) /\ v7 \subseteq Sliders /\ \A t \in Sliders : v6[t] # 9 => t \in v7
  BY DEF RemKinds, WireInv
<1>2. PICK list \in Remote!SetToSeqs(due) :
         v14' = IF Remote!Connected THEN v14 \o [i \in DOMAIN list |-> Remote!DragTo(list[i], v6[list[i]])] ELSE v14
  BY RemBounds DEF Remote!Flush
<1>3. v6' = [s \in Sliders |-> IF s \in due THEN 9 ELSE v6[s]] /\ v7' = (v7 \ S) \union due
  BY RemBounds DEF Remote!Flush
<1>4. due \subseteq Sliders /\ (\A s \in due : v6[s] # 9) /\ due \subseteq v7 /\ \A s \in S : s \notin due => v6[s] = 9
  BY <1>1
<1> DEFINE sent == [i \in DOMAIN list |-> Remote!DragTo(list[i], v6[list[i]])]
<1> HIDE DEF due
<1>5. /\ sent \in Seq(UpMsgs)
      /\ \A s \in due : LastIn(sent, DragsOf(s), DragsTo(s, v6[s]))
      /\ \A s : s \notin due => NoneIn(sent, DragsOf(s))
      /\ \A w : NoneIn(sent, SearchesPast(w))
  BY <1>1, <1>2, <1>4, FlushedSent
<1>6. v14' = IF Remote!Connected THEN v14 \o sent ELSE v14
  BY <1>2
<1> HIDE DEF sent
<1>7. \A t, w : Joined(v14, sent, DragsOf(t), DragsTo(t, w))
  <2> TAKE t, w
  <2> QED
    BY <1>1, <1>5, MsgSets, JoinEnds
<1>8. \A w : Joined(v14, sent, SearchesPast(w), SearchesPast(w))
  BY <1>1, <1>5, JoinEnds
<1>9. v14' \in Seq(UpMsgs)
  BY <1>1, <1>5, <1>6, ConcatProperties
<1>10. v6' \in Drafts /\ v7' \subseteq Sliders /\ \A t \in Sliders : v6'[t] # 9 => t \in v7'
  BY <1>1, <1>3, <1>4 DEF Drafts
<1>11. \A w : NoneIn(v14, SearchesPast(w)) => NoneIn(v14', SearchesPast(w))
  BY <1>5, <1>6, <1>8 DEF Joined
<1>12. ASSUME v1 = "open", v2 = TRUE, NEW t \in Sliders, NEW w \in SliderValues, LandsAt(t, w)
       PROVE  LandsAt(t, w)'
  <2>1. v14' = v14 \o sent
    BY <1>6, <1>12 DEF Remote!Connected
  <2>2. CASE t \in due
    <3>1. v6[t] = w /\ v6'[t] = 9
      BY <1>3, <1>4, <1>12, <2>2 DEF LandsAt
    <3>2. LastIn(v14', DragsOf(t), DragsTo(t, w))
      BY <1>5, <1>7, <2>1, <2>2, <3>1 DEF Joined
    <3> QED
      BY <3>1, <3>2 DEF LandsAt
  <2>3. CASE t \notin due
    <3>1. v6'[t] = v6[t] /\ (v6[t] # 9 => t \notin S /\ (t \in v7 => t \in v7'))
      BY <1>3, <1>4, <2>3
    <3>2. /\ LastIn(v14, DragsOf(t), DragsTo(t, w)) => LastIn(v14', DragsOf(t), DragsTo(t, w))
          /\ NoneIn(v14, DragsOf(t)) => NoneIn(v14', DragsOf(t))
      BY <1>5, <1>7, <2>1, <2>3 DEF Joined
    <3>3. w # 9
      BY RemBounds
    <3> QED
      BY <1>12, <3>1, <3>2, <3>3 DEF LandsAt
  <2> QED
    BY <2>2, <2>3
<1>13. v1 # "open" => v14' = v14
  BY <1>6 DEF Remote!Connected
<1> QED
  BY <1>9, <1>10, <1>11, <1>12, <1>13

\* The host tells how it is, the relay whether it is there, or a search is answered.
LEMMA StateTold ==
  ASSUME RemKinds, KnownInv, v1 = "open", NEW m \in States, v15' = Append(v15, m),
         m.song = v18', m.val = v17', UNCHANGED <<v1, v2, v3, v16>>
  PROVE  /\ KnownInv' /\ v15' \in Seq(DownMsgs)
         /\ \A s : ~NoneIn(v15, Drops(s)) => ~NoneIn(v15', Drops(s))
         /\ m.song = FALSE => ~NoneIn(v15', Drops("track"))
         /\ \A w : NoneIn(v15, RepliesPast(w)) => NoneIn(v15', RepliesPast(w))
<1>1. v15 \in Seq(DownMsgs) /\ m \in DownMsgs
  BY DEF RemKinds, DownMsgs
<1>2. /\ v15' \in Seq(DownMsgs)
      /\ \A x, y : Appended(v15, m, Tellings, Telling(x, y))
      /\ \A x : Appended(v15, m, Greetings, Greeting(x))
      /\ \A s : Appended(v15, m, Drops(s), Drops(s))
      /\ \A w : Appended(v15, m, RepliesPast(w), RepliesPast(w))
  BY <1>1, DownAppended
<1>3. /\ m \in Telling(v18', v17')
      /\ m \notin Greetings /\ \A w : m \notin RepliesPast(w)
      /\ m.song = FALSE => m \in Drops("track")
  BY DEF States, Telling, Tellings, Greetings, Hellos, Presences, RepliesPast, Replies, Drops
<1>4. LastIn(v15', Tellings, Telling(v18', v17'))
  BY <1>2, <1>3 DEF Appended
<1>5. /\ LastIn(v15, Greetings, Greeting(v16)) => LastIn(v15', Greetings, Greeting(v16))
      /\ NoneIn(v15, Greetings) => NoneIn(v15', Greetings)
  BY <1>2, <1>3 DEF Appended
<1>6. KnownInv'
  BY <1>4, <1>5 DEF KnownInv
<1>7. \A s : ~NoneIn(v15, Drops(s)) => ~NoneIn(v15', Drops(s))
  BY <1>2 DEF Appended
<1>8. m.song = FALSE => ~NoneIn(v15', Drops("track"))
  BY <1>2, <1>3 DEF Appended
<1>9. \A w : NoneIn(v15, RepliesPast(w)) => NoneIn(v15', RepliesPast(w))
  BY <1>2, <1>3 DEF Appended
<1> QED
  BY <1>2, <1>6, <1>7, <1>8, <1>9

LEMMA PresenceTold ==
  ASSUME RemKinds, KnownInv, v1 = "open", NEW m \in Presences, v15' = Append(v15, m),
         m.here = v16', UNCHANGED <<v1, v2, v3, v17, v18>>
  PROVE  /\ KnownInv' /\ v15' \in Seq(DownMsgs)
         /\ \A s : ~NoneIn(v15, Drops(s)) => ~NoneIn(v15', Drops(s))
         /\ m.here = FALSE => \A s : ~NoneIn(v15', Drops(s))
         /\ \A w : NoneIn(v15, RepliesPast(w)) => NoneIn(v15', RepliesPast(w))
<1>1. v15 \in Seq(DownMsgs) /\ m \in DownMsgs
  BY DEF RemKinds, DownMsgs
<1>2. /\ v15' \in Seq(DownMsgs)
      /\ \A x, y : Appended(v15, m, Tellings, Telling(x, y))
      /\ \A x : Appended(v15, m, Greetings, Greeting(x))
      /\ \A s : Appended(v15, m, Drops(s), Drops(s))
      /\ \A w : Appended(v15, m, RepliesPast(w), RepliesPast(w))
  BY <1>1, DownAppended
<1>3. /\ m \in Greeting(v16')
      /\ m \notin Tellings /\ \A w : m \notin RepliesPast(w)
      /\ m.here = FALSE => \A s : m \in Drops(s)
  BY DEF Presences, Greeting, Tellings, Hellos, States, RepliesPast, Replies, Drops
<1>4. LastIn(v15', Greetings, Greeting(v16'))
  BY <1>2, <1>3 DEF Appended
<1>5. /\ LastIn(v15, Tellings, Telling(v18, v17)) => LastIn(v15', Tellings, Telling(v18, v17))
      /\ NoneIn(v15, Tellings) => NoneIn(v15', Tellings)
  BY <1>2, <1>3 DEF Appended
<1>6. KnownInv'
  BY <1>4, <1>5 DEF KnownInv
<1>7. \A s : ~NoneIn(v15, Drops(s)) => ~NoneIn(v15', Drops(s))
  BY <1>2 DEF Appended
<1>8. m.here = FALSE => \A s : ~NoneIn(v15', Drops(s))
  BY <1>2, <1>3 DEF Appended
<1>9. \A w : NoneIn(v15, RepliesPast(w)) => NoneIn(v15', RepliesPast(w))
  BY <1>2, <1>3 DEF Appended
<1> QED
  BY <1>2, <1>6, <1>7, <1>8, <1>9

LEMMA ReplyTold ==
  ASSUME RemKinds, KnownInv, v1 = "open", NEW m \in Replies, v15' = Append(v15, m),
         UNCHANGED <<v1, v2, v3, v16, v17, v18>>
  PROVE  /\ KnownInv' /\ v15' \in Seq(DownMsgs)
         /\ \A s : ~NoneIn(v15, Drops(s)) => ~NoneIn(v15', Drops(s))
         /\ \A w : m.of <= w /\ NoneIn(v15, RepliesPast(w)) => NoneIn(v15', RepliesPast(w))
<1>1. v15 \in Seq(DownMsgs) /\ m \in DownMsgs
  BY DEF RemKinds, DownMsgs
<1>2. /\ v15' \in Seq(DownMsgs)
      /\ \A x, y : Appended(v15, m, Tellings, Telling(x, y))
      /\ \A x : Appended(v15, m, Greetings, Greeting(x))
      /\ \A s : Appended(v15, m, Drops(s), Drops(s))
      /\ \A w : Appended(v15, m, RepliesPast(w), RepliesPast(w))
  BY <1>1, DownAppended
<1>3. m \notin Greetings /\ m \notin Tellings /\ \A w : m.of <= w => m \notin RepliesPast(w)
  BY DEF Replies, Tellings, Hellos, States, Greetings, Presences, RepliesPast
<1>4. /\ LastIn(v15, Greetings, Greeting(v16)) => LastIn(v15', Greetings, Greeting(v16))
      /\ NoneIn(v15, Greetings) => NoneIn(v15', Greetings)
  BY <1>2, <1>3 DEF Appended
<1>5. /\ LastIn(v15, Tellings, Telling(v18, v17)) => LastIn(v15', Tellings, Telling(v18, v17))
      /\ NoneIn(v15, Tellings) => NoneIn(v15', Tellings)
  BY <1>2, <1>3 DEF Appended
<1>6. KnownInv'
  BY <1>4, <1>5 DEF KnownInv
<1>7. \A s : ~NoneIn(v15, Drops(s)) => ~NoneIn(v15', Drops(s))
  BY <1>2 DEF Appended
<1>9. \A w : m.of <= w /\ NoneIn(v15, RepliesPast(w)) => NoneIn(v15', RepliesPast(w))
  BY <1>2, <1>3 DEF Appended
<1> QED
  BY <1>2, <1>6, <1>7, <1>9

LEMMA UsableIs ==
  ASSUME "seek" \notin Sliders, NEW state, state.song \in BOOLEAN, NEW s \in Sliders
  PROVE  /\ s \in Remote!Usable(state) <=> (s = "track" => state.song = TRUE)
         /\ s \in Remote!Mounted(state) <=> (s = "track" => state.song = TRUE)
BY RemBounds DEF Remote!Usable, Remote!Mounted

LEMMA HostState ==
  ASSUME RemKinds
  PROVE  /\ Remote!State = [kind |-> "state", song |-> v18, val |-> v17]
         /\ Remote!State \in States /\ Remote!State.song = v18 /\ Remote!State.val = v17
BY DEF RemKinds, Remote!State, States

LEMMA HearsIs ==
  ASSUME RemKinds, "seek" \notin Sliders, NEW s \in Sliders
  PROVE  v16 = TRUE /\ s \in Remote!Usable(Remote!State) <=> Hears(s)
<1>1. Remote!State.song = v18 /\ v18 \in BOOLEAN
  BY HostState DEF RemKinds
<1>2. s \in Remote!Usable(Remote!State) <=> (s = "track" => v18 = TRUE)
  BY <1>1, RemBounds DEF Remote!Usable
<1> QED
  BY <1>2 DEF Hears

LEMMA LastDrops ==
  ASSUME NEW q, NEW M, NEW N, NEW D, N \subseteq D, LastIn(q, M, N)
  PROVE  ~NoneIn(q, D)
BY DEF LastIn, NoneIn

LEMMA DropSets ==
  /\ \A s : Greeting(FALSE) \subseteq Drops(s)
  /\ \A y : Telling(FALSE, y) \subseteq Drops("track")
BY DEF Drops, Greeting, Telling

\* What lands still does, what drops drafts is still to come: the drafts are right.
LEMMA LandingKept ==
  ASSUME RemKinds, DraftInv, MovedInv, UNCHANGED <<v1, v2, v4, v20>>,
         \A s \in Sliders : v4[s] # 9 /\ s \in v8 \union v5 => s \in v8' \union v5',
         v1 = "open" /\ v2 = TRUE =>
           \A s \in Sliders, w \in SliderValues : Hears(s) /\ LandsAt(s, w) => Hears(s)' /\ LandsAt(s, w)',
         v1 = "open" => \A s : ~NoneIn(v15, Drops(s)) => ~NoneIn(v15', Drops(s))
  PROVE  DraftInv' /\ MovedInv'
<1> SUFFICES ASSUME v1 = "open" PROVE DraftInv' /\ MovedInv'
  BY DEF DraftInv, MovedInv
<1>1. \A s \in Sliders : (v4[s] # 9 => v4[s] \in SliderValues) /\ (v20[s] # 9 => v20[s] \in SliderValues)
  BY DEF RemKinds, Drafts
<1>2. ASSUME NEW s \in Sliders, v4[s] # 9
      PROVE  v2 = TRUE /\ s \in v8' \union v5' /\ ((Hears(s)' /\ LandsAt(s, v4[s])') \/ ~NoneIn(v15', Drops(s)))
  <2>1. v2 = TRUE /\ s \in v8 \union v5 /\ ((Hears(s) /\ LandsAt(s, v4[s])) \/ ~NoneIn(v15, Drops(s)))
    BY <1>2 DEF DraftInv
  <2>2. PICK w \in SliderValues : w = v4[s]
    BY <1>1, <1>2
  <2>3. Hears(s) /\ LandsAt(s, w) => Hears(s)' /\ LandsAt(s, w)'
    BY <2>1
  <2>4. w = v4'[s] /\ w = v4[s]
    BY <2>2
  <2>5. LandsAt(s, w) = LandsAt(s, v4[s]) /\ LandsAt(s, w)' = LandsAt(s, v4[s])'
    BY <2>4 DEF LandsAt
  <2> QED
    BY <1>2, <2>1, <2>3, <2>5
<1>3. ASSUME NEW s \in Sliders, v20[s] # 9
      PROVE  v2 = TRUE /\ Hears(s)' /\ LandsAt(s, v20[s])'
  <2>1. v2 = TRUE /\ Hears(s) /\ LandsAt(s, v20[s])
    BY <1>3 DEF MovedInv
  <2>2. PICK w \in SliderValues : w = v20[s]
    BY <1>1, <1>3
  <2>3. Hears(s) /\ LandsAt(s, w) => Hears(s)' /\ LandsAt(s, w)'
    BY <2>1
  <2>4. w = v20'[s] /\ w = v20[s]
    BY <2>2
  <2>5. LandsAt(s, w) = LandsAt(s, v20[s]) /\ LandsAt(s, w)' = LandsAt(s, v20[s])'
    BY <2>4 DEF LandsAt
  <2> QED
    BY <2>1, <2>3, <2>5
<1>4. DraftInv'
  BY <1>2 DEF DraftInv
<1>5. MovedInv'
  BY <1>3 DEF MovedInv
<1> QED
  BY <1>4, <1>5

LEMMA AskedKept ==
  ASSUME AskedInv, UNCHANGED <<v1, v9, v10, v11, v12, v13, v19>>,
         NoneIn(v14, SearchesPast(v12)) => NoneIn(v14', SearchesPast(v12)),
         NoneIn(v15, RepliesPast(v12)) => NoneIn(v15', RepliesPast(v12))
  PROVE  AskedInv'
BY DEF AskedInv

\* When a slider is dragged that the host wouldn't take, what drops its draft is on its way.
LEMMA UnheardDropped ==
  ASSUME RemKinds, KnownInv, "seek" \notin Sliders, v1 = "open", v2 = TRUE,
         NEW s \in Sliders, s \in Remote!Usable(v3), ~Hears(s)
  PROVE  ~NoneIn(v15, Drops(s))
<1>1. v3.song \in BOOLEAN /\ v16 \in BOOLEAN /\ v18 \in BOOLEAN
  BY DEF RemKinds
<1>2. s = "track" => v3.song = TRUE
  BY <1>1, RemBounds DEF Remote!Usable
<1>3. CASE v16 = FALSE
  <2>1. LastIn(v15, Greetings, Greeting(FALSE))
    BY <1>3 DEF KnownInv
  <2> QED
    BY <2>1, DropSets, LastDrops
<1>4. CASE s = "track" /\ v18 = FALSE
  <2>1. v3 # [song |-> v18, val |-> v17]
    BY <1>2, <1>4
  <2>2. LastIn(v15, Tellings, Telling(FALSE, v17))
    BY <1>4, <2>1 DEF KnownInv
  <2> QED
    BY <1>4, <2>2, DropSets, LastDrops
<1> QED
  BY <1>1, <1>3, <1>4 DEF Hears

LEMMA DragStep ==
  ASSUME RemInv, "seek" \notin Sliders, NEW s \in Sliders, NEW v \in SliderValues, Remote!Drag(s, v)
  PROVE  RemInv'
<1>1. /\ v1 = "open" /\ v2 = TRUE /\ s \in Remote!Usable(v3) /\ Remote!Push(s, v) /\ v17' = v17
      /\ v8' = v8 \union {s} /\ v4' = [v4 EXCEPT ![s] = v] /\ v5' = v5 \ {s}
      /\ v20' = [v20 EXCEPT ![s] = IF v16 /\ s \in Remote!Usable(Remote!State) THEN v ELSE 9]
      /\ UNCHANGED <<v1, v2, v3, v9, v10, v11, v12, v13, v15, v16, v17, v18, v19>>
  BY RemBounds DEF Remote!Drag, Remote!Connected, Remote!search, Remote!host
<1>2. RemKinds /\ WireInv /\ AskedInv /\ KnownInv /\ DraftInv /\ MovedInv
  BY DEF RemInv
<1>3. v4 \in Drafts /\ v20 \in Drafts /\ v5 \subseteq Sliders /\ v8 \subseteq Sliders /\ v16 \in BOOLEAN /\ v # 9
  BY <1>2, RemBounds DEF RemKinds
<1>4. /\ v6' \in Drafts /\ v7' \subseteq Sliders /\ v14' \in Seq(UpMsgs)
      /\ \A t \in Sliders : v6'[t] # 9 => t \in v7'
      /\ LandsAt(s, v)'
      /\ \A t \in Sliders, w \in SliderValues : t # s /\ LandsAt(t, w) => LandsAt(t, w)'
      /\ \A w : NoneIn(v14, SearchesPast(w)) => NoneIn(v14', SearchesPast(w))
  BY <1>1, <1>2, PushLands
<1>5. /\ v4' \in Drafts /\ v4'[s] = v /\ \A t \in Sliders : t # s => v4'[t] = v4[t]
      /\ v20' \in Drafts /\ v20'[s] \in {v, 9} /\ \A t \in Sliders : t # s => v20'[t] = v20[t]
  BY <1>1, <1>3 DEF Drafts
<1>6. v20'[s] # 9 => v20'[s] = v /\ Hears(s)
  BY <1>1, <1>2, <1>3, HearsIs DEF Drafts
<1>7. RemKinds'
  BY <1>1, <1>2, <1>3, <1>4, <1>5 DEF RemKinds
<1>8. WireInv'
  BY <1>1, <1>4 DEF WireInv
<1>9. AskedInv'
  BY <1>1, <1>2, <1>4, AskedKept
<1>10. KnownInv'
  BY <1>1, <1>2 DEF KnownInv
<1>11. \A t : Hears(t)' = Hears(t)
  BY <1>1 DEF Hears
<1>12. ASSUME NEW t \in Sliders, v4'[t] # 9
       PROVE  v2' = TRUE /\ t \in v8' \union v5' /\ ((Hears(t)' /\ LandsAt(t, v4[t])') \/ ~NoneIn(v15', Drops(t)))
  <2>1. CASE t = s
    <3>1. ~Hears(s) => ~NoneIn(v15', Drops(s))
      BY <1>1, <1>2, UnheardDropped
    <3>2. LandsAt(s, v4[s])'
      BY <1>4, <1>5 DEF LandsAt
    <3> QED
      BY <1>1, <1>11, <2>1, <3>1, <3>2
  <2>2. CASE t # s
    <3>1. v4'[t] = v4[t]
      BY <1>5, <2>2
    <3>2. v2 = TRUE /\ t \in v8 \union v5 /\ ((Hears(t) /\ LandsAt(t, v4[t])) \/ ~NoneIn(v15, Drops(t)))
      BY <1>1, <1>2, <1>12, <3>1 DEF DraftInv
    <3>3. PICK w \in SliderValues : w = v4[t]
      BY <1>3, <1>12, <3>1 DEF Drafts
    <3>4. LandsAt(t, w) => LandsAt(t, w)'
      BY <1>4, <2>2
    <3>5. LandsAt(t, w) = LandsAt(t, v4[t]) /\ LandsAt(t, w)' = LandsAt(t, v4[t])'
      BY <3>1, <3>3 DEF LandsAt
    <3> QED
      BY <1>1, <1>11, <2>2, <3>2, <3>4, <3>5
  <2> QED
    BY <2>1, <2>2
<1>13. ASSUME NEW t \in Sliders, v20'[t] # 9
       PROVE  v2' = TRUE /\ Hears(t)' /\ LandsAt(t, v20[t])'
  <2>1. CASE t = s
    <3>1. v20'[s] = v /\ Hears(s)
      BY <1>6, <1>13, <2>1
    <3>2. LandsAt(s, v20[s])'
      BY <1>4, <3>1 DEF LandsAt
    <3> QED
      BY <1>1, <1>11, <2>1, <3>1, <3>2
  <2>2. CASE t # s
    <3>1. v20'[t] = v20[t]
      BY <1>5, <2>2
    <3>2. v2 = TRUE /\ Hears(t) /\ LandsAt(t, v20[t])
      BY <1>1, <1>2, <1>13, <3>1 DEF MovedInv
    <3>3. PICK w \in SliderValues : w = v20[t]
      BY <1>3, <1>13, <3>1 DEF Drafts
    <3>4. LandsAt(t, w) => LandsAt(t, w)'
      BY <1>4, <2>2
    <3>5. LandsAt(t, w) = LandsAt(t, v20[t]) /\ LandsAt(t, w)' = LandsAt(t, v20[t])'
      BY <3>1, <3>3 DEF LandsAt
    <3> QED
      BY <1>1, <1>11, <2>2, <3>2, <3>4, <3>5
  <2> QED
    BY <2>1, <2>2
<1>14. DraftInv'
  BY <1>12 DEF DraftInv
<1>15. MovedInv'
  BY <1>13 DEF MovedInv
<1> QED
  BY <1>7, <1>8, <1>9, <1>10, <1>14, <1>15 DEF RemInv

\* Timers, and fingers that let go.
LEMMA FlushStep ==
  ASSUME RemInv, NEW S, S \subseteq Sliders, Remote!Flush(S), v5' \subseteq Sliders, v8' \subseteq Sliders,
         \A s \in Sliders : v4[s] # 9 /\ s \in v8 \union v5 => s \in v8' \union v5',
         UNCHANGED <<v1, v2, v3, v4, v9, v10, v11, v12, v13, v15, v16, v17, v18, v19, v20>>
  PROVE  RemInv'
<1>1. RemKinds /\ WireInv /\ AskedInv /\ KnownInv /\ DraftInv /\ MovedInv
  BY DEF RemInv
<1>2. /\ v6' \in Drafts /\ v7' \subseteq Sliders /\ v14' \in Seq(UpMsgs)
      /\ \A t \in Sliders : v6'[t] # 9 => t \in v7'
      /\ v1 # "open" => v14' = v14
      /\ v1 = "open" /\ v2 = TRUE =>
           \A t \in Sliders, w \in SliderValues : LandsAt(t, w) => LandsAt(t, w)'
      /\ \A w : NoneIn(v14, SearchesPast(w)) => NoneIn(v14', SearchesPast(w))
  BY <1>1, FlushLands
<1>3. RemKinds'
  BY <1>1, <1>2 DEF RemKinds
<1>4. WireInv'
  BY <1>1, <1>2 DEF WireInv
<1>5. AskedInv'
  BY <1>1, <1>2, AskedKept
<1>6. KnownInv'
  BY <1>1 DEF KnownInv
<1>7. \A t : Hears(t)' = Hears(t)
  BY DEF Hears
<1>8. DraftInv' /\ MovedInv'
  BY <1>1, <1>2, <1>7, LandingKept
<1> QED
  BY <1>3, <1>4, <1>5, <1>6, <1>8 DEF RemInv

LEMMA TimerFlushStep ==
  ASSUME RemInv, NEW s \in Sliders, Remote!TimerFlush(s)
  PROVE  RemInv'
<1>1. /\ Remote!Flush({s}) /\ v5' = v5 /\ v8' = v8
      /\ UNCHANGED <<v1, v2, v3, v4, v9, v10, v11, v12, v13, v15, v16, v17, v18, v19, v20>>
  BY DEF Remote!TimerFlush, Remote!search, Remote!host
<1>2. v5' \subseteq Sliders /\ v8' \subseteq Sliders
  BY <1>1 DEF RemInv, RemKinds
<1> QED
  BY <1>1, <1>2, FlushStep

LEMMA ReleaseStep ==
  ASSUME RemInv, NEW s \in Sliders, Remote!Release(s)
  PROVE  RemInv'
<1>1. /\ Remote!Flush({s}) /\ v5' = v5 \union {s} /\ v8' = v8 \ {s}
      /\ UNCHANGED <<v1, v2, v3, v4, v9, v10, v11, v12, v13, v15, v16, v17, v18, v19, v20>>
  BY DEF Remote!Release, Remote!search, Remote!host
<1>2. v5' \subseteq Sliders /\ v8' \subseteq Sliders
  BY <1>1 DEF RemInv, RemKinds
<1> QED
  BY <1>1, <1>2, FlushStep

LEMMA SetTabStep ==
  ASSUME RemInv, Remote!SetTab
  PROVE  RemInv'
<1>1. PICK S \in SUBSET Sliders : S = {s \in Sliders : v4[s] # 9}
  OBVIOUS
<1>2. /\ Remote!Flush(S) /\ v5' = v5 \union S /\ v8' = v8 \intersect {"seek"}
      /\ UNCHANGED <<v1, v2, v3, v4, v9, v10, v11, v12, v13, v15, v16, v17, v18, v19, v20>>
  BY <1>1, RemBounds DEF Remote!SetTab, Remote!search, Remote!host
<1>3. v5' \subseteq Sliders /\ v8' \subseteq Sliders
  BY <1>1, <1>2 DEF RemInv, RemKinds
<1>4. \A s \in Sliders : v4[s] # 9 /\ s \in v8 \union v5 => s \in v8' \union v5'
  BY <1>1, <1>2
<1> QED
  BY <1>2, <1>3, <1>4, FlushStep

\* What the first message says, and what those after it do.
LEMMA FirstDown ==
  ASSUME RemInv, v15 # <<>>, v15' = Tail(v15), NEW m, m = Head(v15)
  PROVE  /\ v1 = "open" /\ m \in DownMsgs /\ v15' \in Seq(DownMsgs)
         /\ \A s : m \notin Drops(s) /\ ~NoneIn(v15, Drops(s)) => ~NoneIn(v15', Drops(s))
         /\ NoneIn(v15', RepliesPast(v12)) /\ m \notin RepliesPast(v12)
         /\ IF m \in Tellings
              THEN LastIn(v15', Tellings, Telling(v18, v17)) \/ (NoneIn(v15', Tellings) /\ m \in Telling(v18, v17))
              ELSE LastIn(v15', Tellings, Telling(v18, v17)) \/ (NoneIn(v15', Tellings) /\ v3 = [song |-> v18, val |-> v17])
         /\ IF m \in Greetings
              THEN LastIn(v15', Greetings, Greeting(v16)) \/ (NoneIn(v15', Greetings) /\ m \in Greeting(v16))
              ELSE LastIn(v15', Greetings, Greeting(v16)) \/ (NoneIn(v15', Greetings) /\ v2 = v16)
<1>1. RemKinds /\ WireInv /\ AskedInv /\ KnownInv /\ v1 = "open" /\ v15 \in Seq(DownMsgs)
  BY DEF RemInv, WireInv, RemKinds
<1>2. /\ v15' \in Seq(DownMsgs) /\ m \in DownMsgs
      /\ \A x, y : Read(v15, Tellings, Telling(x, y))
      /\ \A x : Read(v15, Greetings, Greeting(x))
      /\ \A s : Read(v15, Drops(s), Drops(s))
      /\ \A w : Read(v15, RepliesPast(w), RepliesPast(w))
  BY <1>1, DownRead
<1>3. \A s : m \notin Drops(s) /\ ~NoneIn(v15, Drops(s)) => ~NoneIn(v15', Drops(s))
  BY <1>2 DEF Read
<1>4. NoneIn(v15', RepliesPast(v12)) /\ m \notin RepliesPast(v12)
  BY <1>1, <1>2 DEF Read, AskedInv
<1>5. Telling(v18, v17) \subseteq Tellings /\ Greeting(v16) \subseteq Greetings
  BY MsgSets
<1>6. LastIn(v15, Tellings, Telling(v18, v17)) \/ (NoneIn(v15, Tellings) /\ v3 = [song |-> v18, val |-> v17])
  BY <1>1 DEF KnownInv
<1>7. LastIn(v15, Greetings, Greeting(v16)) \/ (NoneIn(v15, Greetings) /\ v2 = v16)
  BY <1>1 DEF KnownInv
<1>8. Read(v15, Tellings, Telling(v18, v17)) /\ Read(v15, Greetings, Greeting(v16))
  BY <1>2
<1>9. IF m \in Tellings
        THEN LastIn(v15', Tellings, Telling(v18, v17)) \/ (NoneIn(v15', Tellings) /\ m \in Telling(v18, v17))
        ELSE LastIn(v15', Tellings, Telling(v18, v17)) \/ (NoneIn(v15', Tellings) /\ v3 = [song |-> v18, val |-> v17])
  BY <1>5, <1>6, <1>8 DEF Read
<1>10. IF m \in Greetings
        THEN LastIn(v15', Greetings, Greeting(v16)) \/ (NoneIn(v15', Greetings) /\ m \in Greeting(v16))
        ELSE LastIn(v15', Greetings, Greeting(v16)) \/ (NoneIn(v15', Greetings) /\ v2 = v16)
  BY <1>5, <1>7, <1>8 DEF Read
<1> QED
  BY <1>1, <1>2, <1>3, <1>4, <1>9, <1>10

\* A state that is read drops what was let go, and what is of a track that is gone; the rest is
\* still under a finger.
LEMMA TakeKeeps ==
  ASSUME RemInv, "seek" \notin Sliders, NEW m \in Tellings, m = Head(v15), v15 # <<>>, v15' = Tail(v15),
         m \notin Greeting(FALSE), v2' = TRUE \/ v2' = v2,
         v3' = [song |-> m.song, val |-> m.val],
         v4' = Remote!Shown(m, v4), v5' = {}, v8' = v8 \intersect Remote!Usable(m),
         UNCHANGED <<v1, v6, v7, v14, v16, v17, v18, v20>>
  PROVE  v3' \in [song : BOOLEAN, val : HostVals] /\ v4' \in Drafts /\ DraftInv' /\ MovedInv'
<1>1. RemKinds /\ DraftInv /\ MovedInv /\ v1 = "open"
  BY FirstDown DEF RemInv
<1>2. m.song \in BOOLEAN /\ m.val \in HostVals
  BY DEF Tellings, Hellos, States
<1>3. ASSUME NEW s \in Sliders
      PROVE  /\ s \in Remote!Usable(m) <=> (s = "track" => m.song = TRUE)
             /\ s \in Remote!Mounted(m) <=> (s = "track" => m.song = TRUE)
  BY <1>2, RemBounds DEF Remote!Usable, Remote!Mounted
<1>4. v4' = [s \in Sliders |-> IF s \in v5 \/ (s = "track" /\ s \notin Remote!Mounted(m)) THEN 9 ELSE v4[s]]
  BY RemBounds DEF Remote!Shown
<1>5. v3' \in [song : BOOLEAN, val : HostVals] /\ v4' \in Drafts
  BY <1>1, <1>2, <1>4 DEF RemKinds, Drafts
<1>6. ASSUME NEW s \in Sliders, v4'[s] # 9
      PROVE  /\ v4'[s] = v4[s] /\ v4[s] # 9 /\ s \notin v5 /\ (s = "track" => m.song = TRUE)
  BY <1>3, <1>4, <1>6
<1>7. ASSUME NEW s \in Sliders, v4'[s] # 9
      PROVE  /\ v2' = TRUE /\ s \in v8' \union v5'
             /\ (Hears(s)' /\ LandsAt(s, v4[s])') \/ ~NoneIn(v15', Drops(s))
  <2>1. /\ v2 = TRUE /\ s \in v8 \union v5 /\ v4'[s] = v4[s] /\ s \notin v5 /\ (s = "track" => m.song = TRUE)
        /\ (Hears(s) /\ LandsAt(s, v4[s])) \/ ~NoneIn(v15, Drops(s))
    BY <1>1, <1>6, <1>7 DEF DraftInv
  <2>2. s \in v8'
    BY <1>3, <2>1
  <2>3. m \notin Drops(s)
    BY <1>2, <2>1 DEF Drops
  <2>4. ~NoneIn(v15, Drops(s)) => ~NoneIn(v15', Drops(s))
    BY <2>3, FirstDown
  <2>5. Hears(s)' = Hears(s) /\ LandsAt(s, v4[s])' = LandsAt(s, v4[s])
    BY <2>1 DEF Hears, LandsAt
  <2> QED
    BY <2>1, <2>2, <2>4, <2>5
<1>8. DraftInv'
  BY <1>7 DEF DraftInv
<1>9. MovedInv'
  <2> SUFFICES ASSUME NEW s \in Sliders, v20'[s] # 9 PROVE v2' = TRUE /\ Hears(s)' /\ LandsAt(s, v20[s])'
    BY DEF MovedInv
  <2>1. v2 = TRUE /\ Hears(s) /\ LandsAt(s, v20[s])
    BY <1>1 DEF MovedInv
  <2>2. Hears(s)' = Hears(s) /\ LandsAt(s, v20[s])' = LandsAt(s, v20[s])
    BY DEF Hears, LandsAt
  <2> QED
    BY <2>1, <2>2
<1> QED
  BY <1>5, <1>8, <1>9

\* No draft is left, and nothing is awaited of a slider.
LEMMA NothingDragged ==
  ASSUME \A s \in Sliders : v4'[s] = 9 /\ v20'[s] = 9
  PROVE  DraftInv' /\ MovedInv'
BY DEF DraftInv, MovedInv

LEMMA NowhereIs ==
  Remote!Nowhere \in Drafts /\ \A s \in Sliders : Remote!Nowhere[s] = 9
BY RemBounds DEF Drafts

LEMMA HelloStep ==
  ASSUME RemInv, "seek" \notin Sliders, Remote!Hello
  PROVE  RemInv'
<1> DEFINE m == Head(v15)
<1>1. /\ v15 # <<>> /\ m.kind = "hello" /\ v2' = m.host /\ v15' = Tail(v15)
      /\ UNCHANGED <<v1, v6, v7, v9, v10, v11, v12, v13, v14, v16, v17, v18, v19>>
  BY DEF Remote!Hello, Remote!search, Remote!host
<1>2. IF m.host THEN Remote!Take(m, v4, v8) /\ v20' = v20
      ELSE Remote!Take(m, Remote!Nowhere, {}) /\ v20' = Remote!Nowhere
  BY DEF Remote!Hello
<1>3. RemKinds /\ WireInv /\ AskedInv /\ KnownInv
  BY DEF RemInv
<1> HIDE DEF m
<1>4. /\ v1 = "open" /\ m \in DownMsgs /\ v15' \in Seq(DownMsgs)
      /\ NoneIn(v15', RepliesPast(v12))
      /\ IF m \in Tellings
           THEN LastIn(v15', Tellings, Telling(v18, v17)) \/ (NoneIn(v15', Tellings) /\ m \in Telling(v18, v17))
           ELSE LastIn(v15', Tellings, Telling(v18, v17)) \/ (NoneIn(v15', Tellings) /\ v3 = [song |-> v18, val |-> v17])
      /\ IF m \in Greetings
           THEN LastIn(v15', Greetings, Greeting(v16)) \/ (NoneIn(v15', Greetings) /\ m \in Greeting(v16))
           ELSE LastIn(v15', Greetings, Greeting(v16)) \/ (NoneIn(v15', Greetings) /\ v2 = v16)
  BY <1>1, FirstDown DEF m
<1>5. m \in Hellos /\ m \in Tellings /\ m \in Greetings /\ m \notin Presences
  BY <1>1, <1>4, MsgKinds DEF Tellings, Greetings
<1>6. m.host \in BOOLEAN /\ m.song \in BOOLEAN /\ m.val \in HostVals
  BY <1>5 DEF Hellos
<1>7. v3' = [song |-> m.song, val |-> m.val] /\ v5' = {} /\ v8' \subseteq Sliders
  <2>1. v8 \subseteq Sliders
    BY <1>3 DEF RemKinds
  <2> QED
    BY <1>2, <2>1 DEF Remote!Take
<1>8. KnownInv'
  <2>1. m \in Telling(v18, v17) => v3' = [song |-> v18, val |-> v17]
    BY <1>7 DEF Telling
  <2>2. m \in Greeting(v16) => v2' = v16
    BY <1>1, <1>5 DEF Greeting
  <2> QED
    BY <1>1, <1>4, <1>5, <2>1, <2>2 DEF KnownInv
<1>9. v3' \in [song : BOOLEAN, val : HostVals] /\ v4' \in Drafts /\ v20' \in Drafts /\ DraftInv' /\ MovedInv'
  <2>1. CASE m.host = TRUE
    <3>1. /\ v4' = Remote!Shown(m, v4) /\ v8' = v8 \intersect Remote!Usable(m) /\ v20' = v20 /\ v2' = TRUE
      BY <1>1, <1>2, <2>1 DEF Remote!Take
    <3>2. m \notin Greeting(FALSE)
      BY <1>5, <2>1 DEF Greeting
    <3>3. v20' \in Drafts
      BY <1>3, <3>1 DEF RemKinds
    <3> QED
      BY <1>1, <1>5, <1>7, <3>1, <3>2, <3>3, TakeKeeps DEF m
  <2>2. CASE m.host = FALSE
    <3>1. v4' = Remote!Shown(m, Remote!Nowhere) /\ v20' = Remote!Nowhere
      BY <1>2, <2>2 DEF Remote!Take
    <3>2. v4' \in Drafts /\ v20' \in Drafts /\ \A s \in Sliders : v4'[s] = 9 /\ v20'[s] = 9
      BY <3>1, RemBounds, NowhereIs DEF Remote!Shown, Drafts
    <3> QED
      BY <1>6, <1>7, <3>2, NothingDragged
  <2> QED
    BY <1>6, <2>1, <2>2
<1>10. RemKinds'
  BY <1>1, <1>3, <1>4, <1>6, <1>7, <1>9 DEF RemKinds
<1>11. WireInv'
  BY <1>1, <1>3, <1>4 DEF WireInv
<1>12. AskedInv'
  BY <1>1, <1>3, <1>4, AskedKept
<1> QED
  BY <1>8, <1>9, <1>10, <1>11, <1>12 DEF RemInv

LEMMA OnStateStep ==
  ASSUME RemInv, "seek" \notin Sliders, Remote!OnState
  PROVE  RemInv'
<1> DEFINE m == Head(v15)
<1>1. /\ v15 # <<>> /\ m.kind = "state" /\ v15' = Tail(v15) /\ Remote!Take(m, v4, v8)
      /\ UNCHANGED <<v1, v2, v6, v7, v9, v10, v11, v12, v13, v14, v16, v17, v18, v19, v20>>
  BY DEF Remote!OnState, Remote!search, Remote!host
<1>2. RemKinds /\ WireInv /\ AskedInv /\ KnownInv
  BY DEF RemInv
<1>3. /\ v3' = [song |-> m.song, val |-> m.val] /\ v5' = {} /\ v8' \subseteq Sliders
      /\ v4' = Remote!Shown(m, v4) /\ v8' = v8 \intersect Remote!Usable(m)
  <2>1. v8 \subseteq Sliders
    BY <1>2 DEF RemKinds
  <2> QED
    BY <1>1, <2>1 DEF Remote!Take
<1> HIDE DEF m
<1>4. /\ v1 = "open" /\ m \in DownMsgs /\ v15' \in Seq(DownMsgs)
      /\ NoneIn(v15', RepliesPast(v12))
      /\ IF m \in Tellings
           THEN LastIn(v15', Tellings, Telling(v18, v17)) \/ (NoneIn(v15', Tellings) /\ m \in Telling(v18, v17))
           ELSE LastIn(v15', Tellings, Telling(v18, v17)) \/ (NoneIn(v15', Tellings) /\ v3 = [song |-> v18, val |-> v17])
      /\ IF m \in Greetings
           THEN LastIn(v15', Greetings, Greeting(v16)) \/ (NoneIn(v15', Greetings) /\ m \in Greeting(v16))
           ELSE LastIn(v15', Greetings, Greeting(v16)) \/ (NoneIn(v15', Greetings) /\ v2 = v16)
  BY <1>1, FirstDown DEF m
<1>5. m \in Tellings /\ m \notin Greetings /\ m \notin Greeting(FALSE)
  BY <1>1, <1>4, MsgKinds DEF Tellings, Greetings, Greeting
<1>6. KnownInv'
  <2>1. m \in Telling(v18, v17) => v3' = [song |-> v18, val |-> v17]
    BY <1>3 DEF Telling
  <2> QED
    BY <1>1, <1>4, <1>5, <2>1 DEF KnownInv
<1>7. v3' \in [song : BOOLEAN, val : HostVals] /\ v4' \in Drafts /\ DraftInv' /\ MovedInv'
  BY <1>1, <1>3, <1>5, TakeKeeps DEF m
<1>8. RemKinds'
  BY <1>1, <1>2, <1>3, <1>4, <1>7 DEF RemKinds
<1>9. WireInv'
  BY <1>1, <1>2, <1>4 DEF WireInv
<1>10. AskedInv'
  BY <1>1, <1>2, <1>4, AskedKept
<1> QED
  BY <1>6, <1>7, <1>8, <1>9, <1>10 DEF RemInv

LEMMA OnHostStep ==
  ASSUME RemInv, Remote!OnHost
  PROVE  RemInv'
<1> DEFINE m == Head(v15)
<1>1. /\ v15 # <<>> /\ m.kind = "host" /\ v15' = Tail(v15) /\ v2' = m.here
      /\ IF m.here THEN UNCHANGED <<v4, v8, v20>>
         ELSE v4' = Remote!Nowhere /\ v8' = {} /\ v20' = Remote!Nowhere
      /\ UNCHANGED <<v1, v3, v5, v6, v7, v9, v10, v11, v12, v13, v14, v16, v17, v18, v19>>
  BY DEF Remote!OnHost, Remote!search, Remote!host
<1>2. RemKinds /\ WireInv /\ AskedInv /\ KnownInv /\ DraftInv /\ MovedInv
  BY DEF RemInv
<1> HIDE DEF m
<1>4. /\ v1 = "open" /\ m \in DownMsgs /\ v15' \in Seq(DownMsgs)
      /\ NoneIn(v15', RepliesPast(v12))
      /\ IF m \in Tellings
           THEN LastIn(v15', Tellings, Telling(v18, v17)) \/ (NoneIn(v15', Tellings) /\ m \in Telling(v18, v17))
           ELSE LastIn(v15', Tellings, Telling(v18, v17)) \/ (NoneIn(v15', Tellings) /\ v3 = [song |-> v18, val |-> v17])
      /\ IF m \in Greetings
           THEN LastIn(v15', Greetings, Greeting(v16)) \/ (NoneIn(v15', Greetings) /\ m \in Greeting(v16))
           ELSE LastIn(v15', Greetings, Greeting(v16)) \/ (NoneIn(v15', Greetings) /\ v2 = v16)
      /\ \A s : m \notin Drops(s) /\ ~NoneIn(v15, Drops(s)) => ~NoneIn(v15', Drops(s))
  BY <1>1, FirstDown DEF m
<1>5. m \in Presences /\ m \notin Tellings /\ m \in Greetings /\ m.here \in BOOLEAN /\ m \notin Hellos
  BY <1>1, <1>4, MsgKinds DEF Tellings, Greetings, Presences
<1>6. KnownInv'
  <2>1. m \in Greeting(v16) => v2' = v16
    BY <1>1, <1>5 DEF Greeting
  <2> QED
    BY <1>1, <1>4, <1>5, <2>1 DEF KnownInv
<1>7. v4' \in Drafts /\ v20' \in Drafts /\ v8' \subseteq Sliders /\ DraftInv' /\ MovedInv'
  <2>1. CASE m.here = TRUE
    <3>1. UNCHANGED <<v4, v8, v20>> /\ v2' = TRUE
      BY <1>1, <2>1
    <3>2. \A s : m \notin Drops(s)
      BY <1>5, <2>1 DEF Drops, Greeting, Tellings
    <3>3. \A s : ~NoneIn(v15, Drops(s)) => ~NoneIn(v15', Drops(s))
      BY <1>4, <3>2
    <3>4. \A s : Hears(s)' = Hears(s)
      BY <1>1 DEF Hears
    <3>5. ASSUME NEW s \in Sliders, v4[s] # 9
          PROVE  /\ v2' = TRUE /\ s \in v8' \union v5'
                 /\ (Hears(s)' /\ LandsAt(s, v4[s])') \/ ~NoneIn(v15', Drops(s))
      <4>1. s \in v8 \union v5 /\ ((Hears(s) /\ LandsAt(s, v4[s])) \/ ~NoneIn(v15, Drops(s)))
        BY <1>2, <1>4, <3>5 DEF DraftInv
      <4>2. LandsAt(s, v4[s])' = LandsAt(s, v4[s])
        BY <1>1, <3>1 DEF LandsAt
      <4> QED
        BY <1>1, <3>1, <3>3, <3>4, <4>1, <4>2
    <3>6. ASSUME NEW s \in Sliders, v20[s] # 9
          PROVE  v2' = TRUE /\ Hears(s)' /\ LandsAt(s, v20[s])'
      <4>1. Hears(s) /\ LandsAt(s, v20[s])
        BY <1>2, <1>4, <3>6 DEF MovedInv
      <4>2. LandsAt(s, v20[s])' = LandsAt(s, v20[s])
        BY <1>1, <3>1 DEF LandsAt
      <4> QED
        BY <3>1, <3>4, <4>1, <4>2
    <3>7. DraftInv'
      BY <3>1, <3>5 DEF DraftInv
    <3>8. MovedInv'
      BY <3>1, <3>6 DEF MovedInv
    <3> QED
      BY <1>2, <3>1, <3>7, <3>8 DEF RemKinds
  <2>2. CASE m.here = FALSE
    <3>1. v4' = Remote!Nowhere /\ v8' = {} /\ v20' = Remote!Nowhere
      BY <1>1, <2>2
    <3> QED
      BY <3>1, NowhereIs, NothingDragged
  <2> QED
    BY <1>5, <2>1, <2>2
<1>8. RemKinds'
  BY <1>1, <1>2, <1>4, <1>5, <1>7 DEF RemKinds
<1>9. WireInv'
  BY <1>1, <1>2, <1>4 DEF WireInv
<1>10. AskedInv'
  BY <1>1, <1>2, <1>4, AskedKept
<1> QED
  BY <1>6, <1>7, <1>8, <1>9, <1>10 DEF RemInv

LEMMA OnReplyStep ==
  ASSUME RemInv, Remote!OnReply
  PROVE  RemInv'
<1> DEFINE m == Head(v15)
<1>1. /\ v15 # <<>> /\ m.kind = "reply" /\ v15' = Tail(v15)
      /\ UNCHANGED <<v1, v2, v3, v4, v5, v6, v7, v8, v14, v16, v17, v18, v19, v20>>
  BY DEF Remote!OnReply, Remote!sliders, Remote!host
<1>2. IF m.of = v9 THEN /\ v10' = 0 /\ v11' = m.is /\ v9' = v9 /\ v12' = v12
                        /\ v13' = (IF m.is = "error" THEN v13 ELSE m.of)
      ELSE UNCHANGED <<v9, v10, v11, v12, v13>>
  BY DEF Remote!OnReply, Remote!IsLast, Remote!search
<1>3. RemKinds /\ WireInv /\ AskedInv /\ KnownInv /\ DraftInv /\ MovedInv
  BY DEF RemInv
<1> HIDE DEF m
<1>4. /\ v1 = "open" /\ m \in DownMsgs /\ v15' \in Seq(DownMsgs)
      /\ NoneIn(v15', RepliesPast(v12)) /\ m \notin RepliesPast(v12)
      /\ IF m \in Tellings
           THEN LastIn(v15', Tellings, Telling(v18, v17)) \/ (NoneIn(v15', Tellings) /\ m \in Telling(v18, v17))
           ELSE LastIn(v15', Tellings, Telling(v18, v17)) \/ (NoneIn(v15', Tellings) /\ v3 = [song |-> v18, val |-> v17])
      /\ IF m \in Greetings
           THEN LastIn(v15', Greetings, Greeting(v16)) \/ (NoneIn(v15', Greetings) /\ m \in Greeting(v16))
           ELSE LastIn(v15', Greetings, Greeting(v16)) \/ (NoneIn(v15', Greetings) /\ v2 = v16)
      /\ \A s : m \notin Drops(s) /\ ~NoneIn(v15, Drops(s)) => ~NoneIn(v15', Drops(s))
  BY <1>1, FirstDown DEF m
<1>5. /\ m \in Replies /\ m \notin Tellings /\ m \notin Greetings /\ \A s : m \notin Drops(s)
      /\ m.of \in 1..MaxRemoteSearches /\ m.is \in {"results", "no-results", "error"}
  BY <1>1, <1>4, MsgKinds DEF Tellings, Greetings, Replies, Drops, Greeting
<1>6. m.of <= v12
  BY <1>4, <1>5 DEF RepliesPast
<1>7. m.of = v9 => m.of = v12
  <2>1. v9 \in Nat /\ v12 \in Nat /\ v12 <= v9
    BY <1>3, RemBounds DEF RemKinds, AskedInv
  <2> QED
    BY <1>6, <2>1
<1>8. /\ v12' = v12 /\ v9' = v9 /\ v10' \in 0..MaxRemoteSearches /\ v13' \in 0..MaxRemoteSearches
      /\ v11' \in {"idle", "searching", "results", "no-results", "error"}
  <2>1. 0 \in 0..MaxRemoteSearches /\ m.of \in 0..MaxRemoteSearches
    BY <1>5, RemBounds
  <2> QED
    BY <1>2, <1>3, <1>5, <2>1 DEF RemKinds
<1>9. v11' = "searching" => v10' = v9'
  BY <1>2, <1>3, <1>4, <1>5 DEF AskedInv
<1>10. v11' \in {"results", "no-results"} => v13' = v12'
  BY <1>2, <1>3, <1>5, <1>7, <1>8 DEF AskedInv
<1>11. AskedInv'
  BY <1>1, <1>3, <1>4, <1>8, <1>9, <1>10 DEF AskedInv
<1>12. KnownInv'
  BY <1>1, <1>4, <1>5 DEF KnownInv
<1>13. \A s : Hears(s)' = Hears(s)
  BY <1>1 DEF Hears
<1>14. \A s, w : LandsAt(s, w)' = LandsAt(s, w)
  BY <1>1 DEF LandsAt
<1>15. DraftInv' /\ MovedInv'
  BY <1>1, <1>3, <1>4, <1>5, <1>13, <1>14, LandingKept
<1>16. RemKinds'
  BY <1>1, <1>3, <1>4, <1>8 DEF RemKinds
<1>17. WireInv'
  BY <1>1, <1>3, <1>4 DEF WireInv
<1> QED
  BY <1>11, <1>12, <1>15, <1>16, <1>17 DEF RemInv

LEMMA LaterSearches ==
  ASSUME NEW w \in Nat, NEW x \in Nat, w <= x
  PROVE  /\ \A q : NoneIn(q, SearchesPast(w)) => NoneIn(q, SearchesPast(x))
         /\ \A q : NoneIn(q, RepliesPast(w)) => NoneIn(q, RepliesPast(x))
<1>1. SearchesPast(x) \subseteq SearchesPast(w)
  BY RemBounds DEF SearchesPast, SearchMsgs
<1>2. RepliesPast(x) \subseteq RepliesPast(w)
  BY RemBounds DEF RepliesPast, Replies
<1> QED
  BY <1>1, <1>2 DEF NoneIn

LEMMA SearchStep ==
  ASSUME RemInv, Remote!Search
  PROVE  RemInv'
<1>1. RemKinds /\ WireInv /\ AskedInv /\ KnownInv /\ DraftInv /\ MovedInv
  BY DEF RemInv
<1>2. /\ v9 \in Nat /\ v12 \in Nat /\ v12 <= v9 /\ MaxRemoteSearches \in Nat
      /\ v14 \in Seq(UpMsgs) /\ v15 \in Seq(DownMsgs)
  BY <1>1, RemBounds DEF RemKinds, AskedInv
<1>3. PICK k : k = v9 + 1
  OBVIOUS
<1>4. /\ v9 < MaxRemoteSearches /\ v9' = k /\ v13' = v13 /\ v15' = v15
      /\ UNCHANGED <<v1, v2, v3, v4, v5, v6, v7, v8, v16, v17, v18, v19, v20>>
  BY <1>3 DEF Remote!Search, Remote!sliders, Remote!host
<1>5. k \in 1..MaxRemoteSearches /\ k \in 0..MaxRemoteSearches /\ k \in Nat /\ v12 <= k
  BY <1>2, <1>3, <1>4
<1>6. CASE v1 = "open" /\ v2 = TRUE
  <2>1. /\ v11' = "searching" /\ v10' = k /\ v12' = k
        /\ v14' = Append(v14, [kind |-> "search", of |-> k])
    BY <1>3, <1>6 DEF Remote!Search, Remote!Connected
  <2>2. PICK m \in SearchMsgs : m = [kind |-> "search", of |-> k]
    BY <1>5 DEF SearchMsgs
  <2>3. m \in UpMsgs /\ (\A s : m \notin DragsOf(s)) /\ m \notin SearchesPast(k)
    <3>1. m.of <= k /\ m.kind = "search"
      BY <1>5, <2>2
    <3> QED
      BY <2>2, <3>1 DEF UpMsgs, DragsOf, DragMsgs, SearchMsgs, SearchesPast
  <2>4. /\ v14' \in Seq(UpMsgs)
        /\ \A s, v : Appended(v14, m, DragsOf(s), DragsTo(s, v))
        /\ \A w : Appended(v14, m, SearchesPast(w), SearchesPast(w))
    BY <1>2, <2>1, <2>2, <2>3, UpAppended
  <2>5. NoneIn(v14, SearchesPast(k)) /\ NoneIn(v15, RepliesPast(k))
    BY <1>1, <1>2, <1>5, LaterSearches DEF AskedInv
  <2>6. NoneIn(v14', SearchesPast(k))
    BY <2>1, <2>2, <2>3, <2>4, <2>5 DEF Appended
  <2>7. \A id \in v19 : id <= k
    <3> TAKE id \in v19
    <3>1. id \in Nat /\ id <= v12
      BY <1>1, RemBounds DEF RemKinds, AskedInv
    <3> QED
      BY <3>1, <1>2, <1>5
  <2>8. k <= k
    BY <1>5
  <2>9. AskedInv'
    BY <1>1, <1>4, <2>1, <2>5, <2>6, <2>7, <2>8 DEF AskedInv
  <2>10. ASSUME NEW s \in Sliders, NEW w \in SliderValues, LandsAt(s, w) PROVE LandsAt(s, w)'
    <3>1. /\ LastIn(v14, DragsOf(s), DragsTo(s, w)) => LastIn(v14', DragsOf(s), DragsTo(s, w))
          /\ NoneIn(v14, DragsOf(s)) => NoneIn(v14', DragsOf(s))
      BY <2>1, <2>2, <2>3, <2>4 DEF Appended
    <3> QED
      BY <1>4, <2>10, <3>1 DEF LandsAt
  <2>11. \A s : Hears(s)' = Hears(s)
    BY <1>4 DEF Hears
  <2>12. DraftInv' /\ MovedInv'
    BY <1>1, <1>4, <2>10, <2>11, LandingKept
  <2>13. KnownInv'
    BY <1>1, <1>4 DEF KnownInv
  <2>14. RemKinds'
    BY <1>1, <1>4, <1>5, <2>1, <2>4 DEF RemKinds
  <2>15. WireInv'
    BY <1>1, <1>4, <1>6 DEF WireInv
  <2> QED
    BY <2>9, <2>12, <2>13, <2>14, <2>15 DEF RemInv
<1>7. CASE ~(v1 = "open" /\ v2 = TRUE)
  <2>1. ~Remote!Connected
    BY <1>1, <1>7 DEF Remote!Connected, RemKinds
  <2>2. UNCHANGED <<v10, v11, v12, v14>> /\ v11 # "searching"
    BY <2>1 DEF Remote!Search, Remote!CanAsk
  <2>3. AskedInv'
    BY <1>1, <1>4, <1>5, <2>2 DEF AskedInv
  <2>4. (\A s : Hears(s)' = Hears(s)) /\ \A s, w : LandsAt(s, w)' = LandsAt(s, w)
    BY <1>4, <2>2 DEF Hears, LandsAt
  <2>5. DraftInv' /\ MovedInv'
    BY <1>1, <1>4, <2>4, LandingKept
  <2>6. KnownInv' /\ WireInv'
    BY <1>1, <1>4, <2>2 DEF KnownInv, WireInv
  <2>7. RemKinds'
    BY <1>1, <1>4, <1>5, <2>2 DEF RemKinds
  <2> QED
    BY <2>3, <2>5, <2>6, <2>7 DEF RemInv
<1> QED
  BY <1>6, <1>7

LEMMA TimedOutStep ==
  ASSUME RemInv, Remote!SearchTimedOut
  PROVE  RemInv'
<1>1. RemKinds /\ WireInv /\ AskedInv /\ KnownInv /\ DraftInv /\ MovedInv
  BY DEF RemInv
<1>2. /\ v10' = 0 /\ v11' = (IF v10 = v9 /\ v11 = "searching" THEN "error" ELSE v11)
      /\ UNCHANGED <<v1, v2, v3, v4, v5, v6, v7, v8, v9, v12, v13, v14, v15, v16, v17, v18, v19, v20>>
  BY DEF Remote!SearchTimedOut, Remote!sliders, Remote!host, Remote!wire
<1>3. 0 \in 0..MaxRemoteSearches
  BY RemBounds
<1>4. RemKinds'
  BY <1>1, <1>2, <1>3 DEF RemKinds
<1>5. AskedInv'
  BY <1>1, <1>2 DEF AskedInv
<1>6. (\A s : Hears(s)' = Hears(s)) /\ \A s, w : LandsAt(s, w)' = LandsAt(s, w)
  BY <1>2 DEF Hears, LandsAt
<1>7. DraftInv' /\ MovedInv'
  BY <1>1, <1>2, <1>6, LandingKept
<1>8. KnownInv' /\ WireInv'
  BY <1>1, <1>2 DEF KnownInv, WireInv
<1> QED
  BY <1>4, <1>5, <1>7, <1>8 DEF RemInv

LEMMA RemoteLoseStep ==
  ASSUME RemInv, Remote!Lose
  PROVE  RemInv'
<1>1. RemKinds /\ WireInv /\ AskedInv
  BY DEF RemInv
<1>2. /\ v1 = "open" /\ v1' = "connecting" /\ v4' = Remote!Nowhere /\ v8' = {} /\ v20' = Remote!Nowhere
      /\ v14' = <<>> /\ v15' = <<>>
      /\ UNCHANGED <<v2, v3, v5, v6, v7, v9, v10, v11, v12, v13, v16, v17, v18, v19>>
  BY DEF Remote!Lose, Remote!search, Remote!host
<1>3. v14' \in Seq(UpMsgs) /\ v15' \in Seq(DownMsgs)
  BY <1>2, EmptySeq
<1>4. RemKinds'
  BY <1>1, <1>2, <1>3, NowhereIs DEF RemKinds
<1>5. WireInv'
  BY <1>1, <1>2, NowhereIs DEF WireInv
<1>6. NoneIn(v14', SearchesPast(v12)) /\ NoneIn(v15', RepliesPast(v12))
  BY <1>2, EmptyEnds
<1>7. AskedInv'
  BY <1>1, <1>2, <1>6 DEF AskedInv
<1>8. KnownInv' /\ DraftInv' /\ MovedInv'
  BY <1>2 DEF KnownInv, DraftInv, MovedInv
<1> QED
  BY <1>4, <1>5, <1>7, <1>8 DEF RemInv

LEMMA DisposeStep ==
  ASSUME RemInv, Remote!Dispose
  PROVE  RemInv'
<1>1. RemKinds /\ WireInv /\ AskedInv
  BY DEF RemInv
<1>2. /\ v1' = "left" /\ v10' = 0 /\ v6' = Remote!Nowhere /\ v7' = {} /\ v8' = {}
      /\ v14' = <<>> /\ v15' = <<>>
      /\ UNCHANGED <<v2, v3, v4, v5, v9, v11, v12, v13, v16, v17, v18, v19, v20>>
  BY DEF Remote!Dispose, Remote!host
<1>3. v14' \in Seq(UpMsgs) /\ v15' \in Seq(DownMsgs) /\ 0 \in 0..MaxRemoteSearches
  BY <1>2, EmptySeq, RemBounds
<1>4. RemKinds'
  BY <1>1, <1>2, <1>3, NowhereIs DEF RemKinds
<1>5. WireInv'
  BY <1>1, <1>2, NowhereIs DEF WireInv
<1>6. NoneIn(v14', SearchesPast(v12)) /\ NoneIn(v15', RepliesPast(v12))
  BY <1>2, EmptyEnds
<1>7. AskedInv'
  BY <1>1, <1>2, <1>6 DEF AskedInv
<1>8. KnownInv' /\ DraftInv' /\ MovedInv'
  BY <1>2 DEF KnownInv, DraftInv, MovedInv
<1> QED
  BY <1>4, <1>5, <1>7, <1>8 DEF RemInv

LEMMA RemoteOpenStep ==
  ASSUME RemInv, Remote!Open
  PROVE  RemInv'
<1>1. RemKinds /\ WireInv /\ AskedInv
  BY DEF RemInv
<1> DEFINE m == [kind |-> "hello", host |-> v16, song |-> v18, val |-> v17]
<1>2. /\ v1 = "connecting" /\ v1' = "open" /\ v15' = <<m>>
      /\ UNCHANGED <<v2, v3, v4, v5, v6, v7, v8, v9, v10, v11, v12, v13, v14, v16, v17, v18, v19, v20>>
  BY DEF Remote!Open, Remote!search, Remote!sliders, Remote!host
<1>3. m \in Hellos /\ m.host = v16 /\ m.song = v18 /\ m.val = v17
  BY <1>1 DEF RemKinds, Hellos
<1> HIDE DEF m
<1>4. m \in DownMsgs /\ m \in Telling(v18, v17) /\ m \in Greeting(v16) /\ \A w : m \notin RepliesPast(w)
  BY <1>3 DEF DownMsgs, Telling, Tellings, Greeting, RepliesPast, Hellos, Replies
<1>5. v15' = Append(<<>>, m) /\ <<>> \in Seq(DownMsgs)
  BY <1>2, EmptySeq
<1>6. /\ v15' \in Seq(DownMsgs)
      /\ \A x, y : Appended(<<>>, m, Tellings, Telling(x, y))
      /\ \A x : Appended(<<>>, m, Greetings, Greeting(x))
      /\ \A w : Appended(<<>>, m, RepliesPast(w), RepliesPast(w))
  BY <1>4, <1>5, DownAppended
<1>7. LastIn(v15', Tellings, Telling(v18, v17)) /\ LastIn(v15', Greetings, Greeting(v16))
  BY <1>4, <1>5, <1>6 DEF Appended
<1>8. NoneIn(v15', RepliesPast(v12))
  BY <1>4, <1>5, <1>6, EmptyEnds DEF Appended
<1>9. KnownInv'
  BY <1>2, <1>7 DEF KnownInv
<1>10. \A s \in Sliders : v4'[s] = 9 /\ v20'[s] = 9
  BY <1>1, <1>2 DEF WireInv
<1>11. DraftInv' /\ MovedInv'
  BY <1>10, NothingDragged
<1>12. RemKinds'
  BY <1>1, <1>2, <1>6 DEF RemKinds
<1>13. WireInv'
  BY <1>1, <1>2 DEF WireInv
<1>14. AskedInv'
  BY <1>1, <1>2, <1>8 DEF AskedInv
<1> QED
  BY <1>9, <1>11, <1>12, <1>13, <1>14 DEF RemInv

\* The first message that the host has of the remote, read.
LEMMA FirstUp ==
  ASSUME RemInv, v14 # <<>>, v14' = Tail(v14), NEW m, m = Head(v14)
  PROVE  /\ v1 = "open" /\ m \in UpMsgs /\ v14' \in Seq(UpMsgs)
         /\ NoneIn(v14', SearchesPast(v12)) /\ m \notin SearchesPast(v12)
         /\ \A s, w : Read(v14, DragsOf(s), DragsTo(s, w))
<1>1. WireInv /\ AskedInv /\ v1 = "open" /\ v14 \in Seq(UpMsgs)
  BY DEF RemInv, WireInv, RemKinds
<1>2. /\ v14' \in Seq(UpMsgs) /\ m \in UpMsgs
      /\ \A s, w : Read(v14, DragsOf(s), DragsTo(s, w))
      /\ \A w : Read(v14, SearchesPast(w), SearchesPast(w))
  BY <1>1, UpRead
<1>3. NoneIn(v14', SearchesPast(v12)) /\ m \notin SearchesPast(v12)
  BY <1>1, <1>2 DEF Read, AskedInv
<1> QED
  BY <1>1, <1>2, <1>3

LEMMA PublishTells ==
  ASSUME RemKinds, v1 = "open", Remote!Publish, v17' \in HostVals, v18' \in BOOLEAN
  PROVE  \E n \in States : n.song = v18' /\ n.val = v17' /\ v15' = Append(v15, n)
<1>1. PICK n : n = [Remote!State EXCEPT !.song = v18', !.val = v17']
  OBVIOUS
<1>2. PICK x \in BOOLEAN, y \in HostVals : x = v18' /\ y = v17'
  OBVIOUS
<1>3. n = [[kind |-> "state", song |-> v18, val |-> v17] EXCEPT !.song = x, !.val = y]
  BY <1>1, <1>2, HostState
<1>4. n = [kind |-> "state", song |-> x, val |-> y]
  BY <1>3
<1>5. n \in States /\ n.song = x /\ n.val = y
  BY <1>2, <1>4 DEF States
<1>6. v15' = Append(v15, n)
  BY <1>1 DEF Remote!Publish, Remote!Tell
<1> QED
  BY <1>2, <1>5, <1>6

LEMMA RunDragStep ==
  ASSUME RemInv, "seek" \notin Sliders, Remote!RunDrag
  PROVE  RemInv'
<1> DEFINE m == Head(v14)
<1>1. RemKinds /\ WireInv /\ AskedInv /\ KnownInv /\ DraftInv /\ MovedInv
  BY DEF RemInv
<1>2. /\ v14 # <<>> /\ m.kind = "drag" /\ v14' = Tail(v14)
      /\ UNCHANGED <<v1, v2, v3, v4, v5, v6, v7, v8, v9, v10, v11, v12, v13, v16, v19, v20>>
      /\ IF (v16 /\ m.slider \in Remote!Usable(Remote!State)) /\ (m.slider = "seek" \/ v17[m.slider] # m.val)
         THEN v17' = [v17 EXCEPT ![m.slider] = m.val] /\ v18' = v18 /\ Remote!Publish
         ELSE UNCHANGED <<v17, v18, v15>>
  BY DEF Remote!RunDrag, Remote!search, Remote!sliders
<1> HIDE DEF m
<1>3. /\ v1 = "open" /\ m \in UpMsgs /\ v14' \in Seq(UpMsgs)
      /\ NoneIn(v14', SearchesPast(v12))
      /\ \A s, w : Read(v14, DragsOf(s), DragsTo(s, w))
  BY <1>2, FirstUp DEF m
<1>4. m \in DragMsgs /\ m.slider \in Sliders /\ m.val \in SliderValues
  BY <1>2, <1>3, MsgKinds DEF DragMsgs
<1>5. PICK s \in Sliders : s = m.slider
  BY <1>4
<1>6. PICK v \in SliderValues : v = m.val
  BY <1>4
<1>7. v16 \in BOOLEAN /\ v17 \in HostVals /\ v18 \in BOOLEAN /\ v15 \in Seq(DownMsgs)
  BY <1>1 DEF RemKinds
<1>8. (v16 /\ s \in Remote!Usable(Remote!State)) <=> Hears(s)
  BY <1>1, <1>7, HearsIs
<1>9. /\ v17' \in HostVals /\ v18' = v18 /\ v15' \in Seq(DownMsgs) /\ KnownInv'
      /\ \A t : ~NoneIn(v15, Drops(t)) => ~NoneIn(v15', Drops(t))
      /\ NoneIn(v15', RepliesPast(v12))
      /\ \A t \in Sliders : t # s => v17'[t] = v17[t]
      /\ Hears(s) => v17'[s] = v
  <2>0. NoneIn(v15, RepliesPast(v12))
    BY <1>1 DEF AskedInv
  <2>1. CASE Hears(s) /\ (s = "seek" \/ v17[s] # v)
    <3>1. v17' = [v17 EXCEPT ![s] = v] /\ v18' = v18 /\ Remote!Publish
      BY <1>2, <1>5, <1>6, <1>8, <2>1
    <3>2. v17' \in HostVals /\ v17'[s] = v /\ \A t \in Sliders : t # s => v17'[t] = v17[t]
      BY <1>7, <3>1 DEF HostVals
    <3>3. v18' \in BOOLEAN
      BY <1>7, <3>1
    <3>5. PICK n \in States : n.song = v18' /\ n.val = v17' /\ v15' = Append(v15, n)
      BY <1>1, <1>3, <3>1, <3>2, <3>3, PublishTells
    <3>6. n.song = v18' /\ n.val = v17'
      BY <3>5
    <3>7. UNCHANGED <<v1, v2, v3, v16>>
      BY <1>2
    <3>8. /\ KnownInv' /\ v15' \in Seq(DownMsgs)
          /\ \A t : ~NoneIn(v15, Drops(t)) => ~NoneIn(v15', Drops(t))
          /\ NoneIn(v15, RepliesPast(v12)) => NoneIn(v15', RepliesPast(v12))
      BY <1>1, <1>3, <3>5, <3>6, <3>7, StateTold
    <3> QED
      BY <2>0, <3>1, <3>2, <3>8
  <2>2. CASE ~(Hears(s) /\ (s = "seek" \/ v17[s] # v))
    <3>1. UNCHANGED <<v17, v18, v15>>
      BY <1>2, <1>5, <1>6, <1>8, <2>2
    <3>2. KnownInv'
      BY <1>1, <1>2, <3>1 DEF KnownInv
    <3> QED
      BY <1>7, <2>0, <2>2, <3>1, <3>2
  <2> QED
    BY <2>1, <2>2
<1>10. ASSUME NEW t \in Sliders, NEW w \in SliderValues, Hears(t), LandsAt(t, w)
       PROVE  Hears(t)' /\ LandsAt(t, w)'
  <2>1. Hears(t)'
    BY <1>2, <1>9, <1>10 DEF Hears
  <2>2. Read(v14, DragsOf(t), DragsTo(t, w))
    BY <1>3
  <2>3. DragsTo(t, w) \subseteq DragsOf(t)
    BY MsgSets
  <2>4. CASE t = s
    <3>1. m \in DragsOf(t) /\ (m \in DragsTo(t, w) => w = v)
      BY <1>4, <1>5, <1>6, <2>4 DEF DragsOf, DragsTo
    <3>2. /\ ~NoneIn(v14, DragsOf(t))
          /\ LastIn(v14, DragsOf(t), DragsTo(t, w)) =>
               LastIn(v14', DragsOf(t), DragsTo(t, w)) \/ (NoneIn(v14', DragsOf(t)) /\ w = v)
      BY <1>2, <2>2, <3>1 DEF Read, m
    <3>3. v17'[t] = v
      BY <1>9, <1>10, <2>4
    <3> QED
      BY <1>2, <1>10, <2>1, <3>2, <3>3 DEF LandsAt
  <2>5. CASE t # s
    <3>1. m \notin DragsOf(t)
      BY <1>5, <2>5 DEF DragsOf
    <3>2. /\ NoneIn(v14, DragsOf(t)) => NoneIn(v14', DragsOf(t))
          /\ LastIn(v14, DragsOf(t), DragsTo(t, w)) => LastIn(v14', DragsOf(t), DragsTo(t, w))
      BY <1>2, <2>2, <2>3, <3>1 DEF Read, m
    <3>3. v17'[t] = v17[t]
      BY <1>9, <2>5
    <3> QED
      BY <1>2, <1>10, <2>1, <3>2, <3>3 DEF LandsAt
  <2> QED
    BY <2>4, <2>5
<1>11. DraftInv' /\ MovedInv'
  BY <1>1, <1>2, <1>9, <1>10, LandingKept
<1>12. RemKinds'
  BY <1>1, <1>2, <1>3, <1>7, <1>9 DEF RemKinds
<1>13. WireInv'
  BY <1>1, <1>2, <1>3 DEF WireInv
<1>14. AskedInv'
  BY <1>1, <1>2, <1>3, <1>9, AskedKept
<1> QED
  BY <1>9, <1>11, <1>12, <1>13, <1>14 DEF RemInv

\* A search answered at once, or taken on; and an answer to one that was.
LEMMA ReplyKeeps ==
  ASSUME RemInv, UNCHANGED <<v1, v2, v3, v4, v5, v6, v7, v8, v9, v10, v11, v12, v13, v16, v17, v18, v20>>,
         NEW m \in Replies, m.of <= v12, Remote!Tell(m) \/ v15' = v15,
         v14' \in Seq(UpMsgs), NoneIn(v14', SearchesPast(v12)), v1 # "open" => v14' = v14,
         \A t \in Sliders, w \in SliderValues : LandsAt(t, w) => LandsAt(t, w)',
         v19' \subseteq 1..MaxRemoteSearches, \A id \in v19' : id <= v12,
         Cardinality(v19') <= MaxHostSearches
  PROVE  RemInv'
<1>1. RemKinds /\ WireInv /\ AskedInv /\ KnownInv /\ DraftInv /\ MovedInv
  BY DEF RemInv
<1>2. /\ KnownInv' /\ v15' \in Seq(DownMsgs)
      /\ \A s : ~NoneIn(v15, Drops(s)) => ~NoneIn(v15', Drops(s))
      /\ NoneIn(v15, RepliesPast(v12)) => NoneIn(v15', RepliesPast(v12))
      /\ v1 # "open" => v15' = v15
  <2>1. CASE v15' = v15
    BY <1>1, <2>1 DEF KnownInv, RemKinds
  <2>2. CASE v15' # v15
    <3>1. v1 = "open" /\ v15' = Append(v15, m)
      BY <2>2 DEF Remote!Tell
    <3> QED
      BY <1>1, <3>1, ReplyTold
  <2> QED
    BY <2>1, <2>2
<1>3. \A s : Hears(s)' = Hears(s)
  BY DEF Hears
<1>4. DraftInv' /\ MovedInv'
  BY <1>1, <1>2, <1>3, LandingKept
<1>5. RemKinds'
  BY <1>1, <1>2 DEF RemKinds
<1>6. WireInv'
  BY <1>1, <1>2 DEF WireInv
<1>7. AskedInv'
  BY <1>1, <1>2 DEF AskedInv
<1> QED
  BY <1>2, <1>4, <1>5, <1>6, <1>7 DEF RemInv

LEMMA WorkingFinite ==
  ASSUME NEW S, S \subseteq 1..MaxRemoteSearches
  PROVE  IsFiniteSet(S) /\ Cardinality(S) \in Nat /\ Remote!Cardinality(S) = Cardinality(S)
<1>1. IsFiniteSet(1..MaxRemoteSearches)
  BY RemBounds, FS_Interval
<1>2. IsFiniteSet(S)
  BY <1>1, FS_Subset
<1> QED
  BY <1>2, FS_CardinalityType DEF Remote!Cardinality, Cardinality

LEMMA RunSearchStep ==
  ASSUME RemInv, Remote!RunSearch
  PROVE  RemInv'
<1> DEFINE m == Head(v14)
<1>1. RemKinds /\ AskedInv
  BY DEF RemInv
<1>2. /\ v14 # <<>> /\ m.kind = "search" /\ v14' = Tail(v14)
      /\ UNCHANGED <<v1, v2, v3, v4, v5, v6, v7, v8, v9, v10, v11, v12, v13, v16, v17, v18, v20>>
      /\ IF ~v16 THEN UNCHANGED <<v19, v15>>
         ELSE IF Remote!Cardinality(v19) >= MaxHostSearches
         THEN Remote!Tell([kind |-> "reply", of |-> m.of, is |-> "error"]) /\ v19' = v19
         ELSE v19' = v19 \union {m.of} /\ v15' = v15
  BY DEF Remote!RunSearch, Remote!search, Remote!sliders
<1> HIDE DEF m
<1>3. /\ v1 = "open" /\ m \in UpMsgs /\ v14' \in Seq(UpMsgs)
      /\ NoneIn(v14', SearchesPast(v12)) /\ m \notin SearchesPast(v12)
      /\ \A s, w : Read(v14, DragsOf(s), DragsTo(s, w))
  BY <1>2, FirstUp DEF m
<1>4. m \in SearchMsgs /\ m.of \in 1..MaxRemoteSearches /\ (\A s : m \notin DragsOf(s))
  BY <1>2, <1>3, MsgKinds DEF SearchMsgs, DragsOf, DragMsgs
<1>5. m.of <= v12
  BY <1>3, <1>4 DEF SearchesPast
<1>6. PICK r \in Replies : r = [kind |-> "reply", of |-> m.of, is |-> "error"]
  BY <1>4 DEF Replies
<1>7. r.of <= v12
  BY <1>5, <1>6
<1>8. Remote!Tell(r) \/ v15' = v15
  BY <1>2, <1>6
<1>9. /\ v19' \subseteq 1..MaxRemoteSearches /\ \A id \in v19' : id <= v12
      /\ Cardinality(v19') <= MaxHostSearches
  <2>1. v19 \subseteq 1..MaxRemoteSearches /\ (\A id \in v19 : id <= v12) /\ Cardinality(v19) <= MaxHostSearches
    BY <1>1 DEF RemKinds, AskedInv
  <2>2. CASE v19' = v19
    BY <2>1, <2>2
  <2>3. CASE v19' # v19
    <3>1. v19' = v19 \union {m.of} /\ ~(Remote!Cardinality(v19) >= MaxHostSearches)
      BY <1>2, <2>3
    <3>2. IsFiniteSet(v19) /\ Cardinality(v19) \in Nat /\ Remote!Cardinality(v19) = Cardinality(v19)
      BY <2>1, WorkingFinite
    <3>3. PICK o : o = m.of /\ o \in 1..MaxRemoteSearches /\ o <= v12
      BY <1>4, <1>5
    <3>4. Cardinality(v19 \union {o}) = IF o \in v19 THEN Cardinality(v19) ELSE Cardinality(v19) + 1
      BY <3>2, FS_AddElement
    <3>5. Cardinality(v19 \union {o}) <= MaxHostSearches
      BY <3>1, <3>2, <3>4, RemBounds
    <3> QED
      BY <2>1, <3>1, <3>3, <3>5
  <2> QED
    BY <2>2, <2>3
<1>10. ASSUME NEW t \in Sliders, NEW w \in SliderValues, LandsAt(t, w) PROVE LandsAt(t, w)'
  <2>1. Read(v14, DragsOf(t), DragsTo(t, w)) /\ DragsTo(t, w) \subseteq DragsOf(t)
    BY <1>3, MsgSets
  <2>2. /\ NoneIn(v14, DragsOf(t)) => NoneIn(v14', DragsOf(t))
        /\ LastIn(v14, DragsOf(t), DragsTo(t, w)) => LastIn(v14', DragsOf(t), DragsTo(t, w))
    BY <1>2, <1>4, <2>1 DEF Read, m
  <2> QED
    BY <1>2, <1>10, <2>2 DEF LandsAt
<1> QED
  BY <1>2, <1>3, <1>7, <1>8, <1>9, <1>10, ReplyKeeps

LEMMA AnswerStep ==
  ASSUME RemInv, NEW id \in v19, Remote!Answer(id)
  PROVE  RemInv'
<1>1. RemKinds /\ AskedInv
  BY DEF RemInv
<1>2. PICK is \in {"results", "no-results", "error"} : Remote!Tell([kind |-> "reply", of |-> id, is |-> is])
  BY DEF Remote!Answer
<1>3. /\ v19' = v19 \ {id}
      /\ UNCHANGED <<v1, v2, v3, v4, v5, v6, v7, v8, v9, v10, v11, v12, v13, v14, v16, v17, v18, v20>>
  BY DEF Remote!Answer, Remote!search, Remote!sliders
<1>4. v19 \subseteq 1..MaxRemoteSearches /\ (\A k \in v19 : k <= v12) /\ Cardinality(v19) <= MaxHostSearches
  BY <1>1 DEF RemKinds, AskedInv
<1>5. PICK r \in Replies : r = [kind |-> "reply", of |-> id, is |-> is]
  BY <1>4 DEF Replies
<1>6. r.of <= v12 /\ Remote!Tell(r)
  BY <1>2, <1>4, <1>5
<1>7. Cardinality(v19') <= MaxHostSearches
  <2>1. IsFiniteSet(v19) /\ Cardinality(v19) \in Nat
    BY <1>4, WorkingFinite
  <2>2. PICK S : S = v19 \ {id}
    OBVIOUS
  <2>3. Cardinality(S) <= Cardinality(v19) /\ Cardinality(S) \in Nat
    BY <2>1, <2>2, FS_Subset, FS_CardinalityType
  <2>4. Cardinality(S) <= MaxHostSearches
    BY <1>4, <2>1, <2>3, RemBounds
  <2> QED
    BY <1>3, <2>2, <2>4
<1>8. v14' \in Seq(UpMsgs) /\ NoneIn(v14', SearchesPast(v12))
  BY <1>1, <1>3 DEF RemKinds, AskedInv
<1>9. \A t, w : LandsAt(t, w)' = LandsAt(t, w)
  BY <1>3 DEF LandsAt
<1>10. v19' \subseteq 1..MaxRemoteSearches /\ \A k \in v19' : k <= v12
  BY <1>3, <1>4
<1> QED
  BY <1>3, <1>6, <1>7, <1>8, <1>9, <1>10, ReplyKeeps

LEMMA NextSongStep ==
  ASSUME RemInv, "seek" \notin Sliders, Remote!NextSong
  PROVE  RemInv'
<1>1. RemKinds /\ WireInv /\ AskedInv /\ KnownInv /\ DraftInv /\ MovedInv
  BY DEF RemInv
<1>2. /\ v16 /\ v18' = ~v18 /\ v17' = [s \in Sliders |-> IF s = "volume" THEN v17[s] ELSE 0]
      /\ Remote!Publish /\ v20' = [s \in Sliders |-> IF s = "volume" THEN v20[s] ELSE 9]
      /\ UNCHANGED <<v1, v2, v3, v4, v5, v6, v7, v8, v9, v10, v11, v12, v13, v14, v16, v19>>
  BY RemBounds DEF Remote!NextSong, Remote!search
<1>3. v16 = TRUE /\ v18 \in BOOLEAN /\ v17 \in HostVals /\ v20 \in Drafts /\ v15 \in Seq(DownMsgs)
  BY <1>1, <1>2 DEF RemKinds
<1>4. /\ v18' \in BOOLEAN /\ v17' \in HostVals /\ v20' \in Drafts
      /\ \A s \in Sliders : s = "volume" => v17'[s] = v17[s] /\ v20'[s] = v20[s]
      /\ \A s \in Sliders : s # "volume" => v20'[s] = 9
  BY <1>2, <1>3 DEF HostVals, Drafts
<1>5. CASE v1 = "open"
  <2>1. PICK n \in States : n.song = v18' /\ n.val = v17' /\ v15' = Append(v15, n)
    BY <1>1, <1>2, <1>4, <1>5, PublishTells
  <2>2. UNCHANGED <<v1, v2, v3, v16>>
    BY <1>2
  <2>3. /\ KnownInv' /\ v15' \in Seq(DownMsgs)
        /\ \A s : ~NoneIn(v15, Drops(s)) => ~NoneIn(v15', Drops(s))
        /\ n.song = FALSE => ~NoneIn(v15', Drops("track"))
        /\ NoneIn(v15, RepliesPast(v12)) => NoneIn(v15', RepliesPast(v12))
    BY <1>1, <1>5, <2>1, <2>2, StateTold
  <2>4. ASSUME NEW s \in Sliders, s = "volume", NEW w, LandsAt(s, w)
        PROVE  Hears(s)' /\ LandsAt(s, w)'
    <3>1. v17'[s] = v17[s]
      BY <1>4, <2>4
    <3> QED
      BY <1>2, <1>3, <2>4, <3>1 DEF Hears, LandsAt
  <2>5. ASSUME NEW s \in Sliders, v4[s] # 9
        PROVE  /\ v2' = TRUE /\ s \in v8' \union v5'
               /\ (Hears(s)' /\ LandsAt(s, v4[s])') \/ ~NoneIn(v15', Drops(s))
    <3>1. v2 = TRUE /\ s \in v8 \union v5 /\ ((Hears(s) /\ LandsAt(s, v4[s])) \/ ~NoneIn(v15, Drops(s)))
      BY <1>1, <1>5, <2>5 DEF DraftInv
    <3>2. CASE ~NoneIn(v15, Drops(s))
      BY <1>2, <2>3, <3>1, <3>2
    <3>3. CASE Hears(s) /\ LandsAt(s, v4[s]) /\ s = "volume"
      <4>1. PICK w : w = v4[s]
        OBVIOUS
      <4>2. LandsAt(s, w) /\ w = v4'[s]
        BY <1>2, <3>3, <4>1
      <4>3. Hears(s)' /\ LandsAt(s, w)'
        BY <2>4, <3>3, <4>2
      <4>4. LandsAt(s, w)' = LandsAt(s, v4[s])'
        BY <4>2 DEF LandsAt
      <4> QED
        BY <1>2, <3>1, <4>3, <4>4
    <3>4. CASE Hears(s) /\ s # "volume"
      <4>1. s = "track"
        BY <3>4, RemBounds
      <4>2. n.song = FALSE
        BY <1>2, <2>1, <3>4, <4>1 DEF Hears
      <4> QED
        BY <1>2, <2>3, <3>1, <4>1, <4>2
    <3> QED
      BY <3>1, <3>2, <3>3, <3>4
  <2>6. ASSUME NEW s \in Sliders, v20'[s] # 9
        PROVE  v2' = TRUE /\ Hears(s)' /\ LandsAt(s, v20[s])'
    <3>1. s = "volume" /\ v20'[s] = v20[s]
      BY <1>4, <2>6
    <3>2. v2 = TRUE /\ LandsAt(s, v20[s])
      BY <1>1, <1>5, <2>6, <3>1 DEF MovedInv
    <3>3. PICK w : w = v20[s]
      OBVIOUS
    <3>4. LandsAt(s, w) /\ w = v20'[s]
      BY <3>1, <3>2, <3>3
    <3>5. Hears(s)' /\ LandsAt(s, w)'
      BY <2>4, <3>1, <3>4
    <3>6. LandsAt(s, w)' = LandsAt(s, v20[s])'
      BY <3>4 DEF LandsAt
    <3> QED
      BY <1>2, <3>2, <3>5, <3>6
  <2>7. DraftInv'
    BY <1>2, <2>5 DEF DraftInv
  <2>8. MovedInv'
    BY <2>6 DEF MovedInv
  <2>9. RemKinds'
    BY <1>1, <1>2, <1>4, <2>3 DEF RemKinds
  <2>10. WireInv'
    BY <1>1, <1>2, <1>5 DEF WireInv
  <2>11. AskedInv'
    BY <1>1, <1>2, <2>3, AskedKept
  <2> QED
    BY <2>3, <2>7, <2>8, <2>9, <2>10, <2>11 DEF RemInv
<1>6. CASE v1 # "open"
  <2>1. v15' = v15
    BY <1>2, <1>6 DEF Remote!Publish, Remote!Tell
  <2>2. KnownInv' /\ DraftInv' /\ MovedInv'
    BY <1>2, <1>6 DEF KnownInv, DraftInv, MovedInv
  <2>3. RemKinds'
    BY <1>1, <1>2, <1>4, <2>1 DEF RemKinds
  <2>4. \A s \in Sliders : v20[s] = 9 => v20'[s] = 9
    BY <1>4
  <2>5. WireInv'
    BY <1>1, <1>2, <2>1, <2>4 DEF WireInv
  <2>6. AskedInv'
    BY <1>1, <1>2, <2>1, AskedKept
  <2> QED
    BY <2>2, <2>3, <2>5, <2>6 DEF RemInv
<1> QED
  BY <1>5, <1>6

LEMMA RepublishStep ==
  ASSUME RemInv, Remote!Republish
  PROVE  RemInv'
<1>1. RemKinds /\ WireInv /\ AskedInv /\ KnownInv /\ DraftInv /\ MovedInv
  BY DEF RemInv
<1>2. /\ v1 = "open" /\ Remote!Tell(Remote!State)
      /\ UNCHANGED <<v1, v2, v3, v4, v5, v6, v7, v8, v9, v10, v11, v12, v13, v14, v16, v17, v18, v19, v20>>
  BY DEF Remote!Republish, Remote!search, Remote!sliders, Remote!host
<1>3. PICK n \in States : n = Remote!State /\ n.song = v18 /\ n.val = v17
  BY <1>1, HostState
<1>4. v15' = Append(v15, n) /\ n.song = v18' /\ n.val = v17'
  BY <1>2, <1>3 DEF Remote!Tell
<1>5. UNCHANGED <<v1, v2, v3, v16>>
  BY <1>2
<1>6. /\ KnownInv' /\ v15' \in Seq(DownMsgs)
      /\ \A s : ~NoneIn(v15, Drops(s)) => ~NoneIn(v15', Drops(s))
      /\ NoneIn(v15, RepliesPast(v12)) => NoneIn(v15', RepliesPast(v12))
  BY <1>1, <1>2, <1>4, <1>5, StateTold
<1>7. (\A s : Hears(s)' = Hears(s)) /\ \A s, w : LandsAt(s, w)' = LandsAt(s, w)
  BY <1>2 DEF Hears, LandsAt
<1>8. DraftInv' /\ MovedInv'
  BY <1>1, <1>2, <1>6, <1>7, LandingKept
<1>9. RemKinds'
  BY <1>1, <1>2, <1>6 DEF RemKinds
<1>10. WireInv'
  BY <1>1, <1>2 DEF WireInv
<1>11. AskedInv'
  BY <1>1, <1>2, <1>6, AskedKept
<1> QED
  BY <1>6, <1>8, <1>9, <1>10, <1>11 DEF RemInv

LEMMA HostGoesStep ==
  ASSUME RemInv, Remote!HostGoes
  PROVE  RemInv'
<1>1. RemKinds /\ WireInv /\ AskedInv /\ KnownInv /\ DraftInv
  BY DEF RemInv
<1>2. /\ v16' = FALSE /\ v19' = {} /\ v20' = Remote!Nowhere
      /\ Remote!Tell([kind |-> "host", here |-> FALSE])
      /\ UNCHANGED <<v1, v2, v3, v4, v5, v6, v7, v8, v9, v10, v11, v12, v13, v14, v17, v18>>
  BY DEF Remote!HostGoes, Remote!search
<1>3. PICK n \in Presences : n = [kind |-> "host", here |-> FALSE]
  BY DEF Presences
<1>4. v20' \in Drafts /\ \A s \in Sliders : v20'[s] = 9
  BY <1>2, NowhereIs
<1>5. /\ v15' \in Seq(DownMsgs) /\ KnownInv'
      /\ NoneIn(v15', RepliesPast(v12))
      /\ v1 # "open" => v15' = v15
      /\ v1 = "open" => \A s : ~NoneIn(v15', Drops(s))
  <2>0. NoneIn(v15, RepliesPast(v12)) /\ v15 \in Seq(DownMsgs)
    BY <1>1 DEF AskedInv, RemKinds
  <2>1. CASE v1 = "open"
    <3>1. v15' = Append(v15, n) /\ n.here = v16' /\ n.here = FALSE
      BY <1>2, <1>3, <2>1 DEF Remote!Tell
    <3>2. UNCHANGED <<v1, v2, v3, v17, v18>>
      BY <1>2
    <3>3. /\ KnownInv' /\ v15' \in Seq(DownMsgs)
          /\ \A s : ~NoneIn(v15', Drops(s))
          /\ NoneIn(v15, RepliesPast(v12)) => NoneIn(v15', RepliesPast(v12))
      BY <1>1, <2>1, <3>1, <3>2, PresenceTold
    <3> QED
      BY <2>0, <2>1, <3>3
  <2>2. CASE v1 # "open"
    <3>1. v15' = v15 /\ v1' # "open"
      BY <1>2, <2>2 DEF Remote!Tell
    <3> QED
      BY <2>0, <2>2, <3>1 DEF KnownInv
  <2> QED
    BY <2>1, <2>2
<1>6. DraftInv'
  BY <1>1, <1>2, <1>5 DEF DraftInv
<1>7. MovedInv'
  BY <1>4 DEF MovedInv
<1>8. RemKinds'
  BY <1>1, <1>2, <1>4, <1>5 DEF RemKinds
<1>9. WireInv'
  BY <1>1, <1>2, <1>4, <1>5 DEF WireInv
<1>10. Cardinality(v19') <= MaxHostSearches
  <2>1. Cardinality({}) = 0 /\ 0 <= MaxHostSearches
    BY FS_EmptySet, RemBounds
  <2> QED
    BY <1>2, <2>1
<1>11. AskedInv'
  BY <1>1, <1>2, <1>5, <1>10 DEF AskedInv
<1> QED
  BY <1>5, <1>6, <1>7, <1>8, <1>9, <1>11 DEF RemInv

LEMMA HostComesStep ==
  ASSUME RemInv, Remote!HostComes
  PROVE  RemInv'
<1>1. RemKinds /\ WireInv /\ AskedInv /\ KnownInv /\ DraftInv
  BY DEF RemInv
<1>2. /\ ~v16 /\ v16' = TRUE /\ v20' = Remote!Nowhere
      /\ v15' = (IF v1 = "open" THEN v15 \o <<[kind |-> "host", here |-> TRUE], Remote!State>> ELSE v15)
      /\ UNCHANGED <<v1, v2, v3, v4, v5, v6, v7, v8, v9, v10, v11, v12, v13, v14, v17, v18, v19>>
  BY DEF Remote!HostComes, Remote!search
<1>3. PICK a \in Presences : a = [kind |-> "host", here |-> TRUE]
  BY DEF Presences
<1>4. PICK b \in States : b = Remote!State /\ b.song = v18 /\ b.val = v17
  BY <1>1, HostState
<1>5. v20' \in Drafts /\ \A s \in Sliders : v20'[s] = 9
  BY <1>2, NowhereIs
<1>6. a \in DownMsgs /\ b \in DownMsgs /\ v15 \in Seq(DownMsgs)
  BY <1>1 DEF DownMsgs, RemKinds
<1>7. /\ v15' \in Seq(DownMsgs) /\ KnownInv'
      /\ NoneIn(v15', RepliesPast(v12))
      /\ v1 # "open" => v15' = v15
      /\ v1 = "open" => \A s : ~NoneIn(v15, Drops(s)) => ~NoneIn(v15', Drops(s))
  <2>0. NoneIn(v15, RepliesPast(v12))
    BY <1>1 DEF AskedInv
  <2>1. CASE v1 = "open"
    <3> DEFINE q == Append(v15, a)
    <3>1. v15' = Append(q, b)
      <4>1. v15' = v15 \o <<a, b>>
        BY <1>2, <1>3, <1>4, <2>1
      <4>2. v15 \o <<a, b>> = Append(Append(v15, a), b)
        BY <1>6, JoinTwo
      <4> QED
        BY <4>1, <4>2
    <3>2. /\ q \in Seq(DownMsgs)
          /\ \A x : Appended(v15, a, Greetings, Greeting(x))
          /\ \A s : Appended(v15, a, Drops(s), Drops(s))
          /\ \A w : Appended(v15, a, RepliesPast(w), RepliesPast(w))
      BY <1>6, DownAppended
    <3> HIDE DEF q
    <3>3. /\ v15' \in Seq(DownMsgs)
          /\ \A x, y : Appended(q, b, Tellings, Telling(x, y))
          /\ \A x : Appended(q, b, Greetings, Greeting(x))
          /\ \A s : Appended(q, b, Drops(s), Drops(s))
          /\ \A w : Appended(q, b, RepliesPast(w), RepliesPast(w))
      BY <1>6, <3>1, <3>2, DownAppended
    <3>12. a.here = TRUE
      BY <1>3
    <3>4. /\ a \in Greeting(TRUE) /\ (\A w : a \notin RepliesPast(w))
          /\ b \in Telling(v18, v17) /\ b \notin Greetings /\ (\A w : b \notin RepliesPast(w))
      BY <1>3, <1>4, <3>12 DEF Greeting, Greetings, Telling, Tellings, RepliesPast, Replies, Presences, States, Hellos
    <3>5. LastIn(v15', Tellings, Telling(v18, v17))
      BY <3>1, <3>3, <3>4 DEF Appended
    <3>6. LastIn(q, Greetings, Greeting(TRUE))
      BY <3>2, <3>4 DEF Appended, q
    <3>7. LastIn(v15', Greetings, Greeting(TRUE))
      BY <3>1, <3>3, <3>4, <3>6 DEF Appended
    <3>8. KnownInv'
      BY <1>2, <3>5, <3>7 DEF KnownInv
    <3>9. NoneIn(q, RepliesPast(v12))
      BY <2>0, <3>2, <3>4 DEF Appended, q
    <3>10. NoneIn(v15', RepliesPast(v12))
      BY <3>1, <3>3, <3>4, <3>9 DEF Appended
    <3>11. ASSUME NEW s, NoneIn(v15', Drops(s)) PROVE NoneIn(v15, Drops(s))
      <4>1. NoneIn(q, Drops(s))
        BY <3>1, <3>3, <3>11 DEF Appended
      <4> QED
        BY <3>2, <4>1 DEF Appended, q
    <3> QED
      BY <2>1, <3>3, <3>8, <3>10, <3>11
  <2>2. CASE v1 # "open"
    <3>1. v15' = v15 /\ v1' # "open"
      BY <1>2, <2>2
    <3> QED
      BY <1>6, <2>0, <2>2, <3>1 DEF KnownInv
  <2> QED
    BY <2>1, <2>2
<1>8. DraftInv'
  <2>1. \A s \in Sliders : ~Hears(s)
    BY <1>2 DEF Hears
  <2> QED
    BY <1>1, <1>2, <1>7, <2>1 DEF DraftInv
<1>9. MovedInv'
  BY <1>5 DEF MovedInv
<1>10. RemKinds'
  BY <1>1, <1>2, <1>5, <1>7 DEF RemKinds
<1>11. WireInv'
  BY <1>1, <1>2, <1>5, <1>7 DEF WireInv
<1>12. AskedInv'
  BY <1>1, <1>2, <1>7, AskedKept
<1> QED
  BY <1>7, <1>8, <1>9, <1>10, <1>11, <1>12 DEF RemInv

LEMMA RemoteInitHolds ==
  ASSUME Remote!RemoteInit
  PROVE  RemInv
<1>1. /\ v1 = "connecting" /\ v2 = FALSE /\ v4 = Remote!Nowhere /\ v5 = {} /\ v6 = Remote!Nowhere
      /\ v7 = {} /\ v8 = {} /\ v20 = Remote!Nowhere /\ v9 = 0 /\ v10 = 0 /\ v11 = "idle" /\ v12 = 0 /\ v13 = 0
      /\ v14 = <<>> /\ v15 = <<>> /\ v16 = TRUE /\ v18 = TRUE /\ v19 = {}
      /\ v3 = [song |-> FALSE, val |-> [s \in Sliders |-> 0]] /\ v17 = [s \in Sliders |-> 0]
  BY DEF Remote!RemoteInit
<1>2. v17 \in HostVals /\ v3 \in [song : BOOLEAN, val : HostVals]
  BY <1>1 DEF HostVals
<1>3. v14 \in Seq(UpMsgs) /\ v15 \in Seq(DownMsgs) /\ 0 \in 0..MaxRemoteSearches
  BY <1>1, EmptySeq, RemBounds
<1>4. RemKinds
  BY <1>1, <1>2, <1>3, NowhereIs DEF RemKinds
<1>5. WireInv
  BY <1>1, NowhereIs DEF WireInv
<1>6. Cardinality(v19) <= MaxHostSearches
  BY <1>1, FS_EmptySet, RemBounds
<1>7. NoneIn(v14, SearchesPast(v12)) /\ NoneIn(v15, RepliesPast(v12)) /\ v12 <= v9
  BY <1>1, EmptyEnds
<1>8. AskedInv
  BY <1>1, <1>6, <1>7 DEF AskedInv
<1>9. KnownInv /\ DraftInv /\ MovedInv
  BY <1>1 DEF KnownInv, DraftInv, MovedInv
<1> QED
  BY <1>4, <1>5, <1>8, <1>9 DEF RemInv

LEMMA RemoteNextKeeps ==
  ASSUME RemInv, "seek" \notin Sliders, Remote!RemoteNext
  PROVE  RemInv'
<1>1. \/ \E s \in Sliders : (\E v \in SliderValues : Remote!Drag(s, v)) \/ Remote!TimerFlush(s) \/ Remote!Release(s)
      \/ Remote!SetTab \/ Remote!Hello \/ Remote!OnState \/ Remote!OnHost \/ Remote!OnReply
      \/ Remote!Search \/ Remote!SearchTimedOut \/ Remote!Lose \/ Remote!Open
      \/ Remote!RunDrag \/ Remote!RunSearch \/ (\E id \in v19 : Remote!Answer(id)) \/ Remote!NextSong
      \/ Remote!Republish \/ Remote!HostGoes \/ Remote!HostComes \/ Remote!Dispose
  BY DEF Remote!RemoteNext
<1>2. ASSUME NEW s \in Sliders, NEW v \in SliderValues, Remote!Drag(s, v) PROVE RemInv'
  BY <1>2, DragStep
<1>3. ASSUME NEW s \in Sliders, Remote!TimerFlush(s) PROVE RemInv'
  BY <1>3, TimerFlushStep
<1>4. ASSUME NEW s \in Sliders, Remote!Release(s) PROVE RemInv'
  BY <1>4, ReleaseStep
<1>5. ASSUME NEW id \in v19, Remote!Answer(id) PROVE RemInv'
  BY <1>5, AnswerStep
<1> QED
  BY <1>1, <1>2, <1>3, <1>4, <1>5, SetTabStep, HelloStep, OnStateStep, OnHostStep, OnReplyStep, SearchStep,
     TimedOutStep, RemoteLoseStep, RemoteOpenStep, RunDragStep, RunSearchStep, NextSongStep, RepublishStep, HostGoesStep,
     HostComesStep, DisposeStep

LEMMA RemoteSame ==
  ASSUME RemInv,
         UNCHANGED <<v1, v2, v3, v4, v5, v6, v7, v8, v9, v10, v11, v12, v13, v14, v15, v16, v17, v18, v19, v20>>
  PROVE  RemInv'
<1>1. RemKinds' /\ WireInv' /\ AskedInv' /\ KnownInv'
  BY DEF RemInv, RemKinds, WireInv, AskedInv, KnownInv
<1>2. (\A s : Hears(s)' = Hears(s)) /\ \A s, w : LandsAt(s, w)' = LandsAt(s, w)
  BY DEF Hears, LandsAt
<1>3. DraftInv' /\ MovedInv'
  BY <1>2, LandingKept DEF RemInv
<1> QED
  BY <1>1, <1>3 DEF RemInv

\* What is on its way of a slider, in the remote's own words.
LEMMA LandsIs ==
  ASSUME RemKinds, NEW s \in Sliders, NEW v
  PROVE  LandsAt(s, v) => Remote!Lands(s, v)
<1>1. \A i \in DOMAIN v14 : v14[i] \in UpMsgs
  BY LenProperties DEF RemKinds
<1>2. \A i \in DOMAIN v14 : v14[i] \in DragsOf(s) <=> i \in Remote!SentOf(s)
  BY <1>1, MsgKinds DEF Remote!SentOf, DragsOf, DragMsgs
<1>3. NoneIn(v14, DragsOf(s)) => Remote!SentOf(s) = {}
  BY <1>2 DEF NoneIn, Remote!SentOf
<1>4. LastIn(v14, DragsOf(s), DragsTo(s, v)) =>
        \E i \in Remote!SentOf(s) : v14[i].val = v /\ \A j \in Remote!SentOf(s) : j <= i
  <2> SUFFICES ASSUME NEW i \in DOMAIN v14, v14[i] \in DragsTo(s, v),
                      \A j \in DOMAIN v14 : v14[j] \in DragsOf(s) => j <= i
               PROVE  \E k \in Remote!SentOf(s) : v14[k].val = v /\ \A j \in Remote!SentOf(s) : j <= k
    BY DEF LastIn
  <2>1. i \in Remote!SentOf(s) /\ v14[i].val = v
    BY <1>2 DEF DragsTo, DragsOf
  <2>2. \A j \in Remote!SentOf(s) : j <= i
    BY <1>2 DEF Remote!SentOf
  <2> QED
    BY <2>1, <2>2
<1> QED
  BY <1>3, <1>4, RemBounds DEF LandsAt, Remote!Lands

LEMMA RemoteHolds ==
  ASSUME RemInv
  PROVE  Remote!RemoteTypes /\ Remote!RemoteRight
<1>1. RemKinds /\ WireInv /\ AskedInv /\ KnownInv /\ DraftInv /\ MovedInv
  BY DEF RemInv
<1>2. Remote!RemoteTypes
  <2>1. Remote!Cardinality(v19) = Cardinality(v19)
    BY <1>1, WorkingFinite DEF RemKinds
  <2> QED
    BY <1>1, <2>1, RemBounds DEF RemKinds, AskedInv, Remote!RemoteTypes, Drafts
<1>3. Remote!DraftsEnd
  BY <1>1, RemBounds DEF DraftInv, Remote!DraftsEnd
<1>4. Remote!SearchSettles
  BY <1>1 DEF AskedInv, Remote!SearchSettles
<1>5. Remote!ResultsAreOfLast
  BY <1>1 DEF AskedInv, Remote!ResultsAreOfLast
<1>6. Remote!DragLands
  BY <1>1, RemBounds, LandsIs DEF MovedInv, Remote!DragLands
<1>7. Remote!ShowsHost
  <2> SUFFICES ASSUME v1 = "open", v2, v14 = <<>>, v15 = <<>>, v7 = {}, v8 = {}
               PROVE  /\ v3 = [song |-> v18, val |-> v17]
                      /\ \A s \in Sliders : v4[s] \in {9, v17[s]}
    BY RemBounds DEF Remote!ShowsHost, Remote!Quiet, Remote!Connected, Remote!Mounted
  <2>1. v3 = [song |-> v18, val |-> v17]
    BY <1>1, EmptyEnds DEF KnownInv
  <2>2. ASSUME NEW s \in Sliders, v4[s] # 9 PROVE v4[s] = v17[s]
    <3>1. LandsAt(s, v4[s])
      BY <1>1, <2>2, EmptyEnds DEF DraftInv
    <3>2. ~LastIn(v14, DragsOf(s), DragsTo(s, v4[s]))
      BY EmptyEnds
    <3> QED
      BY <3>1, <3>2 DEF LandsAt
  <2> QED
    BY <2>1, <2>2
<1> QED
  BY <1>2, <1>3, <1>4, <1>5, <1>6, <1>7 DEF Remote!RemoteRight

RemotePlacesInv == part = "remote" => RemInv

\* RemoteControl, of sliders that the host's state doesn't disable: whatever
\* is dragged, lost, reconnected, overtaken or answered late, a draft ends, what
\* a slider is left at gets to the host, the results are of the last search,
\* and at rest the remote shows what the host has.
THEOREM RemoteIsSafe ==
  ASSUME "seek" \notin Sliders
  PROVE  RemotePartSpec => []RemoteSafe
<1> DEFINE Step == part' = part /\ (part = "remote" => Remote!RemoteNext)
<1>1. (part = "remote" => Remote!RemoteInit) => RemotePlacesInv
  BY RemoteInitHolds DEF RemotePlacesInv
<1>2. RemotePlacesInv /\ [Step]_<<part, places>> => RemotePlacesInv'
  <2> SUFFICES ASSUME RemotePlacesInv, [Step]_<<part, places>>, part' = "remote"
               PROVE  RemInv'
    BY DEF RemotePlacesInv
  <2>1. CASE Step
    BY <2>1, RemoteNextKeeps DEF RemotePlacesInv
  <2>2. CASE UNCHANGED <<part, places>>
    <3>1. /\ UNCHANGED <<v1, v2, v3, v4, v5, v6, v7, v8, v9, v10, v11, v12, v13, v14, v15, v16, v17, v18, v19, v20>>
          /\ part' = part
      BY <2>2 DEF places
    <3> QED
      BY <3>1, RemoteSame DEF RemotePlacesInv
  <2> QED
    BY <2>1, <2>2
<1>3. RemotePlacesInv => RemoteSafe
  BY RemoteHolds DEF RemotePlacesInv, RemoteSafe
<1> QED
  BY <1>1, <1>2, <1>3, PTL DEF RemotePartSpec
=============================================================================
