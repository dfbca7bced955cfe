----------------------------- MODULE Page_proof -----------------------------
(***************************************************************************)
(* For every value of the page's constants: the inductive invariants of     *)
(* its parts, and what they keep.                                           *)
(***************************************************************************)
EXTENDS Page, SequenceLemmas, FiniteSetTheorems

\* What is left of a sequence without its n-th element.
LEMMA RemovedAt ==
  ASSUME NEW S, NEW s \in Seq(S), NEW n \in DOMAIN s
  PROVE  /\ RemoveAt(s, n) \in Seq(S)
         /\ Len(s) \in Nat /\ n \in 1..Len(s)
         /\ Len(RemoveAt(s, n)) = Len(s) - 1
         /\ DOMAIN RemoveAt(s, n) = 1..(Len(s) - 1)
         /\ \A k \in 1..(Len(s) - 1) : RemoveAt(s, n)[k] = s[IF k < n THEN k ELSE k + 1]
<1>1. Len(s) \in Nat /\ DOMAIN s = 1..Len(s) /\ n \in 1..Len(s)
  BY LenProperties
<1> DEFINE a == SubSeq(s, 1, n - 1)
           b == SubSeq(s, n + 1, Len(s))
<1>2. /\ a \in Seq(S) /\ Len(a) = n - 1
      /\ \A k \in 1..(n - 1) : a[k] = s[k]
  BY <1>1, SubSeqProperties
<1>3. /\ b \in Seq(S) /\ Len(b) = Len(s) - n
      /\ \A k \in 1..(Len(s) - n) : b[k] = s[n + k]
  BY <1>1, SubSeqProperties
<1>4. /\ a \o b \in Seq(S) /\ Len(a \o b) = Len(s) - 1
      /\ \A k \in 1..(n - 1) : (a \o b)[k] = s[k]
      /\ \A k \in (n)..(Len(s) - 1) : (a \o b)[k] = b[k - (n - 1)]
  <2> HIDE DEF a, b
  <2>1. /\ a \o b \in Seq(S) /\ Len(a \o b) = Len(a) + Len(b)
        /\ \A k \in 1..(Len(a) + Len(b)) : (a \o b)[k] = IF k <= Len(a) THEN a[k] ELSE b[k - Len(a)]
    BY <1>2, <1>3, ConcatProperties
  <2>2. Len(a) + Len(b) = Len(s) - 1
    BY <1>1, <1>2, <1>3
  <2>3. ASSUME NEW k \in 1..(n - 1)
        PROVE  (a \o b)[k] = s[k]
    BY <1>1, <1>2, <1>3, <2>1, <2>2
  <2>4. ASSUME NEW k \in (n)..(Len(s) - 1)
        PROVE  (a \o b)[k] = b[k - (n - 1)]
    <3>1. k \in 1..(Len(a) + Len(b)) /\ ~(k <= Len(a)) /\ Len(a) = n - 1
      BY <1>1, <1>2, <1>3, <2>2
    <3>2. (a \o b)[k] = IF k <= Len(a) THEN a[k] ELSE b[k - Len(a)]
      BY <2>1, <3>1
    <3> QED
      BY <3>1, <3>2
  <2> QED
    BY <2>1, <2>2, <2>3, <2>4
<1>5. \A k \in (n)..(Len(s) - 1) : (a \o b)[k] = s[k + 1]
  <2> HIDE DEF a, b
  <2> TAKE k \in (n)..(Len(s) - 1)
  <2>1. k - (n - 1) \in 1..(Len(s) - n) /\ n + (k - (n - 1)) = k + 1
    BY <1>1
  <2> QED
    BY <2>1, <1>1, <1>3, <1>4
<1>6. RemoveAt(s, n) = a \o b
  BY DEF RemoveAt
<1>7. DOMAIN (a \o b) = 1..(Len(s) - 1)
  <2> HIDE DEF a, b
  <2>1. DOMAIN (a \o b) = 1..Len(a \o b)
    BY <1>4, LenProperties
  <2> QED
    BY <1>4, <2>1
<1>8. \A k \in 1..(Len(s) - 1) : (a \o b)[k] = s[IF k < n THEN k ELSE k + 1]
  <2> HIDE DEF a, b
  <2> TAKE k \in 1..(Len(s) - 1)
  <2>1. CASE k < n
    <3>1. k \in 1..(n - 1)
      BY <2>1, <1>1
    <3> QED
      BY <3>1, <2>1, <1>4
  <2>2. CASE ~(k < n)
    <3>1. k \in (n)..(Len(s) - 1)
      BY <2>2, <1>1
    <3> QED
      BY <3>1, <2>2, <1>1, <1>5
  <2> QED
    BY <2>1, <2>2
<1> HIDE DEF a, b
<1> QED
  BY <1>1, <1>4, <1>6, <1>7, <1>8

(***************************************************************************)
(* AudioDevices: v1 input, v2 muted, v3 saved, v4 permission, v5 started,  *)
(* v6 calls, v7 live, v8 lost, v9 raced.                                   *)
(***************************************************************************)
MicCalls == [step : {"query", "permission", "open"}, input : Devs!Devices, muted : BOOLEAN]

\* While nothing was overtaken, one device at most is being opened, for the
\* choice there is, with no microphone live; what is live is the choice; and
\* either takes a permission, and the presenter.
MicKept ==
  /\ v8 = FALSE
  /\ v5 = FALSE => v6 = <<>> /\ v7 = Devs!NoMic
  /\ v7 # Devs!NoMic => v4 = "granted" /\ v7 = Devs!Prefs(v1, v2)
  /\ \A n \in DOMAIN v6 : v6[n].step = "open" =>
       /\ v4 = "granted" /\ v7 = Devs!NoMic
       /\ v6[n].input = v1 /\ v6[n].muted = v2
       /\ \A m \in DOMAIN v6 : v6[m].step = "open" => m = n

DevInv ==
  /\ Devs!DevTypes
  /\ v6 \in Seq(MicCalls) /\ v2 \in BOOLEAN /\ v5 \in BOOLEAN /\ v8 \in BOOLEAN /\ v9 \in BOOLEAN
  /\ v9 = FALSE => MicKept

LEMMA MicBounds ==
  MaxMicCalls \in Nat
BY PageAssumption

LEMMA DevTypesOf ==
  ASSUME DevInv
  PROVE  /\ v1 \in Devs!Devices /\ v3 \in [input : Devs!Devices, muted : BOOLEAN]
         /\ v4 \in {"unknown", "prompt", "granted", "denied"}
         /\ v7 \in [input : Devs!Devices, muted : BOOLEAN] /\ v2 \in BOOLEAN /\ v5 \in BOOLEAN
         /\ v8 \in BOOLEAN /\ v9 \in BOOLEAN
         /\ v6 \in Seq(MicCalls) /\ Len(v6) \in Nat /\ Len(v6) <= MaxMicCalls /\ DOMAIN v6 = 1..Len(v6)
         /\ \A n \in DOMAIN v6 : v6[n] \in MicCalls
<1>1. v6 \in Seq(MicCalls)
  BY DEF DevInv
<1>2. Len(v6) \in Nat /\ DOMAIN v6 = 1..Len(v6) /\ \A n \in DOMAIN v6 : v6[n] \in MicCalls
  BY <1>1, LenProperties
<1> QED
  BY <1>1, <1>2 DEF DevInv, Devs!DevTypes

LEMMA MicTypes ==
  /\ Devs!NoMic \in [input : Devs!Devices, muted : BOOLEAN]
  /\ \A i \in Devs!Devices, m \in BOOLEAN : Devs!Prefs(i, m) \in [input : Devs!Devices, muted : BOOLEAN]
  /\ \A s \in {"query", "permission", "open"}, i \in Devs!Devices, m \in BOOLEAN :
       Devs!Call(s, i, m) \in MicCalls /\ Devs!Call(s, i, m).step = s
       /\ Devs!Call(s, i, m).input = i /\ Devs!Call(s, i, m).muted = m
  /\ Devs!None \in Devs!Devices
BY DEF Devs!NoMic, Devs!Devices, Devs!None, Devs!Prefs, Devs!Call, MicCalls

LEMMA CallRemoved ==
  ASSUME DevInv, NEW n \in DOMAIN v6, NEW others, others = Devs!RemoveAt(v6, n)
  PROVE  /\ others \in Seq(MicCalls) /\ v6 # <<>>
         /\ Len(others) = Len(v6) - 1
         /\ DOMAIN others = 1..(Len(v6) - 1)
         /\ \A k \in DOMAIN others : others[k] = v6[IF k < n THEN k ELSE k + 1]
<1>1. v6 \in Seq(MicCalls)
  BY DevTypesOf
<1>2. others = RemoveAt(v6, n)
  BY DEF Devs!RemoveAt, RemoveAt
<1>3. /\ RemoveAt(v6, n) \in Seq(MicCalls)
      /\ Len(RemoveAt(v6, n)) = Len(v6) - 1
      /\ DOMAIN RemoveAt(v6, n) = 1..(Len(v6) - 1)
      /\ \A k \in 1..(Len(v6) - 1) : RemoveAt(v6, n)[k] = v6[IF k < n THEN k ELSE k + 1]
  BY <1>1, RemovedAt
<1>4. v6 # <<>>
  BY <1>1, LenProperties
<1> QED
  BY <1>2, <1>3, <1>4

\* A call that opens a device, added to calls of which none does.
LEMMA OpensOne ==
  ASSUME NEW c \in Seq(MicCalls), NEW i \in Devs!Devices, NEW m \in BOOLEAN,
         \A k \in DOMAIN c : c[k].step # "open"
  PROVE  /\ Append(c, Devs!Call("open", i, m)) \in Seq(MicCalls)
         /\ \A k, l \in DOMAIN Append(c, Devs!Call("open", i, m)) :
              Append(c, Devs!Call("open", i, m))[k].step = "open" =>
                /\ Append(c, Devs!Call("open", i, m))[k].input = i
                /\ Append(c, Devs!Call("open", i, m))[k].muted = m
                /\ (Append(c, Devs!Call("open", i, m))[l].step = "open" => l = k)
<1> DEFINE x == Devs!Call("open", i, m)
           a == Append(c, x)
<1>1. x \in MicCalls /\ x.input = i /\ x.muted = m
  BY MicTypes
<1> HIDE DEF x
<1>2. /\ a \in Seq(MicCalls) /\ Len(c) \in Nat /\ DOMAIN c = 1..Len(c)
      /\ DOMAIN a = 1..(Len(c) + 1) /\ a[Len(c) + 1] = x
      /\ \A k \in 1..Len(c) : a[k] = c[k]
  BY <1>1, AppendAt
<1> HIDE DEF a
<1>3. \A k \in DOMAIN a : a[k].step = "open" => k = Len(c) + 1
  <2> TAKE k \in DOMAIN a
  <2>1. CASE k \in 1..Len(c)
    BY <2>1, <1>2
  <2>2. CASE k = Len(c) + 1
    BY <2>2
  <2> QED
    BY <2>1, <2>2, <1>2
<1>4. \A k, l \in DOMAIN a : a[k].step = "open" =>
        a[k].input = i /\ a[k].muted = m /\ (a[l].step = "open" => l = k)
  BY <1>1, <1>2, <1>3
<1> USE DEF a
<1> HIDE DEF a
<1> QED
  BY <1>2, <1>4 DEF a, x

\* Any other call, added.
LEMMA OpensNone ==
  ASSUME NEW c \in Seq(MicCalls), NEW x \in MicCalls, x.step # "open"
  PROVE  /\ Append(c, x) \in Seq(MicCalls) /\ Len(Append(c, x)) = Len(c) + 1
         /\ \A k \in DOMAIN Append(c, x) : Append(c, x)[k].step = "open" => k \in DOMAIN c /\ Append(c, x)[k] = c[k]
<1> DEFINE a == Append(c, x)
<1>2. /\ a \in Seq(MicCalls) /\ Len(c) \in Nat /\ DOMAIN c = 1..Len(c) /\ Len(a) = Len(c) + 1
      /\ DOMAIN a = 1..(Len(c) + 1) /\ a[Len(c) + 1] = x
      /\ \A k \in 1..Len(c) : a[k] = c[k]
  BY AppendAt
<1> HIDE DEF a
<1>3. ASSUME NEW k \in DOMAIN a, a[k].step = "open"
      PROVE  k \in DOMAIN c /\ a[k] = c[k]
  BY <1>2, <1>3
<1> QED
  BY <1>2, <1>3 DEF a

\* ensureMonitor() of a choice, with the calls that are left: if none of them
\* opens a device, one does at most, and for the choice.
Ensured(others, i, m) ==
  /\ v6' \in Seq(MicCalls) /\ Len(v6') <= MaxMicCalls
  /\ v7' \in [input : Devs!Devices, muted : BOOLEAN]
  /\ (\A k \in DOMAIN others : others[k].step # "open")
       => /\ \/ v7' = Devs!NoMic
             \/ v7' = v7 /\ v4' # "granted"
          /\ \A n \in DOMAIN v6' : v6'[n].step = "open" =>
               /\ v4' = "granted" /\ v7' = Devs!NoMic /\ v6'[n].input = i /\ v6'[n].muted = m
               /\ \A o \in DOMAIN v6' : v6'[o].step = "open" => o = n

LEMMA EnsureKeeps ==
  ASSUME DevInv, NEW others \in Seq(MicCalls), Len(others) < MaxMicCalls,
         NEW i \in Devs!Devices, NEW m \in BOOLEAN, Devs!EnsureMonitor(others, i, m)
  PROVE  Ensured(others, i, m)
<1> USE DEF Ensured
<1>1. CASE i = Devs!None
  BY <1>1, MicTypes, DevTypesOf, MicBounds DEF Devs!EnsureMonitor, Devs!StopMonitor
<1>2. CASE i # Devs!None /\ v4' # "granted"
  <2> DEFINE x == Devs!Call("permission", i, m)
  <2>1. v6' = Append(others, x) /\ v7' = v7
    BY <1>2, MicTypes, DevTypesOf, MicBounds DEF Devs!EnsureMonitor
  <2>2. x \in MicCalls /\ x.step = "permission"
    BY MicTypes, DevTypesOf, MicBounds
  <2> HIDE DEF x
  <2>3. /\ v6' \in Seq(MicCalls) /\ Len(v6') = Len(others) + 1
        /\ \A k \in DOMAIN v6' : v6'[k].step = "open" => k \in DOMAIN others /\ v6'[k] = others[k]
    BY <2>1, <2>2, OpensNone
  <2>4. Len(others) \in Nat /\ MaxMicCalls \in Nat
    BY LenProperties, MicTypes, DevTypesOf, MicBounds
  <2> QED
    BY <1>2, <2>1, <2>3, <2>4, MicTypes, DevTypesOf, MicBounds
<1>3. CASE i # Devs!None /\ v4' = "granted"
  <2>1. v6' = Append(others, Devs!Call("open", i, m)) /\ v7' = Devs!NoMic
    BY <1>3, MicTypes, DevTypesOf, MicBounds DEF Devs!EnsureMonitor, Devs!StartMonitor
  <2>2. v6' \in Seq(MicCalls) /\ Len(v6') = Len(others) + 1
    <3>1. Devs!Call("open", i, m) \in MicCalls
      BY MicTypes
    <3> QED
      BY <2>1, <3>1, AppendAt
  <2>3. Len(others) \in Nat /\ MaxMicCalls \in Nat
    BY LenProperties, MicTypes, DevTypesOf, MicBounds
  <2>4. ASSUME \A k \in DOMAIN others : others[k].step # "open"
        PROVE  \A n \in DOMAIN v6' : v6'[n].step = "open" =>
                 /\ v6'[n].input = i /\ v6'[n].muted = m
                 /\ \A o \in DOMAIN v6' : v6'[o].step = "open" => o = n
    BY <2>1, <2>4, OpensOne
  <2> QED
    BY <1>3, <2>1, <2>2, <2>3, <2>4, MicTypes, DevTypesOf, MicBounds
<1> QED
  BY <1>1, <1>2, <1>3, MicTypes, DevTypesOf, MicBounds

LEMMA InitDevicesStep ==
  ASSUME DevInv, Devs!InitDevices
  PROVE  DevInv'
<1> DEFINE x == Devs!Call("query", Devs!None, TRUE)
<1>1. /\ v5 = FALSE /\ v5' = TRUE /\ Len(v6) < MaxMicCalls
      /\ v1' = v3.input /\ v2' = v3.muted /\ v6' = Append(v6, x)
      /\ UNCHANGED <<v3, v4, v7, v8, v9>>
  BY MicTypes, DevTypesOf, MicBounds DEF Devs!InitDevices, Devs!Free
<1>2. x \in MicCalls /\ x.step = "query"
  BY MicTypes, DevTypesOf, MicBounds
<1> HIDE DEF x
<1>3. /\ v6' \in Seq(MicCalls) /\ Len(v6') = Len(v6) + 1
      /\ \A k \in DOMAIN v6' : v6'[k].step = "open" => k \in DOMAIN v6 /\ v6'[k] = v6[k]
  <2>1. v6 \in Seq(MicCalls)
    BY DevTypesOf
  <2> QED
    BY <1>1, <1>2, <2>1, OpensNone
<1>4. v9 = FALSE => MicKept'
  <2> SUFFICES ASSUME v9 = FALSE
               PROVE  MicKept'
    OBVIOUS
  <2>1. v6 = <<>> /\ v7 = Devs!NoMic /\ v8 = FALSE
    BY <1>1, MicTypes, DevTypesOf, MicBounds DEF DevInv, MicKept
  <2>2. DOMAIN v6 = {}
    BY <2>1, MicTypes, DevTypesOf, MicBounds
  <2>3. \A k \in DOMAIN v6' : v6'[k].step # "open"
    BY <1>3, <2>2, MicTypes, DevTypesOf, MicBounds
  <2> QED
    BY <1>1, <2>1, <2>3, MicTypes, DevTypesOf, MicBounds DEF MicKept
<1>5. v1' \in Devs!Devices /\ v2' \in BOOLEAN /\ v5' \in BOOLEAN
  BY <1>1, MicTypes, DevTypesOf, MicBounds
<1> QED
  BY <1>1, <1>3, <1>4, <1>5, MicTypes, DevTypesOf, MicBounds DEF DevInv, Devs!DevTypes

LEMMA SetInputDeviceStep ==
  ASSUME DevInv, NEW i \in Devs!Devices, Devs!SetInputDevice(i)
  PROVE  DevInv'
<1>1. /\ v5 = TRUE /\ Len(v6) < MaxMicCalls /\ v1' = i /\ v3' = Devs!Prefs(i, v2) /\ v4' = v4
      /\ Devs!EnsureMonitor(v6, i, v2)
      /\ v9' = (IF v6 = <<>> /\ (i = Devs!None \/ v4 = "granted") THEN v8 ELSE v9 \/ Devs!Opening)
      /\ UNCHANGED <<v2, v5, v8>>
  BY MicTypes, DevTypesOf, MicBounds DEF Devs!SetInputDevice, Devs!Free
<1>2. Ensured(v6, i, v2)
  <2>1. v6 \in Seq(MicCalls) /\ v2 \in BOOLEAN
    BY DevTypesOf
  <2> QED
    BY <1>1, <2>1, EnsureKeeps
<1>3. v9' \in BOOLEAN /\ v2' \in BOOLEAN /\ v5' \in BOOLEAN /\ v8' \in BOOLEAN
  <2>1. Devs!Opening \in BOOLEAN
    BY MicTypes, DevTypesOf, MicBounds DEF Devs!Opening
  <2> QED
    BY <1>1, <2>1, MicTypes, DevTypesOf, MicBounds
<1>4. v9' = FALSE => MicKept'
  <2> SUFFICES ASSUME v9' = FALSE
               PROVE  MicKept'
    OBVIOUS
  <2>1. \A k \in DOMAIN v6 : v6[k].step # "open"
    <3>1. CASE v6 = <<>>
      BY <3>1, MicTypes, DevTypesOf, MicBounds
    <3>2. CASE v6 # <<>>
      <4>1. v9' = (v9 \/ Devs!Opening)
        BY <3>2, <1>1, MicTypes, DevTypesOf, MicBounds
      <4>2. ~Devs!Opening
        BY <4>1, Zenon
      <4> QED
        BY <4>2, MicTypes, DevTypesOf, MicBounds DEF Devs!Opening
    <3> QED
      BY <3>1, <3>2, MicTypes, DevTypesOf, MicBounds
  <2>2. v8' = FALSE /\ (v7' # Devs!NoMic => FALSE)
    <3>1. CASE v6 = <<>> /\ (i = Devs!None \/ v4 = "granted")
      <4>1. i = Devs!None => v7' = Devs!NoMic
        BY <1>1, MicTypes, DevTypesOf, MicBounds DEF Devs!EnsureMonitor, Devs!StopMonitor
      <4> QED
        BY <3>1, <4>1, <1>1, <1>2, <2>1, MicTypes, DevTypesOf, MicBounds DEF Ensured
    <3>2. CASE ~(v6 = <<>> /\ (i = Devs!None \/ v4 = "granted"))
      <4>1. v9 = FALSE
        BY <1>1, <3>2, MicTypes, DevTypesOf, MicBounds
      <4>2. v8 = FALSE /\ (v7 # Devs!NoMic => v4 = "granted")
        BY <4>1, MicTypes, DevTypesOf, MicBounds DEF DevInv, MicKept
      <4> QED
        BY <4>2, <1>1, <1>2, <2>1, MicTypes, DevTypesOf, MicBounds DEF Ensured
    <3> QED
      BY <3>1, <3>2, MicTypes, DevTypesOf, MicBounds
  <2> QED
    BY <1>1, <1>2, <2>1, <2>2, MicTypes, DevTypesOf, MicBounds DEF MicKept, Ensured
<1>5. v3' \in [input : Devs!Devices, muted : BOOLEAN]
  BY <1>1, MicTypes, DevTypesOf, MicBounds
<1> QED
  BY <1>1, <1>2, <1>3, <1>4, <1>5, MicTypes, DevTypesOf, MicBounds DEF DevInv, Devs!DevTypes, Ensured

LEMMA SetMicMutedStep ==
  ASSUME DevInv, NEW m \in BOOLEAN, Devs!SetMicMuted(m)
  PROVE  DevInv'
<1>1. /\ v5 = TRUE /\ v2' = m /\ v3' = Devs!Prefs(v1, m)
      /\ v7' = (IF v7 = Devs!NoMic THEN v7 ELSE [v7 EXCEPT !.muted = m])
      /\ v9' = (v9 \/ Devs!Opening)
      /\ UNCHANGED <<v1, v4, v5, v6, v8>>
  BY MicTypes, DevTypesOf, MicBounds DEF Devs!SetMicMuted, Devs!Gain
<1>2. v7' \in [input : Devs!Devices, muted : BOOLEAN] /\ v3' \in [input : Devs!Devices, muted : BOOLEAN]
  BY <1>1, MicTypes, DevTypesOf, MicBounds
<1>3. v9' \in BOOLEAN /\ v2' \in BOOLEAN /\ v5' \in BOOLEAN
  BY <1>1, MicTypes, DevTypesOf, MicBounds DEF Devs!Opening
<1>4. v9' = FALSE => MicKept'
  <2> SUFFICES ASSUME v9' = FALSE
               PROVE  MicKept'
    OBVIOUS
  <2>1. v9 = FALSE /\ \A k \in DOMAIN v6 : v6[k].step # "open"
    <3>1. ~Devs!Opening /\ ~v9
      BY <1>1, Zenon
    <3> QED
      BY <3>1, MicTypes, DevTypesOf, MicBounds DEF Devs!Opening
  <2>2. MicKept
    BY <2>1, MicTypes, DevTypesOf, MicBounds DEF DevInv
  <2>3. v7' # Devs!NoMic => v4 = "granted" /\ v7' = Devs!Prefs(v1, m)
    <3>1. CASE v7 = Devs!NoMic
      BY <3>1, <1>1, MicTypes, DevTypesOf, MicBounds
    <3>2. CASE v7 # Devs!NoMic
      <4>1. v4 = "granted" /\ v7 = Devs!Prefs(v1, v2)
        BY <2>2, <3>2, MicTypes, DevTypesOf, MicBounds DEF MicKept
      <4> QED
        BY <4>1, <3>2, <1>1, MicTypes, DevTypesOf, MicBounds DEF Devs!Prefs
    <3> QED
      BY <3>1, <3>2, MicTypes, DevTypesOf, MicBounds
  <2> QED
    BY <1>1, <2>1, <2>2, <2>3, MicTypes, DevTypesOf, MicBounds DEF MicKept
<1> QED
  BY <1>1, <1>2, <1>3, <1>4, MicTypes, DevTypesOf, MicBounds DEF DevInv, Devs!DevTypes

LEMMA DisposeDevicesStep ==
  ASSUME DevInv, Devs!Dispose
  PROVE  DevInv'
<1>1. /\ v5' = FALSE /\ v7' = Devs!NoMic /\ v9' = (v9 \/ v6 # <<>>)
      /\ UNCHANGED <<v1, v2, v3, v4, v6, v8>>
  BY MicTypes, DevTypesOf, MicBounds DEF Devs!Dispose
<1>2. v9' \in BOOLEAN /\ v5' \in BOOLEAN
  BY <1>1, MicTypes, DevTypesOf, MicBounds
<1>3. v9' = FALSE => MicKept'
  <2> SUFFICES ASSUME v9' = FALSE
               PROVE  MicKept'
    OBVIOUS
  <2>1. v9 = FALSE /\ v6 = <<>>
    BY <1>1, MicTypes, DevTypesOf, MicBounds
  <2> QED
    BY <1>1, <2>1, MicTypes, DevTypesOf, MicBounds DEF DevInv, MicKept
<1> QED
  BY <1>1, <1>2, <1>3, MicTypes, DevTypesOf, MicBounds DEF DevInv, Devs!DevTypes

LEMMA QueriedStep ==
  ASSUME DevInv, NEW n \in DOMAIN v6, Devs!Queried(n)
  PROVE  DevInv'
<1> DEFINE others == Devs!RemoveAt(v6, n)
<1>1. /\ v4' \in {"unknown", "prompt", "granted", "denied"}
      /\ Devs!EnsureMonitor(others, v1, v2)
      /\ v9' = (v9 \/ Devs!Overtaken)
      /\ UNCHANGED <<v1, v2, v3, v5, v8>>
  BY MicTypes, DevTypesOf, MicBounds DEF Devs!Queried
<1>2. /\ others \in Seq(MicCalls) /\ v6 # <<>> /\ Len(others) = Len(v6) - 1
      /\ \A k \in DOMAIN others : others[k] = v6[IF k < n THEN k ELSE k + 1]
      /\ DOMAIN others = 1..(Len(v6) - 1)
  <2>1. others = Devs!RemoveAt(v6, n)
    BY MicTypes, DevTypesOf, MicBounds
  <2> HIDE DEF others
  <2> QED
    BY <2>1, CallRemoved
<1>3. Len(others) < MaxMicCalls
  BY <1>2, MicTypes, DevTypesOf, MicBounds
<1> HIDE DEF others
<1>4. Ensured(others, v1, v2)
  <2>1. v1 \in Devs!Devices /\ v2 \in BOOLEAN
    BY DevTypesOf
  <2> QED
    BY <1>1, <1>2, <1>3, <2>1, EnsureKeeps
<1>5. v9' \in BOOLEAN
  <2>1. Devs!Overtaken \in BOOLEAN
    BY MicTypes, DevTypesOf, MicBounds DEF Devs!Overtaken, Devs!Opening
  <2> QED
    BY <1>1, <2>1, MicTypes, DevTypesOf, MicBounds
<1>6. v9' = FALSE => MicKept'
  <2> SUFFICES ASSUME v9' = FALSE
               PROVE  MicKept'
    OBVIOUS
  <2>1. ~v9 /\ ~Devs!Overtaken
    BY <1>1, Zenon
  <2>2. v7 = Devs!NoMic /\ \A k \in DOMAIN v6 : v6[k].step # "open"
    BY <2>1, MicTypes, DevTypesOf, MicBounds DEF Devs!Overtaken, Devs!Opening
  <2>3. \A k \in DOMAIN others : (IF k < n THEN k ELSE k + 1) \in DOMAIN v6
    BY <1>2, MicTypes, DevTypesOf, MicBounds
  <2>4. \A k \in DOMAIN others : others[k].step # "open"
    BY <1>2, <2>2, <2>3, MicTypes, DevTypesOf, MicBounds
  <2>5. MicKept
    BY <2>1, MicTypes, DevTypesOf, MicBounds DEF DevInv
  <2>6. v5 # FALSE
    BY <2>5, <1>2, MicTypes, DevTypesOf, MicBounds DEF MicKept
  <2>7. v7' = Devs!NoMic
    BY <1>4, <2>2, <2>4, MicTypes, DevTypesOf, MicBounds DEF Ensured
  <2> QED
    BY <1>1, <1>4, <2>4, <2>5, <2>6, <2>7, MicTypes, DevTypesOf, MicBounds DEF MicKept, Ensured
<1> QED
  BY <1>1, <1>4, <1>5, <1>6, MicTypes, DevTypesOf, MicBounds DEF DevInv, Devs!DevTypes, Ensured

LEMMA AskedStep ==
  ASSUME DevInv, NEW n \in DOMAIN v6, Devs!Asked(n)
  PROVE  DevInv'
<1> DEFINE others == Devs!RemoveAt(v6, n)
<1>1. /\ v4' \in {"unknown", "prompt", "granted", "denied"}
      /\ IF v4' = "granted" THEN v7' = Devs!NoMic /\ v6' = Append(others, Devs!Call("open", v1, v2))
         ELSE v6' = others /\ v7' = v7
      /\ v9' = (v9 \/ Devs!Overtaken)
      /\ UNCHANGED <<v1, v2, v3, v5, v8>>
  BY MicTypes, DevTypesOf, MicBounds DEF Devs!Asked, Devs!StartMonitor
<1>2. /\ others \in Seq(MicCalls) /\ v6 # <<>> /\ Len(others) = Len(v6) - 1
      /\ \A k \in DOMAIN others : others[k] = v6[IF k < n THEN k ELSE k + 1]
      /\ DOMAIN others = 1..(Len(v6) - 1)
  <2>1. others = Devs!RemoveAt(v6, n)
    BY MicTypes, DevTypesOf, MicBounds
  <2> HIDE DEF others
  <2> QED
    BY <2>1, CallRemoved
<1> HIDE DEF others
<1>4. v6' \in Seq(MicCalls) /\ Len(v6') <= MaxMicCalls /\ v7' \in [input : Devs!Devices, muted : BOOLEAN]
  <2>1. CASE v4' = "granted"
    <3>1. Devs!Call("open", v1, v2) \in MicCalls
      BY MicTypes, DevTypesOf, MicBounds
    <3>2. v6' = Append(others, Devs!Call("open", v1, v2)) /\ v7' = Devs!NoMic
      BY <2>1, <1>1, MicTypes, DevTypesOf, MicBounds
    <3>3. v6' \in Seq(MicCalls) /\ Len(v6') = Len(others) + 1
      BY <1>2, <3>1, <3>2, AppendAt
    <3> QED
      BY <1>2, <3>2, <3>3, MicTypes, DevTypesOf, MicBounds
  <2>2. CASE v4' # "granted"
    BY <2>2, <1>1, <1>2, MicTypes, DevTypesOf, MicBounds
  <2> QED
    BY <2>1, <2>2, MicTypes, DevTypesOf, MicBounds
<1>5. v9' \in BOOLEAN
  <2>1. Devs!Overtaken \in BOOLEAN
    BY MicTypes, DevTypesOf, MicBounds DEF Devs!Overtaken, Devs!Opening
  <2> QED
    BY <1>1, <2>1, MicTypes, DevTypesOf, MicBounds
<1>6. v9' = FALSE => MicKept'
  <2> SUFFICES ASSUME v9' = FALSE
               PROVE  MicKept'
    OBVIOUS
  <2>1. ~v9 /\ ~Devs!Overtaken
    BY <1>1, Zenon
  <2>2. v7 = Devs!NoMic /\ \A k \in DOMAIN v6 : v6[k].step # "open"
    BY <2>1, MicTypes, DevTypesOf, MicBounds DEF Devs!Overtaken, Devs!Opening
  <2>3. \A k \in DOMAIN others : (IF k < n THEN k ELSE k + 1) \in DOMAIN v6
    BY <1>2, MicTypes, DevTypesOf, MicBounds
  <2>4. \A k \in DOMAIN others : others[k].step # "open"
    BY <1>2, <2>2, <2>3, MicTypes, DevTypesOf, MicBounds
  <2>5. MicKept
    BY <2>1, MicTypes, DevTypesOf, MicBounds DEF DevInv
  <2>6. v5 # FALSE /\ v8 = FALSE
    BY <2>5, <1>2, MicTypes, DevTypesOf, MicBounds DEF MicKept
  <2>7. v7' = Devs!NoMic
    BY <1>1, <2>2, MicTypes, DevTypesOf, MicBounds
  <2>8. \A k \in DOMAIN v6' : v6'[k].step = "open" =>
          /\ v4' = "granted" /\ v6'[k].input = v1 /\ v6'[k].muted = v2
          /\ \A o \in DOMAIN v6' : v6'[o].step = "open" => o = k
    <3>1. CASE v4' = "granted"
      <4>1. v6' = Append(others, Devs!Call("open", v1, v2))
        BY <1>1, <3>1, MicTypes, DevTypesOf, MicBounds
      <4>2. v1 \in Devs!Devices /\ v2 \in BOOLEAN
        BY DevTypesOf
      <4> HIDE DEF others
      <4> QED
        BY <3>1, <4>1, <4>2, <1>2, <2>4, OpensOne
    <3>2. CASE v4' # "granted"
      BY <3>2, <1>1, <2>4, MicTypes, DevTypesOf, MicBounds
    <3> QED
      BY <3>1, <3>2, MicTypes, DevTypesOf, MicBounds
  <2> QED
    BY <1>1, <2>6, <2>7, <2>8 DEF MicKept
<1> QED
  BY <1>1, <1>4, <1>5, <1>6, MicTypes, DevTypesOf, MicBounds DEF DevInv, Devs!DevTypes

\* One that opened a device is done with: none does any more, had no other overtaken it.
LEMMA OpenRemoved ==
  ASSUME DevInv, NEW n \in DOMAIN v6, v6[n].step = "open", v9 = FALSE, NEW others,
         others = Devs!RemoveAt(v6, n)
  PROVE  /\ \A k \in DOMAIN others : others[k].step # "open"
         /\ v5 = TRUE /\ v8 = FALSE /\ v4 = "granted" /\ v7 = Devs!NoMic
         /\ v6[n].input = v1 /\ v6[n].muted = v2
<1>1. /\ DOMAIN others = 1..(Len(v6) - 1) /\ v6 # <<>>
      /\ \A k \in DOMAIN others : others[k] = v6[IF k < n THEN k ELSE k + 1]
  BY CallRemoved
<1>2. MicKept
  BY DevTypesOf DEF DevInv
<1>3. \A k \in DOMAIN others : (IF k < n THEN k ELSE k + 1) \in DOMAIN v6 \ {n}
  BY <1>1, DevTypesOf
<1>4. \A m \in DOMAIN v6 : v6[m].step = "open" => m = n
  BY <1>2, DevTypesOf DEF MicKept
<1>5. \A k \in DOMAIN others : others[k].step # "open"
  BY <1>1, <1>3, <1>4, DevTypesOf
<1>6. v5 # FALSE
  BY <1>1, <1>2, DevTypesOf DEF MicKept
<1> QED
  BY <1>2, <1>5, <1>6, DevTypesOf DEF MicKept

LEMMA OpenedStep ==
  ASSUME DevInv, NEW n \in DOMAIN v6, Devs!Opened(n) \/ Devs!OpenFails(n)
  PROVE  DevInv'
<1> DEFINE others == Devs!RemoveAt(v6, n)
<1>1. /\ v6[n].step = "open" /\ v6' = others
      /\ \/ v7' = Devs!Prefs(v6[n].input, v6[n].muted) /\ v8' = (v8 \/ v7 # Devs!NoMic)
         \/ v7' = Devs!NoMic /\ v8' = v8
      /\ UNCHANGED <<v1, v2, v3, v4, v5, v9>>
  BY MicTypes, DevTypesOf, MicBounds DEF Devs!Opened, Devs!OpenFails, Devs!Prefs
<1>2. others \in Seq(MicCalls) /\ Len(others) = Len(v6) - 1
  <2>1. others = Devs!RemoveAt(v6, n)
    BY MicTypes, DevTypesOf, MicBounds
  <2> HIDE DEF others
  <2> QED
    BY <2>1, CallRemoved
<1>3. v6[n].input \in Devs!Devices /\ v6[n].muted \in BOOLEAN
  BY MicTypes, DevTypesOf, MicBounds DEF MicCalls
<1>4. v7' \in [input : Devs!Devices, muted : BOOLEAN]
  BY <1>1, <1>3, MicTypes, DevTypesOf, MicBounds
<1>5. v8' \in BOOLEAN
  BY <1>1, MicTypes, DevTypesOf, MicBounds
<1>6. v9 = FALSE => MicKept'
  <2> SUFFICES ASSUME v9 = FALSE
               PROVE  MicKept'
    OBVIOUS
  <2>1. /\ \A k \in DOMAIN others : others[k].step # "open"
        /\ v5 = TRUE /\ v8 = FALSE /\ v4 = "granted" /\ v7 = Devs!NoMic
        /\ v6[n].input = v1 /\ v6[n].muted = v2
    BY <1>1, OpenRemoved
  <2> HIDE DEF others
  <2>2. v8' = FALSE
    BY <1>1, <2>1, MicTypes, DevTypesOf, MicBounds
  <2>3. v7' # Devs!NoMic => v7' = Devs!Prefs(v1, v2)
    BY <1>1, <2>1, MicTypes, DevTypesOf, MicBounds
  <2> QED
    BY <1>1, <2>1, <2>2, <2>3, MicTypes, DevTypesOf, MicBounds DEF MicKept
<1> HIDE DEF others
<1>7. Len(v6') <= MaxMicCalls
  BY <1>1, <1>2, MicTypes, DevTypesOf, MicBounds
<1> QED
  BY <1>1, <1>2, <1>4, <1>5, <1>6, <1>7, MicTypes, DevTypesOf, MicBounds DEF DevInv, Devs!DevTypes

LEMMA DevInitHolds ==
  ASSUME Devs!DevInit
  PROVE  DevInv
<1>1. /\ v3 \in [input : Devs!Devices, muted : BOOLEAN] /\ v1 = Devs!None /\ v2 = TRUE
      /\ v4 = "unknown" /\ v5 = FALSE /\ v6 = <<>> /\ v7 = Devs!NoMic /\ v8 = FALSE /\ v9 = FALSE
  BY MicTypes, MicBounds DEF Devs!DevInit
<1>2. v6 \in Seq(MicCalls) /\ Len(v6) <= MaxMicCalls /\ DOMAIN v6 = {}
  <2>1. Len(v6) = 0 /\ MaxMicCalls \in Nat
    BY <1>1, MicTypes, MicBounds
  <2> QED
    BY <1>1, <2>1, MicTypes, MicBounds
<1>3. MicKept
  BY <1>1, <1>2, MicTypes, MicBounds DEF MicKept
<1> QED
  BY <1>1, <1>2, <1>3, MicTypes, MicBounds DEF DevInv, Devs!DevTypes

LEMMA DevNextKeeps ==
  ASSUME DevInv, Devs!DevNext
  PROVE  DevInv'
BY InitDevicesStep, DisposeDevicesStep, SetInputDeviceStep, SetMicMutedStep, QueriedStep, AskedStep, OpenedStep
   DEF Devs!DevNext

LEMMA DevSame ==
  ASSUME DevInv, UNCHANGED <<v1, v2, v3, v4, v5, v6, v7, v8, v9>>
  PROVE  DevInv'
BY DEF DevInv, Devs!DevTypes, MicKept

LEMMA DevHolds ==
  ASSUME DevInv
  PROVE  Devs!DevTypes /\ Devs!MicAsChosen
<1>1. v9 = FALSE => Devs!MicAsChosen
  BY DEF DevInv, MicKept, Devs!MicAsChosen
<1>2. v9 = TRUE => Devs!MicAsChosen
  BY DEF Devs!MicAsChosen
<1> QED
  BY <1>1, <1>2 DEF DevInv

(***************************************************************************)
(* LocalBackend: v1 procs, v2 pids, v3 closing, v4 ports, v5 running,      *)
(* v6 mine, v7 task, v8 step, v11 look, v12 child.                         *)
(***************************************************************************)
BackendPids == [Backend!Backends -> ProcessIds \union {Backend!NoPid}]

BackendTyped ==
  /\ Backend!BackendTypes /\ v3 \in BOOLEAN /\ v4 \in BOOLEAN
  /\ v8 \in {"none", "stop", "stop api", "work", "link", "start", "onthespot", "api", "ready"}
  /\ v12 \in ProcessIds \union {Backend!NoPid}

\* What is known of the processes by who has the lock, and where it is: what
\* runs is held by nobody, or by the one who has the lock; and what is being
\* installed, or linked, has no process beside it.
LockHolds ==
  /\ v7 = "none" <=> v8 = "none"
  /\ v8 = "none" => v6 = Backend!None
  /\ v8 # "none" \/ v4 = FALSE => v5 = Backend!None
  /\ v8 \in {"work", "link", "start", "onthespot"} => v6 = Backend!None
  /\ v8 = "stop api" => v6["onthespot"] = Backend!NoPid
  /\ v8 = "api" => v6["api"] = Backend!NoPid
  /\ v12 # Backend!NoPid => v8 \in {"work", "link"}

\* Two processes have two ids.
IdsDiffer(held) == held["onthespot"] = held["api"] => held["api"] = Backend!NoPid

\* Every process there is, but the one that links, has been told of, and is
\* known to whom it belongs.
ProcsKnown ==
  /\ v3 = TRUE => \A p \in v1 : p.kind = "link"
  /\ \A p \in v1 :
       /\ p.kind # "link" => p.id \in v2
       /\ p.kind \in Backend!Backends => p.id \in {v5[p.kind], v6[p.kind]}
       /\ p.kind = "work" => p.id = v12 /\ v8 = "work"
       /\ p.kind = "link" => p.id = v12 /\ v8 = "link"

BackendInv == BackendTyped /\ LockHolds /\ IdsDiffer(v5) /\ IdsDiffer(v6) /\ ProcsKnown

LEMMA BackendTypesOf ==
  ASSUME BackendInv
  PROVE  /\ v1 \subseteq [kind : {"onthespot", "api", "work", "link"}, id : ProcessIds] /\ v2 \subseteq ProcessIds
         /\ v5 \in BackendPids /\ v6 \in BackendPids
         /\ v7 \in {"none", "boot", "work", "look"} /\ v11 \in {"off", "sleep", "wait"}
         /\ v3 \in BOOLEAN /\ v4 \in BOOLEAN /\ v12 \in ProcessIds \union {Backend!NoPid}
         /\ v8 \in {"none", "stop", "stop api", "work", "link", "start", "onthespot", "api", "ready"}
         /\ 0 \notin ProcessIds /\ Backend!NoPid = 0
         /\ Backend!Backends = {"onthespot", "api"}
         /\ Backend!None = [k \in {"onthespot", "api"} |-> 0]
         /\ BackendPids = [{"onthespot", "api"} -> ProcessIds \union {0}]
         /\ Backend!None \in BackendPids
BY PageAssumption DEF BackendInv, BackendTyped, Backend!BackendTypes, Backend!Backends, Backend!NoPid, Backend!None,
   BackendPids

\* Nothing of the state the invariant is about has changed.
LEMMA BackendSame ==
  ASSUME BackendInv, UNCHANGED <<v1, v2, v3, v4, v5, v6, v7, v8, v12>>, v11' \in {"off", "sleep", "wait"}
  PROVE  BackendInv'
BY DEF BackendInv, BackendTyped, Backend!BackendTypes, LockHolds, IdsDiffer, ProcsKnown

\* Processes end, whichever, and nothing else has changed.
LEMMA ProcsEnd ==
  ASSUME BackendInv, v1' \subseteq v1, UNCHANGED <<v2, v3, v4, v5, v6, v7, v8, v11, v12>>
  PROVE  BackendInv'
<1>1. BackendTyped'
  BY DEF BackendInv, BackendTyped, Backend!BackendTypes
<1>2. LockHolds' /\ IdsDiffer(v5)' /\ IdsDiffer(v6)'
  BY DEF BackendInv, LockHolds, IdsDiffer
<1>3. ProcsKnown'
  BY DEF BackendInv, ProcsKnown
<1> QED
  BY <1>1, <1>2, <1>3 DEF BackendInv

LEMMA KillAllStep ==
  ASSUME BackendInv, Backend!KillAll
  PROVE  BackendInv'
<1>1. /\ v3' = TRUE /\ v2' = {} /\ v1' = {p \in v1 : p.id \notin v2}
      /\ UNCHANGED <<v4, v5, v6, v7, v8, v11, v12>>
  BY DEF Backend!KillAll
<1>2. v1' \subseteq v1 /\ \A p \in v1' : p.kind = "link"
  BY <1>1 DEF BackendInv, ProcsKnown
<1>3. BackendTyped'
  BY <1>1, <1>2 DEF BackendInv, BackendTyped, Backend!BackendTypes
<1>4. LockHolds' /\ IdsDiffer(v5)' /\ IdsDiffer(v6)'
  BY <1>1 DEF BackendInv, LockHolds, IdsDiffer
<1>5. ProcsKnown'
  BY <1>1, <1>2, BackendTypesOf DEF BackendInv, ProcsKnown
<1> QED
  BY <1>3, <1>4, <1>5 DEF BackendInv

\* Who takes the lock, or lets go of it, touches no process.
LEMMA LockStep ==
  ASSUME BackendInv, Backend!LockToBoot \/ Backend!LockToWork \/ Backend!LockToLook
  PROVE  BackendInv'
<1>1. /\ v7 = "none" /\ v8 = "none" /\ v6 = Backend!None
      /\ v7 = "none" => v12 = Backend!NoPid
  BY DEF BackendInv, LockHolds, Backend!LockToBoot, Backend!LockToWork, Backend!LockToLook
<1>2. UNCHANGED <<v1, v2, v3, v4, v12>> /\ v11' \in {"off", "sleep", "wait"}
  BY BackendTypesOf DEF Backend!LockToBoot, Backend!LockToWork, Backend!LockToLook, Backend!Others
<1>3. \/ UNCHANGED <<v5, v6, v7, v8>>
      \/ v4 = FALSE /\ v7' = "boot" /\ v8' = "work" /\ UNCHANGED <<v5, v6>>
      \/ v7' \in {"work", "look"} /\ v8' = "stop" /\ v6' = v5 /\ v5' = Backend!None
  <2>1. CASE Backend!LockToBoot
    <3>1. UNCHANGED <<v5, v6>> /\ (v4 \/ (v7' = "boot" /\ v8' = "work"))
      BY <2>1, Zenon DEF Backend!LockToBoot
    <3>2. v4 => UNCHANGED <<v7, v8>>
      BY <2>1, Zenon DEF Backend!LockToBoot
    <3> QED
      BY <3>1, <3>2, BackendTypesOf
  <2>2. CASE Backend!LockToWork
    BY <2>2 DEF Backend!LockToWork
  <2>3. CASE Backend!LockToLook
    <3>1. UNCHANGED <<v5, v6, v7, v8>> \/ (v7' = "look" /\ v8' = "stop" /\ v6' = v5 /\ v5' = Backend!None)
      BY <2>3, Zenon DEF Backend!LockToLook
    <3> QED
      BY <3>1
  <2> QED
    BY <2>1, <2>2, <2>3
<1>4. CASE UNCHANGED <<v5, v6, v7, v8>>
  BY <1>2, <1>4, BackendSame
<1>5. CASE v4 = FALSE /\ v7' = "boot" /\ v8' = "work" /\ UNCHANGED <<v5, v6>>
  BY <1>1, <1>2, <1>5 DEF BackendInv, BackendTyped, Backend!BackendTypes, LockHolds, IdsDiffer, ProcsKnown
<1>6. CASE v7' \in {"work", "look"} /\ v8' = "stop" /\ v6' = v5 /\ v5' = Backend!None
  <2>1. BackendTyped'
    BY <1>2, <1>6, BackendTypesOf DEF BackendTyped, Backend!BackendTypes, BackendInv, BackendPids
  <2>2. LockHolds'
    BY <1>1, <1>2, <1>6 DEF LockHolds
  <2>3. IdsDiffer(v5)' /\ IdsDiffer(v6)'
    BY <1>6, BackendTypesOf DEF IdsDiffer, BackendInv
  <2>4. ProcsKnown'
    BY <1>1, <1>2, <1>6, BackendTypesOf DEF ProcsKnown, BackendInv
  <2> QED
    BY <2>1, <2>2, <2>3, <2>4 DEF BackendInv
<1> QED
  BY <1>3, <1>4, <1>5, <1>6

\* A process is stopped, and with it gone its id is free.
LEMMA StopStep ==
  ASSUME BackendInv, NEW k \in Backend!Backends, Backend!Stop(k)
  PROVE  BackendInv'
<1> DEFINE other == IF k = "onthespot" THEN "api" ELSE "onthespot"
<1>1. /\ v8 = (IF k = "onthespot" THEN "stop" ELSE "stop api")
      /\ Backend!Killed(k) /\ v6' = [v6 EXCEPT ![k] = 0]
      /\ UNCHANGED <<v3, v4, v5, v7, v11, v12>>
      /\ v8' = (IF k = "onthespot" THEN "stop api" ELSE IF v7 = "work" THEN "work" ELSE "start")
  BY BackendTypesOf DEF Backend!Stop, Backend!Held, Backend!NextStep
<1>2. /\ k \in {"onthespot", "api"} /\ k # other /\ other \in {"onthespot", "api"}
      /\ \A b \in {"onthespot", "api"} : b = k \/ b = other
  BY BackendTypesOf
<1>3. /\ v5 = [b \in {"onthespot", "api"} |-> 0] /\ v12 = 0 /\ v7 # "none"
      /\ k = "api" => v6["onthespot"] = 0
  BY <1>1, BackendTypesOf DEF BackendInv, LockHolds
<1>4. /\ v6' \in [{"onthespot", "api"} -> ProcessIds \union {0}]
      /\ v6'[k] = 0 /\ v6'[other] = v6[other]
  BY <1>1, <1>2, BackendTypesOf
<1>5. /\ v1' \subseteq v1 /\ v2' \subseteq v2
      /\ \A p \in v1' : p.kind # k
      /\ \A p \in v1' : p.id \in v2'
  <2>1. ASSUME NEW p \in v1
        PROVE  /\ p.kind \in {k, other} /\ p.id = v6[p.kind] /\ p.id # 0 /\ p.id \in v2
               /\ p = [kind |-> p.kind, id |-> p.id]
    <3>1. p \in [kind : {"onthespot", "api", "work", "link"}, id : ProcessIds] /\ p.id # 0 /\ p = [kind |-> p.kind, id |-> p.id]
      BY BackendTypesOf
    <3>2. /\ p.id \in v2 /\ (p.kind \in {"onthespot", "api"} => p.id \in {v5[p.kind], v6[p.kind]})
          /\ (p.kind = "work" => p.id = v12) /\ p.kind # "link"
      BY <1>1,  BackendTypesOf DEF BackendInv, ProcsKnown
    <3> QED
      BY <1>2, <1>3, <3>1, <3>2
  <2>2. CASE v6[k] = 0
    BY <1>1, <2>1, <2>2, BackendTypesOf DEF Backend!Killed
  <2>3. CASE v6[k] # 0
    <3>1. v1' = {p \in v1 : p # [kind |-> k, id |-> v6[k]]} /\ v2' = v2 \ {v6[k]}
      BY <1>1, <2>3, BackendTypesOf DEF Backend!Killed, Backend!KillOf
    <3>2. v6[k] # v6[other]
      BY <1>2, <2>3, BackendTypesOf DEF BackendInv, IdsDiffer
    <3>3. \A p \in v1' : p.kind # k
      BY <2>1, <3>1
    <3>4. \A p \in v1' : p.id # v6[k]
      BY <1>2, <2>1, <3>1, <3>2, <3>3
    <3> QED
      BY <2>1, <3>1, <3>3, <3>4
  <2> QED
    BY <2>2, <2>3
<1> HIDE DEF other
<1>6. BackendTyped'
  BY <1>1, <1>4, <1>5, BackendTypesOf DEF BackendTyped, Backend!BackendTypes
<1>7. LockHolds'
  <2>1. k = "api" => v6' = Backend!None
    <3> SUFFICES ASSUME k = "api" PROVE v6' = Backend!None
      OBVIOUS
    <3>1. other = "onthespot"
      BY <1>2
    <3> QED
      BY <1>3, <1>4, <3>1, BackendTypesOf
  <2> QED
    BY <1>1, <1>2, <1>3, <1>4, <2>1, BackendTypesOf DEF LockHolds
<1>8. IdsDiffer(v5)' /\ IdsDiffer(v6)'
  BY <1>1, <1>2, <1>4, BackendTypesOf DEF IdsDiffer, BackendInv
<1>9. ProcsKnown'
  BY <1>1, <1>2, <1>4, <1>5, BackendTypesOf DEF ProcsKnown, BackendInv
<1> QED
  BY <1>6, <1>7, <1>8, <1>9 DEF BackendInv

\* While something is installed there is at most its own process.
LEMMA WorkProcs ==
  ASSUME BackendInv, v8 \in {"work", "start", "onthespot"}
  PROVE  /\ v6 = [k \in {"onthespot", "api"} |-> 0] /\ v5 = v6 /\ v7 # "none"
         /\ \A p \in v1 : p.kind = "work" /\ p.id = v12 /\ p.id \in v2
         /\ v12 = 0 => v1 = {}
<1>1. v6 = [k \in {"onthespot", "api"} |-> 0] /\ v5 = v6 /\ v7 # "none"
  BY BackendTypesOf DEF BackendInv, LockHolds
<1>2. \A p \in v1 : p.kind = "work" /\ p.id = v12 /\ p.id \in v2
  BY <1>1, BackendTypesOf DEF BackendInv, ProcsKnown
<1>3. v12 = 0 => v1 = {}
  BY <1>2, BackendTypesOf
<1> QED
  BY <1>1, <1>2, <1>3

\* Links, and is done: the process the registry isn't told of is the only one.
LEMMA LinksStep ==
  ASSUME BackendInv, NEW id \in ProcessIds, Backend!Links(id)
  PROVE  BackendInv'
<1>1. /\ v8 = "work" /\ v12 = 0
      /\ v1' = v1 \union {[kind |-> "link", id |-> id]} /\ v12' = id /\ v8' = "link"
      /\ UNCHANGED <<v2, v3, v4, v5, v6, v7, v11>>
  BY BackendTypesOf DEF Backend!Links, Backend!Held
<1>2. v1' = {[kind |-> "link", id |-> id]} /\ id # 0
  BY <1>1, WorkProcs, BackendTypesOf
<1>3. BackendTyped'
  BY <1>1, <1>2, BackendTypesOf DEF BackendTyped, Backend!BackendTypes, BackendInv
<1>4. LockHolds' /\ IdsDiffer(v5)' /\ IdsDiffer(v6)'
  BY <1>1 DEF LockHolds, IdsDiffer, BackendInv
<1>5. ProcsKnown'
  BY <1>1, <1>2, BackendTypesOf DEF ProcsKnown
<1> QED
  BY <1>3, <1>4, <1>5 DEF BackendInv

LEMMA LinkedStep ==
  ASSUME BackendInv, Backend!Linked
  PROVE  BackendInv'
<1>1. /\ v8 = "link" /\ [kind |-> "link", id |-> v12] \notin v1
      /\ v12' = 0 /\ v8' = "start"
      /\ UNCHANGED <<v1, v2, v3, v4, v5, v6, v7, v11>>
  BY BackendTypesOf DEF Backend!Linked, Backend!Alive, Backend!Held
<1>2. v1 = {}
  <2>1. v5 = [k \in {"onthespot", "api"} |-> 0] /\ v6 = v5
    BY <1>1, BackendTypesOf DEF BackendInv, LockHolds
  <2>2. ASSUME NEW p \in v1 PROVE p = [kind |-> "link", id |-> v12]
    <3>1. p \in [kind : {"onthespot", "api", "work", "link"}, id : ProcessIds] /\ p.id # 0 /\ p = [kind |-> p.kind, id |-> p.id]
      BY BackendTypesOf
    <3>2. p.kind = "link" /\ p.id = v12
      BY <1>1, <2>1, <3>1, BackendTypesOf DEF BackendInv, ProcsKnown
    <3> QED
      BY <3>1, <3>2
  <2> QED
    BY <1>1, <2>2
<1>3. BackendTyped'
  BY <1>1, BackendTypesOf DEF BackendTyped, Backend!BackendTypes, BackendInv
<1>4. LockHolds' /\ IdsDiffer(v5)' /\ IdsDiffer(v6)'
  BY <1>1, BackendTypesOf DEF LockHolds, IdsDiffer, BackendInv
<1>5. ProcsKnown'
  BY <1>1, <1>2 DEF ProcsKnown
<1> QED
  BY <1>3, <1>4, <1>5 DEF BackendInv

LEMMA WorkSpawnsStep ==
  ASSUME BackendInv, NEW id \in ProcessIds, Backend!WorkSpawns(id)
  PROVE  BackendInv'
<1>1. /\ v8 = "work" /\ v12 = 0 /\ v3 = FALSE
      /\ v1' = v1 \union {[kind |-> "work", id |-> id]} /\ v2' = v2 \union {id} /\ v12' = id
      /\ UNCHANGED <<v3, v4, v5, v6, v7, v8, v11>>
  BY BackendTypesOf DEF Backend!WorkSpawns, Backend!Spawn, Backend!Track, Backend!Held
<1>2. v1' = {[kind |-> "work", id |-> id]} /\ id # 0
  BY <1>1, WorkProcs, BackendTypesOf
<1>3. BackendTyped'
  BY <1>1, <1>2, BackendTypesOf DEF BackendTyped, Backend!BackendTypes, BackendInv
<1>4. LockHolds' /\ IdsDiffer(v5)' /\ IdsDiffer(v6)'
  BY <1>1 DEF LockHolds, IdsDiffer, BackendInv
<1>5. ProcsKnown'
  BY <1>1, <1>2, BackendTypesOf DEF ProcsKnown
<1> QED
  BY <1>3, <1>4, <1>5 DEF BackendInv

LEMMA WorkEndsStep ==
  ASSUME BackendInv, Backend!WorkEnds
  PROVE  BackendInv'
<1>1. /\ v8 = "work" /\ v12 # 0 /\ [kind |-> "work", id |-> v12] \notin v1
      /\ v12' = 0 /\ v2' = v2 \ {v12}
      /\ UNCHANGED <<v1, v3, v4, v5, v6, v7, v8, v11>>
  BY BackendTypesOf DEF Backend!WorkEnds, Backend!Alive, Backend!Held
<1>2. v1 = {}
  BY <1>1, WorkProcs, BackendTypesOf
<1>3. BackendTyped'
  BY <1>1, <1>2, BackendTypesOf DEF BackendTyped, Backend!BackendTypes, BackendInv
<1>4. LockHolds' /\ IdsDiffer(v5)' /\ IdsDiffer(v6)'
  BY <1>1, BackendTypesOf DEF LockHolds, IdsDiffer, BackendInv
<1>5. ProcsKnown'
  BY <1>1, <1>2, BackendTypesOf DEF ProcsKnown
<1> QED
  BY <1>3, <1>4, <1>5 DEF BackendInv

\* From one step to the next, or to the end, with no process there.
LEMMA NoProcsStep ==
  ASSUME BackendInv, v8 \in {"work", "start"}, v12 = Backend!NoPid,
         UNCHANGED <<v1, v2, v3, v4, v5, v6, v11, v12>>,
         \/ v8' \in {"work", "start", "onthespot"} /\ v7' = v7
         \/ v8' = "none" /\ v7' = "none"
  PROVE  BackendInv'
<1>1. v1 = {} /\ v6 = Backend!None /\ v5 = v6 /\ v7 # "none"
  BY WorkProcs, BackendTypesOf
<1>2. BackendTyped'
  BY BackendTypesOf DEF BackendTyped, Backend!BackendTypes, BackendInv
<1>3. LockHolds' /\ IdsDiffer(v5)' /\ IdsDiffer(v6)'
  BY <1>1, BackendTypesOf DEF LockHolds, IdsDiffer, BackendInv
<1>4. ProcsKnown'
  BY <1>1 DEF ProcsKnown
<1> QED
  BY <1>2, <1>3, <1>4 DEF BackendInv

LEMMA WorkedStep ==
  ASSUME BackendInv, Backend!Worked
  PROVE  BackendInv'
<1>1. v8 = "work" /\ v12 = Backend!NoPid /\ UNCHANGED <<v1, v2, v3, v4, v5, v6, v11, v12>>
  BY DEF Backend!Worked
<1>2. \/ v8' \in {"work", "start", "onthespot"} /\ v7' = v7
      \/ v8' = "none" /\ v7' = "none"
  BY DEF Backend!Worked, Backend!Unlock
<1> QED
  BY <1>1, <1>2, NoProcsStep

LEMMA CleanStep ==
  ASSUME BackendInv, Backend!Clean
  PROVE  BackendInv'
<1>1. v8 = "start" /\ UNCHANGED <<v1, v2, v3, v4, v5, v6, v11, v12>> /\ v8' = "onthespot" /\ v7' = v7
  BY DEF Backend!Clean, Backend!Held
<1>2. v12 = Backend!NoPid
  BY <1>1 DEF BackendInv, LockHolds
<1> QED
  BY <1>1, <1>2, NoProcsStep

\* A process starts, with an id nobody has.
LEMMA SpawnBackendStep ==
  ASSUME BackendInv, NEW k \in Backend!Backends, NEW id \in ProcessIds, Backend!SpawnBackend(k, id)
  PROVE  BackendInv'
<1>1. /\ v8 = k /\ v3 = FALSE /\ id \notin Backend!Used
      /\ v1' = v1 \union {[kind |-> k, id |-> id]} /\ v2' = v2 \union {id}
      /\ v6' = [v6 EXCEPT ![k] = id] /\ v8' = (IF k = "onthespot" THEN "api" ELSE "ready")
      /\ UNCHANGED <<v3, v4, v5, v7, v11, v12>>
  BY BackendTypesOf DEF Backend!SpawnBackend, Backend!Spawn, Backend!Track, Backend!Held
<1>2. /\ k \in {"onthespot", "api"} /\ id # 0 /\ v6[k] = 0 /\ v12 = 0 /\ v7 # "none"
      /\ v5 = [b \in {"onthespot", "api"} |-> 0] /\ (k = "onthespot" => v6["api"] = 0)
  BY <1>1, BackendTypesOf DEF BackendInv, LockHolds
<1>3. id # v6["onthespot"] /\ id # v6["api"]
  BY <1>1, BackendTypesOf DEF Backend!Used
<1>4. /\ v6' \in [{"onthespot", "api"} -> ProcessIds \union {0}] /\ v6'[k] = id
      /\ \A b \in {"onthespot", "api"} : b # k => v6'[b] = v6[b]
  BY <1>1, <1>2, BackendTypesOf
<1>5. BackendTyped'
  <2>1. v1' \subseteq [kind : {"onthespot", "api", "work", "link"}, id : ProcessIds] /\ v2' \subseteq ProcessIds
    <3>1. [kind |-> k, id |-> id] \in [kind : {"onthespot", "api", "work", "link"}, id : ProcessIds]
      BY <1>2
    <3> QED
      BY <1>1, <3>1, BackendTypesOf
  <2>2. v8' \in {"api", "ready"}
    BY <1>1
  <2> QED
    BY <1>1, <1>4, <2>1, <2>2, BackendTypesOf DEF BackendTyped, Backend!BackendTypes
<1>6. LockHolds'
  BY <1>1, <1>2, <1>4, BackendTypesOf DEF LockHolds, BackendInv
<1>7. IdsDiffer(v5)' /\ IdsDiffer(v6)'
  BY <1>1, <1>2, <1>3, <1>4, BackendTypesOf DEF IdsDiffer, BackendInv
<1>8. ProcsKnown'
  <2>1. \A p \in v1 : p.kind \in {"onthespot", "api"} /\ p.id \in v2 /\ p.id = v6[p.kind] /\ p.id # 0
    BY <1>1, <1>2, BackendTypesOf DEF BackendInv, ProcsKnown
  <2>2. \A p \in v1 : p.kind # k /\ v6'[p.kind] = v6[p.kind]
    BY <1>2, <1>4, <2>1
  <2>3. ASSUME NEW p \in v1' PROVE p.kind \in {"onthespot", "api"} /\ p.id \in v2' /\ p.id = v6'[p.kind]
    <3>1. CASE p \in v1
      BY <1>1, <2>1, <2>2, <3>1
    <3>2. CASE p = [kind |-> k, id |-> id]
      BY <1>1, <1>2, <1>4, <3>2
    <3> QED
      BY <1>1, <2>3, <3>1, <3>2
  <2> QED
    BY <1>1, <2>3, BackendTypesOf DEF ProcsKnown
<1> QED
  BY <1>5, <1>6, <1>7, <1>8 DEF BackendInv

\* A start that fails leaves nothing, wherever it had got to.
LEMMA StartFailsStep ==
  ASSUME BackendInv, Backend!StartFails
  PROVE  BackendInv'
<1>1. /\ v8 \in {"onthespot", "api", "ready"} /\ v6' = Backend!None /\ v7' = "none" /\ v8' = "none"
      /\ v1' = {p \in v1 : p.kind \notin {"onthespot", "api"} \/ p.id # v6[p.kind]} /\ v2' \subseteq v2
      /\ UNCHANGED <<v3, v4, v5, v11, v12>>
  BY BackendTypesOf DEF Backend!StartFails, Backend!Aborted, Backend!Unlock
<1>2. v5 = [b \in {"onthespot", "api"} |-> 0] /\ v12 = 0
  BY <1>1, BackendTypesOf DEF BackendInv, LockHolds
<1>3. v1' = {}
  <2>1. \A p \in v1 : p.kind \in {"onthespot", "api"} /\ p.id = v6[p.kind]
    BY <1>1, <1>2, BackendTypesOf DEF BackendInv, ProcsKnown
  <2> QED
    BY <1>1, <2>1
<1>4. BackendTyped'
  BY <1>1, <1>3, BackendTypesOf DEF BackendTyped, Backend!BackendTypes, BackendInv
<1>5. LockHolds' /\ IdsDiffer(v5)' /\ IdsDiffer(v6)'
  BY <1>1, <1>2, BackendTypesOf DEF LockHolds, IdsDiffer
<1>6. ProcsKnown'
  BY <1>3 DEF ProcsKnown
<1> QED
  BY <1>4, <1>5, <1>6 DEF BackendInv

LEMMA StartedStep ==
  ASSUME BackendInv, Backend!Started
  PROVE  BackendInv'
<1>1. /\ v8 = "ready" /\ v5' = v6 /\ v6' = Backend!None /\ v7' = "none" /\ v8' = "none" /\ v4' = TRUE
      /\ UNCHANGED <<v1, v2, v3, v12>>
  BY DEF Backend!Started, Backend!Unlock
<1>2. v11' \in {"off", "sleep", "wait"}
  BY BackendTypesOf DEF Backend!Started
<1>3. v5 = [b \in {"onthespot", "api"} |-> 0] /\ v12 = 0
  BY <1>1, BackendTypesOf DEF BackendInv, LockHolds
<1>4. BackendTyped'
  BY <1>1, <1>2, BackendTypesOf DEF BackendTyped, Backend!BackendTypes, BackendInv
<1>5. LockHolds'
  BY <1>1, <1>3, BackendTypesOf DEF LockHolds
<1>6. IdsDiffer(v5)' /\ IdsDiffer(v6)'
  BY <1>1, BackendTypesOf DEF IdsDiffer, BackendInv
<1>7. ProcsKnown'
  BY <1>1, <1>3, BackendTypesOf DEF ProcsKnown, BackendInv
<1> QED
  BY <1>4, <1>5, <1>6, <1>7 DEF BackendInv

LEMMA BackendInitHolds == Backend!BackendInit => BackendInv
<1> SUFFICES ASSUME Backend!BackendInit PROVE BackendInv
  OBVIOUS
<1> QED
  BY DEF Backend!BackendInit, BackendInv, BackendTyped, Backend!BackendTypes, Backend!None, Backend!Backends,
     Backend!NoPid, LockHolds, IdsDiffer, ProcsKnown

LEMMA BackendNextKeeps ==
  ASSUME BackendInv, Backend!BackendNext
  PROVE  BackendInv'
<1>1. CASE \E p \in v1 : Backend!Dies(p)
  BY <1>1, ProcsEnd DEF Backend!Dies
<1>2. CASE Backend!AskBase \/ Backend!AskInstall
  BY <1>2, BackendSame, BackendTypesOf DEF Backend!AskBase, Backend!AskInstall
<1>3. CASE Backend!LookAgain
  BY <1>3, BackendSame DEF Backend!LookAgain
<1> QED
  BY <1>1, <1>2, <1>3, KillAllStep, LockStep, StopStep, WorkSpawnsStep, LinksStep, LinkedStep, WorkEndsStep, WorkedStep, CleanStep,
     SpawnBackendStep, StartFailsStep, StartedStep DEF Backend!BackendNext

LEMMA BackendHolds == BackendInv => Backend!BackendTypes /\ Backend!BackendRight
<1> SUFFICES ASSUME BackendInv PROVE Backend!BackendTypes /\ Backend!BackendRight
  OBVIOUS
<1>1. Backend!BackendTypes
  BY DEF BackendInv, BackendTyped
<1>2. Backend!NoneOutlives
  <2> SUFFICES ASSUME v3, NEW p \in v1 PROVE v8 = "link" /\ p = [kind |-> "link", id |-> v12]
    BY DEF Backend!NoneOutlives
  <2>1. p = [kind |-> p.kind, id |-> p.id] /\ v3 = TRUE
    BY BackendTypesOf
  <2> QED
    BY <2>1 DEF BackendInv, ProcsKnown
<1>3. Backend!NoneLost
  BY DEF BackendInv, ProcsKnown, Backend!NoneLost
<1>4. v5 = [b \in {"onthespot", "api"} |-> 0] \/ v6 = [b \in {"onthespot", "api"} |-> 0]
  BY BackendTypesOf DEF BackendInv, LockHolds
<1>5. Backend!OneOfEach
  <2>0. \A S : Backend!Cardinality(S) = Cardinality(S)
    BY DEF Backend!Cardinality, Cardinality
  <2> SUFFICES ASSUME NEW k \in Backend!Backends PROVE Cardinality(Backend!Live(k)) <= 1
    BY <2>0 DEF Backend!OneOfEach
  <2> DEFINE one == [kind |-> k, id |-> IF v5[k] = 0 THEN v6[k] ELSE v5[k]]
  <2>1. \A p \in Backend!Live(k) : p \in v1 /\ p.kind = k /\ p.id \in {v5[k], v6[k]} /\ p.id # 0
    BY BackendTypesOf DEF BackendInv, ProcsKnown, Backend!Live
  <2>2. v5[k] = 0 \/ v6[k] = 0
    BY <1>4, BackendTypesOf
  <2>3. ASSUME NEW p \in Backend!Live(k) PROVE p = one
    <3>1. p = [kind |-> p.kind, id |-> p.id] /\ p.kind = k /\ p.id \in {v5[k], v6[k]} /\ p.id # 0
      BY <2>1, BackendTypesOf
    <3>2. p.id = IF v5[k] = 0 THEN v6[k] ELSE v5[k]
      BY <2>2, <3>1
    <3> QED
      BY <3>1, <3>2
  <2>4. Backend!Live(k) = {} \/ Backend!Live(k) = {one}
    <3> HIDE DEF one
    <3> QED
      BY <2>3
  <2>5. Cardinality(Backend!Live(k)) \in {0, 1}
    BY <2>4, FS_EmptySet, FS_Singleton
  <2> QED
    BY <2>5
<1>6. Backend!WorkAlone
  <2> SUFFICES ASSUME Backend!Live("work") # {} PROVE Backend!Live("onthespot") = {} /\ Backend!Live("api") = {}
    BY DEF Backend!WorkAlone
  <2>2. v8 = "work"
    BY DEF BackendInv, ProcsKnown, Backend!Live
  <2> QED
    BY <2>2, WorkProcs DEF Backend!Live
<1>7. Backend!OnlyDebris
  BY WorkProcs DEF Backend!OnlyDebris, Backend!Live
<1> QED
  BY <1>1, <1>2, <1>3, <1>5, <1>6, <1>7 DEF Backend!BackendRight

(***************************************************************************)
(* PrepareSong: v1 source, v2 task, v3 cut, v4 dl, v5 job, v6 orphan,      *)
(* v7 phase, v8 stage, v9 loading, v10 match, v11 told, v12 local.         *)
(***************************************************************************)

\* Which task waits for which: those of the mix for the phase, the alignment
\* for the stems; and how the stems can end.
MixOrder ==
  /\ v7 = "fetching" => v2["separate"] = "idle" /\ v2["beats"] = "idle"
  /\ v7 \in {"fetching", "mixing"} => v2["align"] = "idle"
  /\ v2["align"] # "idle" => v2["separate"] \in Prepare!Ends
  /\ v2["separate"] \in {"idle", "run", "ok"} \union Prepare!Failures
  /\ v2["separate"] = "aborted" => v3 = TRUE

\* Lyrics are picked once the searches that are needed have ended.
LyricsOrder ==
  /\ v7 \in {"aligning", "returned"} => v10 # "unknown"
  /\ v10 # "unknown" =>
       /\ v2["byArtist"] \in Prepare!Ends /\ v2["language"] \in Prepare!Ends
       /\ (v1.names = "both" /\ ~Prepare!InLanguage(v2["byArtist"])) => v2["byTitle"] \in Prepare!Ends

\* The audio is fetched once the download has it.
DownloadOrder ==
  /\ v4 = "posting" => v5 = "none" /\ v6 = FALSE
  /\ v4 \in {"posting", "polling"} => v2["bytes"] = "idle"

PrepareInv ==
  /\ Prepare!RTypes /\ MixOrder /\ LyricsOrder /\ DownloadOrder
  /\ Prepare!OnlyAudioFails /\ Prepare!StageTrue /\ Prepare!FailuresTold /\ Prepare!NoDownloadLeft

TaskNames == {"itunes", "lrclib", "segments", "byArtist", "byTitle", "separate", "beats", "align", "bytes",
              "language", "pitch", "duration"}
EndNames == {"error", "models", "unreachable", "aborted", "ok", "none", "native", "romanised"}

LEMMA PrepareTypesOf ==
  ASSUME PrepareInv
  PROVE  /\ v2 \in [TaskNames -> {"idle", "run"} \union EndNames]
         /\ v3 \in BOOLEAN /\ v6 \in BOOLEAN
         /\ v4 \in {"none", "posting", "polling", "ended", "failed"}
         /\ v5 \in {"none", "running", "audio", "failed", "cancelled"}
         /\ v7 \in {"fetching", "mixing", "aligning", "returned", "rejected"}
         /\ v8 \in {"none", "downloading", "loadingModels", "separating", "aligning"}
         /\ v9 \subseteq {"separate", "beats", "align"} /\ v10 \in {"unknown", "found", "missed"}
         /\ v11 \subseteq {"serverDown", "keptFullMix", "alignFailed"} /\ v12 \in {"up", "starting", "failed"}
         /\ Prepare!Tasks = TaskNames /\ Prepare!Ends = EndNames
         /\ Prepare!Jobs = {"separate", "beats", "align"}
         /\ Prepare!Failures = {"error", "models", "unreachable", "aborted"}
<1>1. Prepare!Tasks = TaskNames
  BY DEF Prepare!Tasks, Prepare!Public, Prepare!Backend, Prepare!Jobs, TaskNames
<1>2. /\ Prepare!Ends = EndNames /\ Prepare!Jobs = {"separate", "beats", "align"}
      /\ Prepare!Failures = {"error", "models", "unreachable", "aborted"}
  BY DEF Prepare!Ends, Prepare!Failures, Prepare!Jobs, EndNames
<1> QED
  BY <1>1, <1>2 DEF PrepareInv, Prepare!RTypes

\* What has ended stays so, and what the download knows isn't forgotten.
LEMMA StillNoSource ==
  ASSUME PrepareInv, v2' \in [TaskNames -> {"idle", "run"} \union EndNames],
         v2["bytes"] \in Prepare!Failures => v2'["bytes"] = v2["bytes"],
         v2["duration"] \in Prepare!Failures => v2'["duration"] = v2["duration"],
         v4 = "failed" /\ v2["bytes"] = "idle" => v4' = "failed" /\ v2'["bytes"] = "idle",
         v3 = TRUE => v3' = TRUE,
         v7' = "rejected" => v7 = "rejected" \/ v3' = TRUE
  PROVE  Prepare!OnlyAudioFails'
BY PrepareTypesOf DEF PrepareInv, Prepare!OnlyAudioFails, Prepare!NoSource, Prepare!AudioFailed

\* A task begins that only the search for lyrics, or the length, waits for.
LEMMA IdleBegins ==
  ASSUME PrepareInv, NEW t \in {"duration", "byArtist", "byTitle", "language"}, NEW to \in {"run", "none"},
         v2[t] = "idle", v2' = [v2 EXCEPT ![t] = to],
         UNCHANGED <<v1, v3, v4, v5, v6, v7, v8, v9, v10, v11, v12>>
  PROVE  PrepareInv'
<1>1. /\ v2' \in [TaskNames -> {"idle", "run"} \union EndNames]
      /\ \A u \in TaskNames : u # t => v2'[u] = v2[u]
      /\ v2'[t] = to
  BY PrepareTypesOf DEF TaskNames, EndNames
<1>2. /\ \A u \in {"separate", "beats", "align", "bytes"} : v2'[u] = v2[u]
      /\ t \in TaskNames
  BY <1>1 DEF TaskNames
<1>3. Prepare!RTypes'
  BY <1>1, PrepareTypesOf DEF PrepareInv, Prepare!RTypes
<1>4. MixOrder'
  BY <1>2, PrepareTypesOf DEF PrepareInv, MixOrder
<1>5. LyricsOrder'
  <2>1. CASE v10 = "unknown"
    BY <2>1 DEF PrepareInv, LyricsOrder
  <2>2. CASE v10 # "unknown"
    <3>1. /\ v2["byArtist"] \in EndNames /\ v2["language"] \in EndNames
          /\ v1.names = "both" /\ ~Prepare!InLanguage(v2["byArtist"]) => v2["byTitle"] \in EndNames
      BY <2>2, PrepareTypesOf DEF PrepareInv, LyricsOrder
    <3>2. t # "byArtist" /\ t # "language"
      BY <3>1 DEF EndNames
    <3>3. v2'["byArtist"] = v2["byArtist"] /\ v2'["language"] = v2["language"]
      BY <1>1, <3>2 DEF TaskNames
    <3>4. (Prepare!InLanguage(v2["byArtist"]))' <=> Prepare!InLanguage(v2["byArtist"])
      BY <3>3 DEF Prepare!InLanguage
    <3>5. v2["byTitle"] \in EndNames => v2'["byTitle"] = v2["byTitle"]
      BY <1>1 DEF TaskNames, EndNames
    <3> QED
      BY <2>2, <3>1, <3>3, <3>4, <3>5, PrepareTypesOf DEF PrepareInv, LyricsOrder
  <2> QED
    BY <2>1, <2>2
<1>6. DownloadOrder'
  BY <1>2 DEF PrepareInv, DownloadOrder
<1>7. Prepare!OnlyAudioFails'
  <2>1. v2["duration"] \in Prepare!Failures => v2'["duration"] = v2["duration"]
    BY <1>1, PrepareTypesOf DEF TaskNames
  <2> QED
    BY <1>1, <1>2, <2>1, StillNoSource
<1>8. Prepare!StageTrue'
  BY <1>2, PrepareTypesOf DEF PrepareInv, Prepare!StageTrue
<1>9. Prepare!FailuresTold' /\ Prepare!NoDownloadLeft'
  BY <1>2 DEF PrepareInv, Prepare!FailuresTold, Prepare!NoDownloadLeft
<1> QED
  BY <1>3, <1>4, <1>5, <1>6, <1>7, <1>8, <1>9 DEF PrepareInv

LEMMA SearchesBegin ==
  ASSUME PrepareInv, Prepare!BeginDuration \/ Prepare!BeginSearch \/ Prepare!BeginLanguage
  PROVE  PrepareInv'
<1>1. CASE Prepare!BeginDuration
  BY <1>1, IdleBegins DEF Prepare!BeginDuration, Prepare!DurationDue, Prepare!OfTask
<1>2. CASE Prepare!BeginSearch
  <2>1. PICK to \in {"run", "none"} : v2' = [v2 EXCEPT !["byArtist"] = to]
    BY <1>2 DEF Prepare!BeginSearch, Prepare!OfTask
  <2> QED
    BY <1>2, <2>1, IdleBegins DEF Prepare!BeginSearch, Prepare!SearchDue
<1>3. CASE Prepare!BeginLanguage
  <2>1. PICK to \in {"run", "none"} : v2' = [v2 EXCEPT !["language"] = to]
    BY <1>3 DEF Prepare!BeginLanguage, Prepare!OfTask
  <2> QED
    BY <1>3, <2>1, IdleBegins DEF Prepare!BeginLanguage, Prepare!LanguageDue
<1> QED
  BY <1>1, <1>2, <1>3

LEMMA BeginMixStep ==
  ASSUME PrepareInv, Prepare!BeginMix
  PROVE  PrepareInv'
<1>1. /\ v7 = "fetching" /\ v7' = "mixing" /\ v8' = "separating"
      /\ v2' = [v2 EXCEPT !["separate"] = "run", !["beats"] = "run"]
      /\ UNCHANGED <<v1, v3, v4, v5, v6, v9, v10, v11, v12>>
  BY DEF Prepare!BeginMix, Prepare!MixDue
<1>2. /\ v2' \in [TaskNames -> {"idle", "run"} \union EndNames]
      /\ \A u \in TaskNames : u \notin {"separate", "beats"} => v2'[u] = v2[u]
      /\ v2'["separate"] = "run" /\ v2'["beats"] = "run"
  BY <1>1, PrepareTypesOf DEF TaskNames, EndNames
<1>3. \A u \in {"align", "bytes", "byArtist", "byTitle", "language", "duration"} : v2'[u] = v2[u]
  BY <1>2 DEF TaskNames
<1>4. v2["separate"] = "idle" /\ v2["beats"] = "idle" /\ v2["align"] = "idle" /\ v9 = {}
  BY <1>1, PrepareTypesOf DEF PrepareInv, MixOrder, Prepare!StageTrue
<1>5. Prepare!RTypes'
  BY <1>1, <1>2, PrepareTypesOf DEF PrepareInv, Prepare!RTypes
<1>6. MixOrder' /\ LyricsOrder' /\ DownloadOrder'
  <2>1. MixOrder'
    BY <1>1, <1>2, <1>3, <1>4, PrepareTypesOf DEF MixOrder
  <2>2. LyricsOrder'
    BY <1>1, <1>3, PrepareTypesOf DEF PrepareInv, LyricsOrder, Prepare!InLanguage
  <2>3. DownloadOrder'
    BY <1>1, <1>3, PrepareTypesOf DEF PrepareInv, DownloadOrder
  <2> QED
    BY <2>1, <2>2, <2>3
<1>7. Prepare!OnlyAudioFails'
  BY <1>1, <1>2, <1>3, StillNoSource
<1>8. Prepare!StageTrue'
  BY <1>1, <1>4, PrepareTypesOf DEF Prepare!StageTrue
<1>9. Prepare!FailuresTold' /\ Prepare!NoDownloadLeft'
  BY <1>1, <1>2, <1>3, <1>4, PrepareTypesOf DEF PrepareInv, Prepare!FailuresTold, Prepare!NoDownloadLeft
<1> QED
  BY <1>5, <1>6, <1>7, <1>8, <1>9 DEF PrepareInv

\* The phase ends, or goes from one to the next, with the tasks as they are.
LEMMA PhaseEnds ==
  ASSUME PrepareInv, UNCHANGED <<v1, v2, v3, v4, v5, v6, v8, v9, v10, v11, v12>>,
         \/ v7' = "rejected" /\ (v3 = TRUE \/ Prepare!NoSource)
         \/ v7 = "aligning" /\ v7' = "returned"
  PROVE  PrepareInv'
<1>1. Prepare!RTypes'
  BY PrepareTypesOf DEF PrepareInv, Prepare!RTypes
<1>2. MixOrder' /\ LyricsOrder' /\ DownloadOrder'
  BY DEF PrepareInv, MixOrder, LyricsOrder, DownloadOrder, Prepare!InLanguage
<1>3. Prepare!OnlyAudioFails'
  BY DEF PrepareInv, Prepare!OnlyAudioFails, Prepare!NoSource, Prepare!AudioFailed
<1>4. Prepare!StageTrue' /\ Prepare!FailuresTold' /\ Prepare!NoDownloadLeft'
  BY DEF PrepareInv, Prepare!StageTrue, Prepare!FailuresTold, Prepare!NoDownloadLeft
<1> QED
  BY <1>1, <1>2, <1>3, <1>4 DEF PrepareInv

LEMMA EndSteps ==
  ASSUME PrepareInv, Prepare!RejectPrepare \/ Prepare!Return
  PROVE  PrepareInv'
<1>1. CASE Prepare!RejectPrepare
  BY <1>1, PhaseEnds DEF Prepare!RejectPrepare, Prepare!RejectDue
<1>2. CASE Prepare!Return
  <2>1. (v3 = TRUE /\ v7' = "rejected") \/ v7' = "returned"
    BY <1>2, PrepareTypesOf DEF Prepare!Return
  <2> QED
    BY <1>2, <2>1, PhaseEnds DEF Prepare!Return, Prepare!ReturnDue
<1> QED
  BY <1>1, <1>2

LEMMA PickStep ==
  ASSUME PrepareInv, NEW parsed \in BOOLEAN, Prepare!Pick(parsed)
  PROVE  PrepareInv'
<1>1. CASE Prepare!NeedsTitle /\ v2["byTitle"] = "idle"
  BY <1>1, IdleBegins DEF Prepare!Pick, Prepare!OfTask
<1>2. CASE ~(Prepare!NeedsTitle /\ v2["byTitle"] = "idle")
  <2>1. /\ v10' \in {"found", "missed"} /\ v10 = "unknown"
        /\ UNCHANGED <<v1, v2, v3, v4, v5, v6, v7, v8, v9, v11, v12>>
    BY <1>2 DEF Prepare!Pick, Prepare!PickDue
  <2>2. /\ v2["language"] \in EndNames /\ v2["byArtist"] \in EndNames /\ v2["byTitle"] # "run"
    BY PrepareTypesOf DEF Prepare!Pick, Prepare!PickDue, Prepare!EndedTask
  <2>3. (v1.names = "both" /\ ~Prepare!InLanguage(v2["byArtist"])) => v2["byTitle"] \in EndNames
    <3>1. v2["byTitle"] \in {"idle", "run"} \union EndNames
      BY PrepareTypesOf DEF TaskNames
    <3> QED
      BY <1>2, <2>2, <3>1 DEF Prepare!NeedsTitle, Prepare!CanRetry
  <2>4. Prepare!RTypes'
    BY <2>1, PrepareTypesOf DEF PrepareInv, Prepare!RTypes
  <2>5. LyricsOrder'
    BY <2>1, <2>2, <2>3, PrepareTypesOf DEF LyricsOrder, Prepare!InLanguage
  <2>6. MixOrder' /\ DownloadOrder' /\ Prepare!OnlyAudioFails' /\ Prepare!StageTrue'
        /\ Prepare!FailuresTold' /\ Prepare!NoDownloadLeft'
    BY <2>1 DEF PrepareInv, MixOrder, DownloadOrder, Prepare!OnlyAudioFails, Prepare!NoSource, Prepare!AudioFailed,
       Prepare!StageTrue, Prepare!FailuresTold, Prepare!NoDownloadLeft
  <2> QED
    BY <2>4, <2>5, <2>6 DEF PrepareInv
<1> QED
  BY <1>1, <1>2

LEMMA BeginAlignStep ==
  ASSUME PrepareInv, Prepare!BeginAlign
  PROVE  PrepareInv'
<1>1. /\ v7 = "mixing" /\ v10 # "unknown" /\ v2["separate"] \in EndNames /\ v2["beats"] \in EndNames
      /\ UNCHANGED <<v1, v3, v4, v5, v6, v9, v10, v11, v12>>
  BY PrepareTypesOf DEF Prepare!BeginAlign, Prepare!AlignDue, Prepare!EndedTask
<1>2. CASE v3 = TRUE
  <2>1. v7' = "rejected" /\ UNCHANGED <<v2, v8>>
    BY <1>2, Zenon DEF Prepare!BeginAlign
  <2> QED
    BY <1>1, <1>2, <2>1, PhaseEnds
<1>3. CASE v3 = FALSE
  <2>1. /\ v7' = "aligning"
        /\ v2' = [v2 EXCEPT !["align"] = IF v10 = "found" THEN "run" ELSE @,
                            !["pitch"] = IF v2["separate"] = "ok" THEN "run" ELSE @]
        /\ v8' = IF v10 = "found" THEN "aligning" ELSE v8
    BY <1>3 DEF Prepare!BeginAlign
  <2>2. v2["align"] = "idle" /\ v9 = {}
    <3>1. v2["align"] = "idle"
      BY <1>1 DEF PrepareInv, MixOrder
    <3>2. \A u \in v9 : u \in {"separate", "beats", "align"} /\ v2[u] = "run"
      BY PrepareTypesOf DEF PrepareInv, Prepare!StageTrue
    <3>3. v2["separate"] # "run" /\ v2["beats"] # "run"
      BY <1>1 DEF EndNames
    <3> QED
      BY <3>1, <3>2, <3>3
  <2>3. /\ v2' \in [TaskNames -> {"idle", "run"} \union EndNames]
        /\ \A u \in TaskNames : u \notin {"align", "pitch"} => v2'[u] = v2[u]
        /\ v2'["align"] \in {"idle", "run"}
    BY <2>1, <2>2, PrepareTypesOf DEF TaskNames, EndNames
  <2>4. \A u \in {"separate", "beats", "bytes", "byArtist", "byTitle", "language", "duration"} : v2'[u] = v2[u]
    BY <2>3 DEF TaskNames
  <2>5. Prepare!RTypes'
    BY <1>1, <2>1, <2>3, PrepareTypesOf DEF PrepareInv, Prepare!RTypes
  <2>6. MixOrder'
    BY <1>1, <2>1, <2>4, PrepareTypesOf DEF PrepareInv, MixOrder
  <2>7. LyricsOrder' /\ DownloadOrder'
    BY <1>1, <2>4 DEF PrepareInv, LyricsOrder, DownloadOrder, Prepare!InLanguage
  <2>8. Prepare!OnlyAudioFails'
    BY <1>1, <2>1, <2>3, <2>4, StillNoSource
  <2>9. Prepare!StageTrue'
    BY <1>1, <2>1, <2>2, PrepareTypesOf DEF PrepareInv, Prepare!StageTrue
  <2>10. Prepare!FailuresTold' /\ Prepare!NoDownloadLeft'
    BY <1>1, <2>3, <2>4, PrepareTypesOf DEF PrepareInv, Prepare!FailuresTold, Prepare!NoDownloadLeft
  <2> QED
    BY <2>5, <2>6, <2>7, <2>8, <2>9, <2>10 DEF PrepareInv
<1> QED
  BY <1>2, <1>3, PrepareTypesOf

\* A failure is told: with the stems' why, or that the server is down, unless
\* the desktop reports its own backend.
LEMMA AnsweredStep ==
  ASSUME PrepareInv, NEW t \in Prepare!Tasks, NEW r \in Prepare!Ends, v2[t] = "run", Prepare!Answered(t, r)
  PROVE  PrepareInv'
<1> DEFINE end == IF t \in Prepare!Quiet /\ r # "ok" THEN "none" ELSE r
<1>1. /\ t \in TaskNames /\ r \in EndNames /\ end \in EndNames /\ Prepare!MayEnd(t, r)
      /\ v9' = v9 \ {t} /\ v8' = (IF t \in v9 THEN Prepare!Reported(v9 \ {t}) ELSE v8)
      /\ v11' = Prepare!Down(r, v11 \union Prepare!Said(t, r))
      /\ UNCHANGED <<v1, v3, v4, v5, v6, v7, v10, v12>>
  BY PrepareTypesOf DEF Prepare!Answered, EndNames
<1>2. /\ v2' \in [TaskNames -> {"idle", "run"} \union EndNames]
      /\ v2'[t] = end
      /\ \A u \in TaskNames : u # t /\ u # "lrclib" /\ u # "byTitle" => v2'[u] = v2[u]
      /\ t # "byArtist" /\ t # "byTitle" => v2'["byTitle"] = v2["byTitle"]
  <2>1. v2' = [u \in TaskNames |->
          CASE u = t -> end
            [] u = "lrclib" /\ t = "itunes" /\ r # "ok" /\ ~v3 -> "run"
            [] u = "byTitle" /\ t = "byArtist" /\ r \notin {"native", "romanised"} /\ Prepare!CanRetry -> "run"
            [] OTHER -> v2[u]]
    BY PrepareTypesOf DEF Prepare!Answered
  <2> HIDE DEF end
  <2>2. \A u \in TaskNames : v2'[u] \in {end, "run", v2[u]}
    BY <2>1
  <2>3. DOMAIN v2' = TaskNames /\ v2' = [u \in TaskNames |-> v2'[u]]
    BY <2>1
  <2>4. \A u \in TaskNames : v2'[u] \in {"idle", "run"} \union EndNames
    BY <1>1, <2>2, PrepareTypesOf
  <2>5. v2'[t] = end
    BY <1>1, <2>1
  <2>6. \A u \in TaskNames : u # t /\ u # "lrclib" /\ u # "byTitle" => v2'[u] = v2[u]
    BY <2>1
  <2>7. t # "byArtist" /\ t # "byTitle" => v2'["byTitle"] = v2["byTitle"]
    BY <2>1 DEF TaskNames
  <2>8. v2' \in [TaskNames -> {"idle", "run"} \union EndNames]
    BY <2>3, <2>4
  <2> QED
    BY <2>5, <2>6, <2>7, <2>8
<1>3. \A u \in {"separate", "beats", "align", "bytes", "byArtist", "language", "duration"} : u # t => v2'[u] = v2[u]
  BY <1>2 DEF TaskNames
<1>4. v11 \subseteq v11' /\ v11' \subseteq {"serverDown", "keptFullMix", "alignFailed"}
      /\ Prepare!Said(t, r) \subseteq v11'
  BY <1>1, PrepareTypesOf DEF Prepare!Down, Prepare!Said
<1> HIDE DEF end
<1>5. Prepare!RTypes'
  <2>1. v8' \in {"none", "downloading", "loadingModels", "separating", "aligning"}
    BY <1>1, PrepareTypesOf DEF Prepare!Reported
  <2>2. v9' \subseteq Prepare!Jobs /\ v2' \in [Prepare!Tasks -> {"idle", "run"} \union Prepare!Ends]
    BY <1>1, <1>2, PrepareTypesOf
  <2>3. Prepare!RTypes
    BY DEF PrepareInv
  <2> QED
    BY <1>1, <1>4, <2>1, <2>2, <2>3 DEF Prepare!RTypes
<1>6. t = "separate" => /\ end = r /\ r \in {"ok", "error", "models", "unreachable", "aborted"}
                        /\ r = "aborted" => v3 = TRUE
                        /\ r = "unreachable" => v12 \in {"up", "failed"}
  BY <1>1, PrepareTypesOf DEF Prepare!MayEnd, Prepare!Quiet, Prepare!Public, Prepare!Searches, Prepare!Backend, end
<1>7. t = "align" => /\ end = r /\ r \in {"ok", "error", "models", "unreachable", "aborted"}
                     /\ r # "aborted" => v3 = FALSE
                     /\ r = "unreachable" => v12 \in {"up", "failed"}
  BY <1>1, PrepareTypesOf DEF Prepare!MayEnd, Prepare!Quiet, Prepare!Public, Prepare!Searches, Prepare!Backend, end
<1>8. t \in {"bytes", "duration"} => v2'[t] = end
  BY <1>2
<1>9. MixOrder'
  <2>1. v7 = "fetching" => t # "separate" /\ t # "beats"
    BY DEF PrepareInv, MixOrder
  <2>2. v7 \in {"fetching", "mixing"} => t # "align"
    BY DEF PrepareInv, MixOrder
  <2>3. t = "align" => v2["separate"] \in EndNames /\ v2'["separate"] = v2["separate"]
    BY <1>3, PrepareTypesOf DEF PrepareInv, MixOrder
  <2>4. CASE t = "separate"
    <3>1. v2'["separate"] = r /\ v2'["align"] = v2["align"] /\ v7 # "fetching"
      BY <1>2, <1>3, <1>6, <2>1, <2>4
    <3> QED
      BY <1>1, <1>6, <2>4, <3>1, PrepareTypesOf DEF PrepareInv, MixOrder
  <2>5. CASE t # "separate"
    <3>1. v2'["separate"] = v2["separate"]
      BY <1>3, <2>5
    <3>2. v7 = "fetching" => v2'["beats"] = v2["beats"]
      BY <1>3, <2>1
    <3>3. v7 \in {"fetching", "mixing"} => v2'["align"] = v2["align"]
      BY <1>3, <2>2
    <3>4. v2'["align"] # "idle" => v2["separate"] \in Prepare!Ends
      BY <1>3, <2>3, PrepareTypesOf DEF PrepareInv, MixOrder
    <3> QED
      BY <1>1, <3>1, <3>2, <3>3, <3>4, PrepareTypesOf DEF PrepareInv, MixOrder
  <2> QED
    BY <2>4, <2>5
<1>10. LyricsOrder'
  <2>1. CASE v10 = "unknown"
    BY <1>1, <2>1 DEF PrepareInv, LyricsOrder
  <2>2. CASE v10 # "unknown"
    <3>1. /\ v2["byArtist"] \in EndNames /\ v2["language"] \in EndNames
          /\ v1.names = "both" /\ ~Prepare!InLanguage(v2["byArtist"]) => v2["byTitle"] \in EndNames
      BY <2>2, PrepareTypesOf DEF PrepareInv, LyricsOrder
    <3>2. t # "byArtist" /\ t # "language"
      BY <3>1 DEF EndNames
    <3>3. v2'["byArtist"] = v2["byArtist"] /\ v2'["language"] = v2["language"]
      BY <1>3, <3>2
    <3>4. (Prepare!InLanguage(v2["byArtist"]))' <=> Prepare!InLanguage(v2["byArtist"])
      BY <3>3 DEF Prepare!InLanguage
    <3>5. v2["byTitle"] \in EndNames => v2'["byTitle"] = v2["byTitle"]
      BY <1>2, <3>2 DEF EndNames
    <3> QED
      BY <1>1, <2>2, <3>1, <3>3, <3>4, <3>5, PrepareTypesOf DEF PrepareInv, LyricsOrder
  <2> QED
    BY <2>1, <2>2
<1>11. DownloadOrder'
  BY <1>1, <1>3 DEF PrepareInv, DownloadOrder
<1>12. Prepare!OnlyAudioFails'
  <2>1. /\ v2["bytes"] \in Prepare!Failures \union {"idle"} => v2'["bytes"] = v2["bytes"]
        /\ v2["duration"] \in Prepare!Failures => v2'["duration"] = v2["duration"]
    BY <1>3, PrepareTypesOf
  <2> QED
    BY <1>1, <1>2, <2>1, StillNoSource
<1>13. Prepare!StageTrue'
  <2>1. \A u \in v9 : u \in {"separate", "beats", "align"} /\ v2[u] = "run"
    BY PrepareTypesOf DEF PrepareInv, Prepare!StageTrue
  <2>2. \A u \in v9' : u \in {"separate", "beats", "align"} /\ v2'[u] = "run"
    BY <1>1, <1>3, <2>1
  <2>3. v8' = "loadingModels" <=> v9' # {}
    BY <1>1 DEF PrepareInv, Prepare!StageTrue, Prepare!Reported
  <2>4. v7' = "mixing" => v8' \in {"loadingModels", "separating"}
    BY <1>1 DEF PrepareInv, Prepare!StageTrue, Prepare!Reported
  <2> QED
    BY <2>2, <2>3, <2>4, PrepareTypesOf DEF Prepare!StageTrue
<1>14. Prepare!FailuresTold'
  <2>1. r = "unreachable" => "serverDown" \in v11' \/ v12 # "up"
    BY <1>1 DEF Prepare!Down
  <2>2. v2'["separate"] \in {"error", "models", "unreachable"} =>
          "keptFullMix" \in v11' \/ "serverDown" \in v11' \/ v12 = "failed"
    <3>1. CASE t = "separate"
      <4>1. v2'["separate"] = r
        BY <1>2, <1>6, <3>1
      <4>2. r \in {"error", "models"} => Prepare!Said(t, r) = {"keptFullMix"}
        BY <3>1 DEF Prepare!Said
      <4> QED
        BY <1>4, <1>6, <2>1, <3>1, <4>1, <4>2
    <3>2. CASE t # "separate"
      <4>1. v2'["separate"] = v2["separate"]
        BY <1>3, <3>2
      <4> QED
        BY <1>4, <4>1, PrepareTypesOf DEF PrepareInv, Prepare!FailuresTold
    <3> QED
      BY <3>1, <3>2
  <2>3. CASE t = "align"
    <3>1. v2'["align"] = r /\ v2'["separate"] = v2["separate"] /\ v2["separate"] \in Prepare!Ends
      BY <1>2, <1>3, <1>7, <2>3 DEF PrepareInv, MixOrder
    <3>2. r = "error" \/ (r = "models" /\ v2["separate"] = "ok") => Prepare!Said(t, r) = {"alignFailed"}
      BY <2>3 DEF Prepare!Said
    <3>3. r = "models" /\ v2["separate"] # "ok" => v2["separate"] \in {"error", "models", "unreachable"}
      BY <1>7, <2>3, <3>1, PrepareTypesOf DEF PrepareInv, MixOrder, EndNames
    <3>4. v2'["align"] \in {"error", "models", "unreachable"} => v11' # {} \/ v12 = "failed"
      BY <1>4, <1>7, <2>1, <2>2, <2>3, <3>1, <3>2, <3>3
    <3>5. v2'["align"] = "models" /\ v2'["separate"] = "ok" => "alignFailed" \in v11'
      BY <1>4, <3>1, <3>2
    <3> QED
      BY <1>1, <2>2, <3>4, <3>5, PrepareTypesOf DEF Prepare!FailuresTold
  <2>4. CASE t # "align"
    <3>1. v2'["align"] = v2["align"]
      BY <1>3, <2>4
    <3>2. v2'["align"] # "idle" => v2'["separate"] = v2["separate"]
      <4>1. t = "separate" => v2["align"] = "idle"
        BY PrepareTypesOf DEF PrepareInv, MixOrder, EndNames
      <4> QED
        BY <1>3, <3>1, <4>1
    <3>3. v2'["align"] \in {"error", "models", "unreachable"} => v11' # {} \/ v12 = "failed"
      BY <1>4, <3>1, PrepareTypesOf DEF PrepareInv, Prepare!FailuresTold
    <3>4. v2'["align"] = "models" /\ v2'["separate"] = "ok" => "alignFailed" \in v11'
      BY <1>4, <3>1, <3>2 DEF PrepareInv, Prepare!FailuresTold
    <3> QED
      BY <1>1, <2>2, <3>3, <3>4, PrepareTypesOf DEF Prepare!FailuresTold
  <2> QED
    BY <2>3, <2>4
<1>15. Prepare!NoDownloadLeft'
  BY <1>1 DEF PrepareInv, Prepare!NoDownloadLeft
<1> QED
  BY <1>5, <1>9, <1>10, <1>11, <1>12, <1>13, <1>14, <1>15 DEF PrepareInv

LEMMA ProgressStep ==
  ASSUME PrepareInv, NEW t \in Prepare!Tasks, Prepare!Progress(t)
  PROVE  PrepareInv'
<1>1. /\ t \in {"separate", "beats", "align"} /\ v2[t] = "run"
      /\ v9' \in {v9 \union {t}, v9 \ {t}} /\ v8' = Prepare!Reported(v9')
      /\ UNCHANGED <<v1, v2, v3, v4, v5, v6, v7, v10, v11, v12>>
  BY PrepareTypesOf DEF Prepare!Progress
<1>2. v8' \in {"loadingModels", "separating", "aligning"} /\ (v8' = "loadingModels" <=> v9' # {})
      /\ (v7 = "mixing" => v8' \in {"loadingModels", "separating"})
  BY <1>1 DEF Prepare!Reported
<1>3. Prepare!RTypes'
  BY <1>1, <1>2, PrepareTypesOf DEF PrepareInv, Prepare!RTypes
<1>4. Prepare!StageTrue'
  BY <1>1, <1>2, PrepareTypesOf DEF PrepareInv, Prepare!StageTrue
<1>5. MixOrder' /\ LyricsOrder' /\ DownloadOrder' /\ Prepare!OnlyAudioFails' /\ Prepare!FailuresTold'
      /\ Prepare!NoDownloadLeft'
  BY <1>1 DEF PrepareInv, MixOrder, LyricsOrder, DownloadOrder, Prepare!InLanguage, Prepare!OnlyAudioFails,
     Prepare!NoSource, Prepare!AudioFailed, Prepare!FailuresTold, Prepare!NoDownloadLeft
<1> QED
  BY <1>3, <1>4, <1>5 DEF PrepareInv

\* The download goes on, or the song is dropped: of the tasks only the
\* fetching of the bytes begins.
LEMMA DownloadSteps ==
  ASSUME PrepareInv, UNCHANGED <<v1, v7, v8, v9, v10>>,
         v2' \in [TaskNames -> {"idle", "run"} \union EndNames],
         \A u \in TaskNames : u # "bytes" => v2'[u] = v2[u],
         v2["bytes"] # "idle" \/ v4' = "failed" => v2'["bytes"] = v2["bytes"],
         v3 = TRUE => v3' = TRUE, v3' \in BOOLEAN, v6' \in BOOLEAN,
         v4' \in {"none", "posting", "polling", "ended", "failed"}, v4 = "failed" => v4' = "failed",
         v5' \in {"none", "running", "audio", "failed", "cancelled"},
         v11 \subseteq v11', v11' \subseteq {"serverDown", "keptFullMix", "alignFailed"},
         v12' \in {"up", "starting", "failed"}, v12 = "failed" => v12' = "failed",
         DownloadOrder', Prepare!NoDownloadLeft'
  PROVE  PrepareInv'
<1>1. \A u \in {"separate", "beats", "align", "byArtist", "byTitle", "language", "duration"} : v2'[u] = v2[u]
  BY DEF TaskNames
<1>2. Prepare!RTypes'
  BY PrepareTypesOf DEF PrepareInv, Prepare!RTypes
<1>3. MixOrder'
  BY <1>1, PrepareTypesOf DEF PrepareInv, MixOrder
<1>4. LyricsOrder'
  BY <1>1 DEF PrepareInv, LyricsOrder, Prepare!InLanguage
<1>5. Prepare!OnlyAudioFails'
  <2>1. v2["bytes"] \in Prepare!Failures => v2["bytes"] # "idle"
    BY PrepareTypesOf
  <2> QED
    BY <1>1, <2>1, StillNoSource
<1>6. Prepare!StageTrue'
  BY <1>1, PrepareTypesOf DEF PrepareInv, Prepare!StageTrue
<1>7. Prepare!FailuresTold'
  <2>1. /\ v2["separate"] \in Prepare!Failures \ {"aborted"} => v11 \intersect {"keptFullMix", "serverDown"} # {} \/ v12 = "failed"
        /\ v2["align"] \in Prepare!Failures \ {"aborted"} => v11 # {} \/ v12 = "failed"
        /\ v2["align"] = "models" /\ v2["separate"] = "ok" => "alignFailed" \in v11
    BY DEF PrepareInv, Prepare!FailuresTold
  <2> QED
    BY <1>1, <2>1 DEF Prepare!FailuresTold
<1> QED
  BY <1>2, <1>3, <1>4, <1>5, <1>6, <1>7 DEF PrepareInv

LEMMA PostedStep ==
  ASSUME PrepareInv, NEW r \in Prepare!Ends, Prepare!Posted(r)
  PROVE  PrepareInv'
<1>1. /\ v4 = "posting" /\ r \in {"ok", "error", "unreachable", "aborted"} /\ (r = "aborted" <=> v3 = TRUE)
      /\ v4' = (IF r = "ok" THEN "polling" ELSE "failed")
      /\ v5' = (IF r = "ok" \/ v6' = TRUE THEN "running" ELSE v5)
      /\ UNCHANGED <<v1, v2, v3, v7, v8, v9, v10, v12>>
  BY PrepareTypesOf DEF Prepare!Posted
<1>2. v6' \in BOOLEAN
  BY DEF Prepare!Posted
<1>3. v11 \subseteq v11' /\ v11' \subseteq {"serverDown", "keptFullMix", "alignFailed"}
  BY PrepareTypesOf DEF Prepare!Posted, Prepare!Down
<1>4. v5 = "none" /\ v2["bytes"] = "idle"
  BY <1>1 DEF PrepareInv, DownloadOrder
<1>5. DownloadOrder'
  BY <1>1, <1>4 DEF DownloadOrder
<1>6. Prepare!NoDownloadLeft'
  <2>1. v3' = TRUE /\ v5' \in {"running", "audio"} => v6' = TRUE
    BY <1>1, <1>4
  <2> QED
    BY <1>1, <1>2, <2>1, PrepareTypesOf DEF Prepare!NoDownloadLeft
<1>7. v5' \in {"none", "running", "audio", "failed", "cancelled"}
      /\ v4' \in {"none", "posting", "polling", "ended", "failed"}
  BY <1>1, PrepareTypesOf
<1> QED
  BY <1>1, <1>2, <1>3, <1>5, <1>6, <1>7, PrepareTypesOf, DownloadSteps

LEMMA PolledStep ==
  ASSUME PrepareInv, NEW r \in Prepare!Ends, NEW held \in BOOLEAN, Prepare!Polled(r, held)
  PROVE  PrepareInv'
<1>1. /\ v4 = "polling"
      /\ v4' = (IF r # "ok" THEN "failed" ELSE IF v5 = "audio" THEN "ended" ELSE v4)
      /\ UNCHANGED <<v1, v3, v5, v6, v7, v8, v9, v10, v12>>
  BY DEF Prepare!Polled
<1>2. v2["bytes"] = "idle" /\ v4' \in {"failed", "ended", "polling"}
  BY <1>1 DEF PrepareInv, DownloadOrder
<1>3. PICK to \in {"ok", "run"} : v2' = (IF v4' = "ended" THEN [v2 EXCEPT !["bytes"] = to] ELSE v2)
  <2>1. CASE v4' = "ended"
    <3>1. r = "ok" /\ v5 = "audio"
      BY <1>1, <2>1
    <3>2. v2' = [v2 EXCEPT !["bytes"] = IF held THEN "ok" ELSE "run"]
      BY <3>1 DEF Prepare!Polled, Prepare!OfTask
    <3> QED
      BY <2>1, <3>2
  <2>2. CASE v4' # "ended"
    <3>1. ~(r = "ok" /\ v5 = "audio")
      BY <1>1, <2>2
    <3>2. v2' = v2
      BY <3>1 DEF Prepare!Polled
    <3> QED
      BY <2>2, <3>2
  <2> QED
    BY <2>1, <2>2
<1>4. /\ v2' \in [TaskNames -> {"idle", "run"} \union EndNames]
      /\ \A u \in TaskNames : u # "bytes" => v2'[u] = v2[u]
      /\ v4' # "ended" => v2' = v2
  BY <1>3, PrepareTypesOf DEF TaskNames, EndNames
<1>5. v11 \subseteq v11' /\ v11' \subseteq {"serverDown", "keptFullMix", "alignFailed"}
  BY PrepareTypesOf DEF Prepare!Polled, Prepare!Down
<1>6. DownloadOrder'
  BY <1>2, <1>4 DEF DownloadOrder
<1>7. Prepare!NoDownloadLeft'
  BY <1>1 DEF PrepareInv, Prepare!NoDownloadLeft
<1> QED
  BY <1>1, <1>2, <1>4, <1>5, <1>6, <1>7, PrepareTypesOf, DownloadSteps

LEMMA AbortOrGoOnStep ==
  ASSUME PrepareInv, Prepare!JobGoesOn \/ Prepare!AbortPrepare \/ Prepare!LocalBackend
  PROVE  PrepareInv'
<1>1. /\ UNCHANGED <<v1, v2, v4, v6, v7, v8, v9, v10, v11>>
      /\ v12 = "failed" => v12' = v12
  BY DEF Prepare!JobGoesOn, Prepare!AbortPrepare, Prepare!LocalBackend
<1>2. v12' \in {"up", "starting", "failed"} /\ v3' \in BOOLEAN /\ (v3 = TRUE => v3' = TRUE)
  BY PrepareTypesOf DEF Prepare!JobGoesOn, Prepare!AbortPrepare, Prepare!LocalBackend
<1>3. /\ v5' \in {"none", "running", "audio", "failed", "cancelled"}
      /\ v4 = "posting" => v5' = v5
      /\ (v3' = TRUE /\ v5' \in {"running", "audio"}) => v6 = TRUE
  <2>1. CASE Prepare!JobGoesOn
    BY <2>1, PrepareTypesOf DEF Prepare!JobGoesOn, PrepareInv, Prepare!NoDownloadLeft
  <2>2. CASE Prepare!AbortPrepare
    <3>1. v6 = FALSE \/ v6 = TRUE
      BY PrepareTypesOf
    <3>2. v5' = IF v6 = FALSE /\ v5 \in {"running", "audio"} THEN "cancelled" ELSE v5
      BY <2>2, <3>1 DEF Prepare!AbortPrepare
    <3> QED
      BY <3>1, <3>2, PrepareTypesOf DEF PrepareInv, DownloadOrder
  <2>3. CASE Prepare!LocalBackend
    BY <2>3, PrepareTypesOf DEF Prepare!LocalBackend, PrepareInv, Prepare!NoDownloadLeft
  <2> QED
    BY <2>1, <2>2, <2>3
<1>4. DownloadOrder' /\ Prepare!NoDownloadLeft'
  BY <1>1, <1>2, <1>3, PrepareTypesOf DEF PrepareInv, DownloadOrder, Prepare!NoDownloadLeft
<1> QED
  BY <1>1, <1>2, <1>3, <1>4, PrepareTypesOf, DownloadSteps

LEMMA PrepareInitHolds ==
  ASSUME Prepare!RInit
  PROVE  PrepareInv
<1>1. Prepare!Tasks = TaskNames
  BY DEF Prepare!Tasks, Prepare!Public, Prepare!Backend, Prepare!Jobs, TaskNames
<1>2. /\ Prepare!Ends = EndNames /\ Prepare!Jobs = {"separate", "beats", "align"}
      /\ Prepare!Failures = {"error", "models", "unreachable", "aborted"}
  BY DEF Prepare!Ends, Prepare!Failures, Prepare!Jobs, EndNames
<1>3. v2 \in [TaskNames -> {"idle", "run", "ok", "none"}]
  BY <1>1 DEF Prepare!RInit
<1>4. /\ v2["separate"] = "idle" /\ v2["beats"] = "idle" /\ v2["align"] = "idle"
      /\ v4 = "posting" => v2["bytes"] = "idle"
  BY <1>1 DEF Prepare!RInit, TaskNames
<1>5. /\ v1 \in Prepare!SongKinds /\ v3 = FALSE /\ v4 \in {"posting", "none"} /\ v5 = "none" /\ v6 = FALSE
      /\ v7 = "fetching" /\ v8 \in {"downloading", "none"} /\ v9 = {} /\ v10 = "unknown" /\ v11 = {}
      /\ v12 \in {"up", "starting"}
  BY DEF Prepare!RInit
<1>6. Prepare!RTypes
  <2>1. v2 \in [TaskNames -> {"idle", "run"} \union EndNames]
    BY <1>3 DEF EndNames
  <2> QED
    BY <1>1, <1>2, <1>5, <2>1 DEF Prepare!RTypes
<1>7. MixOrder /\ LyricsOrder /\ DownloadOrder
  BY <1>4, <1>5 DEF MixOrder, LyricsOrder, DownloadOrder
<1>8. Prepare!OnlyAudioFails /\ Prepare!StageTrue /\ Prepare!FailuresTold /\ Prepare!NoDownloadLeft
  BY <1>2, <1>4, <1>5 DEF Prepare!OnlyAudioFails, Prepare!StageTrue, Prepare!FailuresTold, Prepare!NoDownloadLeft
<1> QED
  BY <1>6, <1>7, <1>8 DEF PrepareInv

LEMMA PrepareNextKeeps ==
  ASSUME PrepareInv, Prepare!RNext
  PROVE  PrepareInv'
<1>1. CASE Prepare!Begin
  BY <1>1, SearchesBegin, BeginMixStep, EndSteps, PickStep, BeginAlignStep DEF Prepare!Begin
<1>2. CASE \E t \in {u \in Prepare!Tasks : v2[u] = "run"} : (\E r \in Prepare!Ends : Prepare!Answered(t, r)) \/ Prepare!Progress(t)
  BY <1>2, AnsweredStep, ProgressStep
<1>3. CASE \E r \in Prepare!Ends : Prepare!Posted(r) \/ \E held \in BOOLEAN : Prepare!Polled(r, held)
  BY <1>3, PostedStep, PolledStep
<1>4. CASE Prepare!JobGoesOn \/ Prepare!AbortPrepare \/ Prepare!LocalBackend
  BY <1>4, AbortOrGoOnStep
<1> QED
  BY <1>1, <1>2, <1>3, <1>4 DEF Prepare!RNext

LEMMA PrepareSame ==
  ASSUME PrepareInv, UNCHANGED <<v1, v2, v3, v4, v5, v6, v7, v8, v9, v10, v11, v12>>
  PROVE  PrepareInv'
<1>1. Prepare!RTypes' /\ MixOrder' /\ LyricsOrder' /\ DownloadOrder'
  BY DEF PrepareInv, Prepare!RTypes, MixOrder, LyricsOrder, DownloadOrder, Prepare!InLanguage
<1>2. Prepare!OnlyAudioFails' /\ Prepare!StageTrue' /\ Prepare!FailuresTold' /\ Prepare!NoDownloadLeft'
  BY DEF PrepareInv, Prepare!OnlyAudioFails, Prepare!NoSource, Prepare!AudioFailed, Prepare!StageTrue,
     Prepare!FailuresTold, Prepare!NoDownloadLeft
<1> QED
  BY <1>1, <1>2 DEF PrepareInv

LEMMA PrepareHolds ==
  ASSUME PrepareInv
  PROVE  Prepare!RTypes /\ Prepare!PreparedRight
<1>1. Prepare!LyricsNotMissed
  BY DEF PrepareInv, LyricsOrder, Prepare!LyricsNotMissed, Prepare!CanRetry, Prepare!EndedTask
<1> QED
  BY <1>1 DEF PrepareInv, Prepare!PreparedRight

(***************************************************************************)
(* BackingVideo: v1 videoId, v2 nextVideoId, v3 playing, v4 speed,         *)
(* v5 failedIds, v6 view, v7 current, v8 standby, v9 active, v10 stale,    *)
(* v11 frameId, v12 el, v13 embed, v14 cued, v15 staleEmbed.               *)
(***************************************************************************)
VideoIds  == Videos \union {"no video"}
VideoLoad == [id : VideoIds, slot : {0, 1}, is : Video!LoadIs]
Elements  == [{0, 1} -> [src : VideoIds, runs : BOOLEAN, rate : VideoSpeeds]]
Embeds    == [is : {"none", "making", "made", "ready"}, runs : BOOLEAN, rate : VideoSpeeds,
              wants : VideoSpeeds, landing : BOOLEAN]
NoneOf(load) == load = [id |-> "no video", slot |-> 0, is |-> "none"]
NoElement == [src |-> "no video", runs |-> FALSE, rate |-> 1]

\* The two loads are the song's video, for the slot that shows, and the next
\* song's, for the other.
LoadsRight ==
  /\ v7.is = "none" => NoneOf(v7)
  /\ v8.is = "none" => NoneOf(v8)
  /\ v7.is # "none" => v7.slot = v9 /\ v7.id = v1 /\ v1 \in Videos /\ v6 = "native"
  /\ v8.is # "none" => v8.slot = 1 - v9 /\ v8.id = v2 /\ v2 \in Videos /\ v6 = "native"

\* An element has a source only from a load, and only the one that shows runs.
ElementsRight ==
  /\ \A s \in {0, 1} : v12[s].src # "no video" => Video!Holds(v7, s) \/ Video!Holds(v8, s)
  /\ \A s \in {0, 1} : v12[s].runs = TRUE => s = v9 /\ v7.is \notin {"none", "asking"}
  /\ v7.is \in {"ready", "frame"} => v12[v9].runs = v3 /\ v12[v9].rate = v4

\* YouTube's player is there while its view is, and was told what the engine does.
EmbedRight ==
  /\ v13.is # "none" <=> v6 = "embed"
  /\ v13.is = "ready" /\ v1 # "no video" =>
       v14 = v1 /\ v13.runs = v3 /\ v13.wants = v4 /\ (v13.landing = FALSE => v13.rate = v4)

VideoInv ==
  /\ Video!BvTypes /\ v13 \in Embeds
  /\ LoadsRight /\ ElementsRight /\ EmbedRight /\ Video!FrameIsSongs /\ Video!NextWaits

LEMMA VideoNames ==
  /\ Video!NoVideo = "no video" /\ Video!Slots = {0, 1} /\ Video!WithNone = VideoIds
  /\ Video!NoLoad = [id |-> "no video", slot |-> 0, is |-> "none"] /\ Video!NoLoad \in VideoLoad
  /\ Video!Empty = NoElement
  /\ Video!LoadIs = {"none", "asking", "unanswered", "loading", "ready", "frame", "bad"}
  /\ "no video" \notin Videos /\ 1 \in VideoSpeeds
  /\ NoElement \in [src : VideoIds, runs : BOOLEAN, rate : VideoSpeeds]
BY PageAssumption DEF Video!NoVideo, Video!Slots, Video!WithNone, VideoIds, Video!NoLoad, VideoLoad, Video!LoadIs,
   Video!Empty, NoElement

LEMMA NoneFacts ==
  /\ NoElement.src = "no video" /\ NoElement.runs = FALSE
  /\ Video!NoLoad.is = "none" /\ Video!NoLoad.id = "no video" /\ NoneOf(Video!NoLoad)
  /\ \A load : NoneOf(load) => load.is = "none" /\ load.id = "no video"
<1>1. NoElement.src = "no video" /\ NoElement.runs = FALSE
  BY DEF NoElement
<1>2. ASSUME NEW load, NoneOf(load) PROVE load.is = "none" /\ load.id = "no video"
  BY <1>2 DEF NoneOf
<1>3. NoneOf(Video!NoLoad)
  BY VideoNames DEF NoneOf
<1> QED
  BY <1>1, <1>2, <1>3

LEMMA VideoTypesOf ==
  ASSUME VideoInv
  PROVE  /\ v1 \in VideoIds /\ v2 \in VideoIds /\ v11 \in VideoIds /\ v14 \in VideoIds
         /\ v3 \in BOOLEAN /\ v15 \in BOOLEAN /\ v4 \in VideoSpeeds /\ v5 \subseteq Videos
         /\ v6 \in {"none", "native", "embed"} /\ v9 \in {0, 1} /\ 1 - v9 \in {0, 1} /\ 1 - v9 # v9
         /\ v7 \in VideoLoad /\ v8 \in VideoLoad
         /\ v10 \subseteq [id : Videos, slot : {0, 1}]
         /\ v12 \in Elements /\ v13 \in Embeds
<1>1. Video!BvTypes
  BY DEF VideoInv
<1>2. /\ v1 \in VideoIds /\ v2 \in VideoIds /\ v11 \in VideoIds /\ v14 \in VideoIds
      /\ v3 \in BOOLEAN /\ v15 \in BOOLEAN /\ v4 \in VideoSpeeds /\ v5 \subseteq Videos
      /\ v6 \in {"none", "native", "embed"}
  BY <1>1, VideoNames DEF Video!BvTypes
<1>3. /\ v9 \in {0, 1} /\ v7 \in VideoLoad /\ v8 \in VideoLoad /\ v10 \subseteq [id : Videos, slot : {0, 1}]
  BY <1>1, VideoNames DEF Video!BvTypes, VideoLoad
<1>4. v12 \in Elements
  BY <1>1, VideoNames DEF Video!BvTypes, Elements
<1>5. 1 - v9 \in {0, 1} /\ 1 - v9 # v9
  BY <1>3
<1> QED
  BY <1>2, <1>3, <1>4, <1>5 DEF VideoInv

LEMMA VideoTypesBack ==
  ASSUME v1' \in VideoIds, v2' \in VideoIds, v11' \in VideoIds, v14' \in VideoIds,
         v3' \in BOOLEAN, v15' \in BOOLEAN, v4' \in VideoSpeeds, v5' \subseteq Videos,
         v6' \in {"none", "native", "embed"}, v9' \in {0, 1}, v7' \in VideoLoad, v8' \in VideoLoad,
         v10' \subseteq [id : Videos, slot : {0, 1}], v12' \in Elements, v13' \in Embeds
  PROVE  Video!BvTypes'
BY VideoNames DEF Video!BvTypes, VideoLoad, Elements, Embeds

LEMMA LoadFacts ==
  ASSUME NEW id \in VideoIds, NEW slot \in {0, 1}
  PROVE  /\ Video!Load(id, slot) \in VideoLoad
         /\ id = "no video" => Video!Load(id, slot) = Video!NoLoad
         /\ id # "no video" => /\ id \in Videos /\ Video!Load(id, slot).id = id
                               /\ Video!Load(id, slot).slot = slot /\ Video!Load(id, slot).is = "asking"
BY VideoNames DEF Video!Load, VideoLoad, VideoIds

\* syncStandby(), by the videos known to fail.
StandbyOf(id, cur, by, slot, failed) ==
  IF by.is # "none" /\ by.id = id THEN by
  ELSE IF cur.id = id \/ id \in failed THEN Video!NoLoad ELSE Video!Load(id, slot)

LEMMA AlignedFacts ==
  ASSUME NEW els \in Elements, NEW load \in VideoLoad, NEW p \in BOOLEAN, NEW r \in VideoSpeeds,
         NEW now, now = Video!Aligned(els, load, p, r)
  PROVE  /\ now \in Elements
         /\ \A s \in {0, 1} : now[s].src = els[s].src
         /\ load.is \in {"ready", "frame"} => now[load.slot].runs = p /\ now[load.slot].rate = r
         /\ \A s \in {0, 1} : load.is \notin {"ready", "frame"} \/ s # load.slot => now[s] = els[s]
<1>1. CASE load.is \in {"ready", "frame"}
  <2>1. now = [els EXCEPT ![load.slot].runs = p, ![load.slot].rate = r] /\ load.slot \in {0, 1}
    BY <1>1 DEF Video!Aligned, Video!ReadyLoad, VideoLoad
  <2>2. els[load.slot] \in [src : VideoIds, runs : BOOLEAN, rate : VideoSpeeds]
    BY <2>1 DEF Elements
  <2>3. /\ now[load.slot] = [src |-> els[load.slot].src, runs |-> p, rate |-> r]
        /\ \A s \in {0, 1} : s # load.slot => now[s] = els[s]
        /\ now = [s \in {0, 1} |-> now[s]]
    BY <2>1, <2>2 DEF Elements
  <2>4. now[load.slot] \in [src : VideoIds, runs : BOOLEAN, rate : VideoSpeeds]
    BY <2>2, <2>3
  <2>5. now \in Elements
    BY <2>3, <2>4 DEF Elements
  <2> QED
    BY <1>1, <2>3, <2>5
<1>2. CASE load.is \notin {"ready", "frame"}
  BY <1>2 DEF Video!Aligned, Video!ReadyLoad
<1> QED
  BY <1>1, <1>2

LEMMA EmptiedFacts ==
  ASSUME NEW els \in Elements, NEW loads, NEW now, now = Video!Emptied(els, loads)
  PROVE  /\ now \in Elements
         /\ \A s \in {0, 1} : (\E l \in loads : l.is \notin {"none", "asking"} /\ l.slot = s) => now[s] = NoElement
         /\ \A s \in {0, 1} : ~(\E l \in loads : l.is \notin {"none", "asking"} /\ l.slot = s) => now[s] = els[s]
<1>1. now = [s \in {0, 1} |-> IF \E l \in loads : l.is \notin {"none", "asking"} /\ l.slot = s THEN NoElement ELSE els[s]]
  BY VideoNames DEF Video!Emptied
<1>2. \A s \in {0, 1} : now[s] = NoElement \/ now[s] = els[s]
  BY <1>1
<1>3. \A s \in {0, 1} : now[s] \in [src : VideoIds, runs : BOOLEAN, rate : VideoSpeeds]
  BY <1>2, VideoNames DEF Elements
<1>4. now \in Elements
  BY <1>1, <1>3 DEF Elements
<1> QED
  BY <1>1, <1>4

\* Requests that are aborted were for videos.
LEMMA AbortedFacts ==
  ASSUME VideoInv, NEW loads, \A l \in loads : l \in VideoLoad /\ (l.is = "asking" => l.id \in Videos)
  PROVE  Video!Aborted(loads) \subseteq [id : Videos, slot : {0, 1}]
BY VideoTypesOf DEF Video!Aborted, VideoLoad

\* What is told to the embedded player.
LEMMA SyncFacts ==
  ASSUME NEW player \in Embeds, NEW id \in VideoIds, NEW p \in BOOLEAN, NEW r \in VideoSpeeds,
         v14 \in VideoIds, Video!SyncEmbed(player, id, p, r)
  PROVE  /\ v13' \in Embeds /\ v13'.is = player.is /\ v14' \in VideoIds
         /\ v13'.is = "ready" /\ id # "no video" =>
              v14' = id /\ v13'.runs = p /\ v13'.wants = r /\ v13'.rate = r
<1>1. CASE player.is # "ready"
  BY <1>1 DEF Video!SyncEmbed
<1>2. CASE player.is = "ready" /\ id = "no video"
  <2>1. v13' = [player EXCEPT !.runs = FALSE] /\ v14' = v14
    BY <1>2, VideoNames DEF Video!SyncEmbed
  <2> QED
    BY <1>2, <2>1 DEF Embeds
<1>3. CASE player.is = "ready" /\ id # "no video"
  <2>1. /\ v13' = [player EXCEPT !.runs = p, !.rate = r, !.wants = r, !.landing = @ \/ id # v14]
        /\ v14' = id
    BY <1>3, VideoNames DEF Video!SyncEmbed
  <2>2. (player.landing \/ id # v14) \in BOOLEAN
    OBVIOUS
  <2> DEFINE landing == player.landing \/ id # v14
  <2>3. v13' = [player EXCEPT !.runs = p, !.rate = r, !.wants = r, !.landing = landing] /\ landing \in BOOLEAN
    BY <2>1
  <2> HIDE DEF landing
  <2>4. v13' = [is |-> player.is, runs |-> p, rate |-> r, wants |-> r, landing |-> landing]
    BY <2>3 DEF Embeds
  <2>5. v13' \in Embeds
    BY <2>3, <2>4 DEF Embeds
  <2> QED
    BY <1>3, <2>1, <2>4, <2>5
<1> QED
  BY <1>1, <1>2, <1>3

\* YouTube's player alone has changed.
LEMMA EmbedStep ==
  ASSUME VideoInv, UNCHANGED <<v1, v2, v3, v4, v5, v6, v7, v8, v9, v10, v11, v12>>,
         v13' \in Embeds, v14' \in VideoIds, v15' \in BOOLEAN, EmbedRight'
  PROVE  VideoInv'
<1>1. Video!BvTypes'
  BY VideoTypesOf, VideoTypesBack
<1>2. LoadsRight' /\ ElementsRight'
  BY DEF VideoInv, LoadsRight, ElementsRight, Video!Holds
<1>3. Video!FrameIsSongs' /\ Video!NextWaits'
  BY DEF VideoInv, Video!FrameIsSongs, Video!NextWaits
<1> QED
  BY <1>1, <1>2, <1>3 DEF VideoInv

LEMMA EmbedSteps ==
  ASSUME VideoInv, Video!EmbedMade \/ Video!EmbedReady \/ Video!EmbedMadeLate \/ Video!CueLands
  PROVE  VideoInv'
<1>1. CASE Video!EmbedMade
  <2>1. /\ v13.is = "making" /\ v13' = [v13 EXCEPT !.is = "made"]
        /\ UNCHANGED <<v1, v2, v3, v4, v5, v6, v7, v8, v9, v10, v11, v12, v14, v15>>
    BY <1>1 DEF Video!EmbedMade, Video!engine, Video!native
  <2>2. v13' \in Embeds /\ v13'.is = "made"
    BY <2>1, VideoTypesOf DEF Embeds
  <2>3. EmbedRight'
    BY <2>1, <2>2 DEF VideoInv, EmbedRight
  <2> QED
    BY <2>1, <2>2, <2>3, EmbedStep, VideoTypesOf
<1>2. CASE Video!EmbedReady
  <2> DEFINE player == [v13 EXCEPT !.is = "ready"]
  <2>1. /\ v13.is = "made" /\ Video!SyncEmbed(player, v1, v3, v4)
        /\ UNCHANGED <<v1, v2, v3, v4, v5, v6, v7, v8, v9, v10, v11, v12, v15>>
    BY <1>2 DEF Video!EmbedReady, Video!engine, Video!native
  <2>2. player \in Embeds /\ player.is = "ready"
    BY VideoTypesOf DEF Embeds
  <2> HIDE DEF player
  <2>3. /\ v13' \in Embeds /\ v13'.is = "ready" /\ v14' \in VideoIds
        /\ v1 # "no video" => v14' = v1 /\ v13'.runs = v3 /\ v13'.wants = v4 /\ v13'.rate = v4
    <3>1. v1 \in VideoIds /\ v3 \in BOOLEAN /\ v4 \in VideoSpeeds /\ v14 \in VideoIds
      BY VideoTypesOf
    <3> QED
      BY <2>1, <2>2, <3>1, SyncFacts
  <2>4. EmbedRight'
    BY <2>1, <2>3 DEF VideoInv, EmbedRight
  <2> QED
    BY <2>1, <2>3, <2>4, EmbedStep, VideoTypesOf
<1>3. CASE Video!EmbedMadeLate
  <2>1. /\ v15' = FALSE
        /\ UNCHANGED <<v1, v2, v3, v4, v5, v6, v7, v8, v9, v10, v11, v12, v13, v14>>
    BY <1>3 DEF Video!EmbedMadeLate, Video!engine, Video!native
  <2>2. EmbedRight'
    BY <2>1 DEF VideoInv, EmbedRight
  <2> QED
    BY <2>1, <2>2, EmbedStep, VideoTypesOf
<1>4. CASE Video!CueLands
  <2>1. /\ v13' = [v13 EXCEPT !.landing = FALSE, !.rate = v13.wants]
        /\ UNCHANGED <<v1, v2, v3, v4, v5, v6, v7, v8, v9, v10, v11, v12, v14, v15>>
    BY <1>4 DEF Video!CueLands, Video!OnStateChange, Video!engine, Video!native
  <2>2. /\ v13' \in Embeds /\ v13'.is = v13.is /\ v13'.runs = v13.runs /\ v13'.wants = v13.wants
        /\ v13'.rate = v13.wants
    BY <2>1, VideoTypesOf DEF Embeds
  <2>3. EmbedRight'
    BY <2>1, <2>2 DEF VideoInv, EmbedRight
  <2> QED
    BY <2>1, <2>2, <2>3, EmbedStep, VideoTypesOf
<1> QED
  BY <1>1, <1>2, <1>3, <1>4

\* One of the two loads, and not the other, goes on to another state.
LEMMA LoadIsStep ==
  ASSUME VideoInv, NEW load \in {v7, v8}, load.is # "none", NEW is \in Video!LoadIs, is # "none",
         Video!Is(load, is)
  PROVE  /\ v7' \in VideoLoad /\ v8' \in VideoLoad
         /\ v7'.id = v7.id /\ v7'.slot = v7.slot /\ v8'.id = v8.id /\ v8'.slot = v8.slot
         /\ load.slot \in {0, 1} /\ load.id \in Videos
         /\ \/ load = v7 /\ load.slot = v9 /\ v7'.is = is /\ v8' = v8 /\ v7.is = load.is
            \/ load # v7 /\ load = v8 /\ load.slot # v9 /\ v8'.is = is /\ v7' = v7 /\ v8.is = load.is
<1>1. CASE load = v7
  <2>1. v7' = [v7 EXCEPT !.is = is] /\ v8' = v8
    BY <1>1 DEF Video!Is
  <2> QED
    BY <1>1, <2>1, VideoTypesOf DEF VideoLoad, VideoInv, LoadsRight
<1>2. CASE load # v7
  <2>1. v8' = [v8 EXCEPT !.is = is] /\ v7' = v7 /\ load = v8
    BY <1>2 DEF Video!Is
  <2> QED
    BY <1>2, <2>1, VideoTypesOf DEF VideoLoad, VideoInv, LoadsRight
<1> QED
  BY <1>1, <1>2

\* A load goes on, with the song, the engine and the view as they are.
LEMMA LoadStep ==
  ASSUME VideoInv, NEW load \in {v7, v8}, load.is # "none", NEW is \in Video!LoadIs, is # "none",
         Video!Is(load, is),
         UNCHANGED <<v1, v2, v3, v4, v6, v9, v10, v13, v14, v15>>,
         v5 \subseteq v5', v5' \subseteq Videos, v11' \in VideoIds, v12' \in Elements,
         ElementsRight', Video!FrameIsSongs'
  PROVE  VideoInv'
<1>1. /\ v7' \in VideoLoad /\ v8' \in VideoLoad
      /\ v7'.id = v7.id /\ v7'.slot = v7.slot /\ v8'.id = v8.id /\ v8'.slot = v8.slot
      /\ v7'.is = "none" => v7' = v7
      /\ v8'.is = "none" => v8' = v8
      /\ v7'.is # "none" => v7.is # "none"
      /\ v8'.is # "none" => v8.is # "none"
  BY LoadIsStep
<1>2. Video!BvTypes'
  BY <1>1, VideoTypesOf, VideoTypesBack
<1>3. LoadsRight'
  BY <1>1 DEF VideoInv, LoadsRight, NoneOf
<1>4. EmbedRight'
  BY DEF VideoInv, EmbedRight
<1>5. Video!NextWaits'
  BY <1>1 DEF VideoInv, Video!NextWaits
<1> QED
  BY <1>2, <1>3, <1>4, <1>5, VideoTypesOf DEF VideoInv

LEMMA AnsweredLoadStep ==
  ASSUME VideoInv, NEW load \in {v7, v8}, NEW ok \in BOOLEAN, Video!Answered(load, ok)
  PROVE  VideoInv'
<1> DEFINE is == IF ok THEN "loading" ELSE "unanswered"
<1>1. /\ load.is = "asking" /\ Video!Is(load, is)
      /\ UNCHANGED <<v1, v2, v3, v4, v6, v9, v10, v11, v13, v14, v15>>
  BY DEF Video!Answered, Video!engine, Video!embedded
<1>2. v12' = IF ok THEN [v12 EXCEPT ![load.slot] = [Video!Empty EXCEPT !.src = load.id]] ELSE v12
  BY DEF Video!Answered
<1>3. v5' = IF ok THEN v5 ELSE v5 \union {load.id}
  BY DEF Video!Answered
<1>4. is \in Video!LoadIs /\ is \in {"loading", "unanswered"} /\ (is = "loading" <=> ok = TRUE)
  BY VideoNames
<1> HIDE DEF is
<1>5. /\ v7' \in VideoLoad /\ v8' \in VideoLoad
      /\ v7'.id = v7.id /\ v7'.slot = v7.slot /\ v8'.id = v8.id /\ v8'.slot = v8.slot
      /\ load.slot \in {0, 1} /\ load.id \in Videos
      /\ \/ load = v7 /\ load.slot = v9 /\ v7'.is = is /\ v8' = v8 /\ v7.is = load.is
         \/ load # v7 /\ load = v8 /\ load.slot # v9 /\ v8'.is = is /\ v7' = v7 /\ v8.is = load.is
  BY <1>1, <1>4, LoadIsStep
<1>6. v5 \subseteq v5' /\ v5' \subseteq Videos
  BY <1>3, <1>5, VideoTypesOf
<1>7. /\ v12' \in Elements
      /\ \A s \in {0, 1} : s # load.slot \/ ok = FALSE => v12'[s] = v12[s]
      /\ ok = TRUE => v12'[load.slot].src = load.id /\ v12'[load.slot].runs = FALSE
  <2>1. [Video!Empty EXCEPT !.src = load.id] = [src |-> load.id, runs |-> FALSE, rate |-> 1]
    <3> DEFINE none == Video!Empty
    <3>1. /\ none \in [src : VideoIds, runs : BOOLEAN, rate : VideoSpeeds]
          /\ none.runs = FALSE /\ none.rate = 1
      BY VideoNames DEF NoElement
    <3> HIDE DEF none
    <3>2. [none EXCEPT !.src = load.id] = [src |-> load.id, runs |-> none.runs, rate |-> none.rate]
      BY <3>1
    <3> QED
      BY <3>1, <3>2 DEF none
  <2>2. [src |-> load.id, runs |-> FALSE, rate |-> 1] \in [src : VideoIds, runs : BOOLEAN, rate : VideoSpeeds]
    BY <1>5, VideoNames DEF VideoIds
  <2> QED
    BY <1>2, <1>5, <2>1, <2>2, VideoTypesOf DEF Elements
<1>8. ElementsRight'
  <2>1. \A s \in {0, 1} : v12'[s].src # "no video" => (Video!Holds(v7, s) \/ Video!Holds(v8, s))'
    <3> SUFFICES ASSUME NEW s \in {0, 1}, v12'[s].src # "no video"
                 PROVE  (Video!Holds(v7, s) \/ Video!Holds(v8, s))'
      OBVIOUS
    <3>1. CASE s = load.slot /\ ok = TRUE
      BY <1>4, <1>5, <1>7, <3>1 DEF Video!Holds
    <3>2. CASE ~(s = load.slot /\ ok = TRUE)
      <4>1. v12'[s] = v12[s]
        BY <1>7, <3>2
      <4>2. Video!Holds(v7, s) \/ Video!Holds(v8, s)
        BY <4>1 DEF VideoInv, ElementsRight
      <4> QED
        BY <1>1, <1>5, <4>1, <4>2 DEF Video!Holds
    <3> QED
      BY <3>1, <3>2
  <2>2. \A s \in {0, 1} : v12'[s].runs = TRUE => s = v9 /\ v7'.is \notin {"none", "asking"}
    <3> SUFFICES ASSUME NEW s \in {0, 1}, v12'[s].runs = TRUE
                 PROVE  s = v9 /\ v7'.is \notin {"none", "asking"}
      OBVIOUS
    <3>1. v12'[s] = v12[s]
      BY <1>7
    <3>2. s = v9 /\ v7.is \notin {"none", "asking"}
      BY <3>1 DEF VideoInv, ElementsRight
    <3> QED
      BY <1>1, <1>5, <3>2
  <2>3. v7'.is \in {"ready", "frame"} => v12'[v9].runs = v3 /\ v12'[v9].rate = v4
    <3> SUFFICES ASSUME v7'.is \in {"ready", "frame"} PROVE v12'[v9].runs = v3 /\ v12'[v9].rate = v4
      OBVIOUS
    <3>1. load.slot # v9 /\ v7' = v7
      BY <1>4, <1>5
    <3>2. v12'[v9] = v12[v9]
      BY <1>7, <3>1, VideoTypesOf
    <3> QED
      BY <3>1, <3>2 DEF VideoInv, ElementsRight
  <2> QED
    BY <1>1, <2>1, <2>2, <2>3 DEF ElementsRight
<1>9. Video!FrameIsSongs'
  BY <1>1, <1>5 DEF VideoInv, Video!FrameIsSongs
<1> QED
  BY <1>1, <1>4, <1>6, <1>7, <1>8, <1>9, LoadStep, VideoTypesOf

LEMMA AnsweredLateStep ==
  ASSUME VideoInv, NEW load \in v10, Video!AnsweredLate(load)
  PROVE  VideoInv'
<1>1. /\ v10' \subseteq v10 /\ v12' = v12
      /\ UNCHANGED <<v1, v2, v3, v4, v5, v6, v7, v8, v9, v11, v13, v14, v15>>
  BY DEF Video!AnsweredLate, Video!Ignored, Video!engine, Video!embedded
<1>2. Video!BvTypes'
  BY <1>1, VideoTypesOf, VideoTypesBack
<1>3. LoadsRight' /\ ElementsRight' /\ EmbedRight' /\ Video!FrameIsSongs' /\ Video!NextWaits'
  BY <1>1 DEF VideoInv, LoadsRight, ElementsRight, EmbedRight, Video!Holds, NoneOf, Video!FrameIsSongs, Video!NextWaits
<1> QED
  BY <1>1, <1>2, <1>3, VideoTypesOf DEF VideoInv

LEMMA OnReadyStep ==
  ASSUME VideoInv, NEW load \in {v7, v8}, Video!OnReady(load)
  PROVE  VideoInv'
<1>1. /\ load.is = "loading" /\ Video!Is(load, "ready")
      /\ UNCHANGED <<v1, v2, v3, v4, v5, v6, v9, v10, v11, v13, v14, v15>>
  BY DEF Video!OnReady, Video!engine, Video!embedded
<1>2. /\ v7' \in VideoLoad /\ v8' \in VideoLoad
      /\ v7'.id = v7.id /\ v7'.slot = v7.slot /\ v8'.id = v8.id /\ v8'.slot = v8.slot
      /\ load.slot \in {0, 1} /\ load.id \in Videos
      /\ \/ load = v7 /\ load.slot = v9 /\ v7'.is = "ready" /\ v8' = v8 /\ v7.is = load.is
         \/ load # v7 /\ load = v8 /\ load.slot # v9 /\ v8'.is = "ready" /\ v7' = v7 /\ v8.is = load.is
  BY <1>1, VideoNames, LoadIsStep
<1>3. /\ v12' \in Elements
      /\ \A s \in {0, 1} : v12'[s].src = v12[s].src
      /\ \A s \in {0, 1} : s # v9 \/ load # v7 => v12'[s] = v12[s]
      /\ load = v7 => v12'[v9].runs = v3 /\ v12'[v9].rate = v4
  <2>1. CASE load = v7
    <3> DEFINE now == [load EXCEPT !.is = "ready"]
    <3>1. now \in VideoLoad /\ now.slot = v9 /\ now.is = "ready"
      BY <1>2, <2>1, VideoTypesOf, VideoNames DEF VideoLoad
    <3>2. v12' = Video!Aligned(v12, now, v3, v4)
      BY <2>1 DEF Video!OnReady
    <3> HIDE DEF now
    <3> QED
      BY <2>1, <3>1, <3>2, AlignedFacts, VideoTypesOf
  <2>2. CASE load # v7
    BY <2>2, VideoTypesOf DEF Video!OnReady
  <2> QED
    BY <2>1, <2>2
<1>4. ElementsRight'
  <2>1. \A s \in {0, 1} : v12'[s].src # "no video" => (Video!Holds(v7, s) \/ Video!Holds(v8, s))'
    BY <1>1, <1>2, <1>3 DEF VideoInv, ElementsRight, Video!Holds
  <2>2. \A s \in {0, 1} : v12'[s].runs = TRUE => s = v9 /\ v7'.is \notin {"none", "asking"}
    <3> SUFFICES ASSUME NEW s \in {0, 1}, v12'[s].runs = TRUE
                 PROVE  s = v9 /\ v7'.is \notin {"none", "asking"}
      OBVIOUS
    <3>1. CASE load = v7 /\ s = v9
      BY <1>2, <3>1
    <3>2. CASE ~(load = v7 /\ s = v9)
      <4>1. v12'[s] = v12[s]
        BY <1>3, <3>2
      <4> QED
        BY <1>1, <1>2, <4>1 DEF VideoInv, ElementsRight
    <3> QED
      BY <3>1, <3>2
  <2>3. v7'.is \in {"ready", "frame"} => v12'[v9].runs = v3 /\ v12'[v9].rate = v4
    <3>1. CASE load = v7
      BY <1>3, <3>1
    <3>2. CASE load # v7
      <4>1. v12'[v9] = v12[v9] /\ v7' = v7
        BY <1>2, <1>3, <3>2, VideoTypesOf
      <4> QED
        BY <4>1 DEF VideoInv, ElementsRight
    <3> QED
      BY <3>1, <3>2
  <2> QED
    BY <1>1, <2>1, <2>2, <2>3 DEF ElementsRight
<1>5. Video!FrameIsSongs'
  BY <1>1, <1>2 DEF VideoInv, Video!FrameIsSongs
<1> QED
  BY <1>1, <1>3, <1>4, <1>5, LoadStep, VideoTypesOf, VideoNames

LEMMA OnFirstFrameStep ==
  ASSUME VideoInv, NEW load \in {v7, v8}, Video!OnFirstFrame(load)
  PROVE  VideoInv'
<1>1. /\ load.is = "ready" /\ Video!Is(load, "frame") /\ v11' = (IF load = v7 THEN load.id ELSE v11)
      /\ UNCHANGED <<v1, v2, v3, v4, v5, v6, v9, v10, v12, v13, v14, v15>>
  BY DEF Video!OnFirstFrame, Video!engine, Video!embedded
<1>2. /\ v7' \in VideoLoad /\ v8' \in VideoLoad
      /\ v7'.id = v7.id /\ v7'.slot = v7.slot /\ v8'.id = v8.id /\ v8'.slot = v8.slot
      /\ load.slot \in {0, 1} /\ load.id \in Videos
      /\ \/ load = v7 /\ load.slot = v9 /\ v7'.is = "frame" /\ v8' = v8 /\ v7.is = load.is
         \/ load # v7 /\ load = v8 /\ load.slot # v9 /\ v8'.is = "frame" /\ v7' = v7 /\ v8.is = load.is
  BY <1>1, VideoNames, LoadIsStep
<1>3. ElementsRight'
  BY <1>1, <1>2 DEF VideoInv, ElementsRight, Video!Holds
<1>4. v7.is # "none" => v7.id = v1
  BY DEF VideoInv, LoadsRight
<1>5. Video!FrameIsSongs'
  BY <1>1, <1>2, <1>4 DEF VideoInv, Video!FrameIsSongs
<1>6. v11' \in VideoIds
  BY <1>1, <1>2, VideoTypesOf DEF VideoIds
<1> QED
  BY <1>1, <1>3, <1>5, <1>6, LoadStep, VideoTypesOf, VideoNames

LEMMA OnErrorStep ==
  ASSUME VideoInv, NEW load \in {v7, v8}, Video!OnError(load)
  PROVE  VideoInv'
<1>1. /\ load.is \in {"loading", "ready", "frame"} /\ Video!Is(load, "bad") /\ v5' = v5 \union {load.id}
      /\ UNCHANGED <<v1, v2, v3, v4, v6, v9, v10, v11, v12, v13, v14, v15>>
  BY DEF Video!OnError, Video!engine, Video!embedded
<1>2. /\ v7' \in VideoLoad /\ v8' \in VideoLoad
      /\ v7'.id = v7.id /\ v7'.slot = v7.slot /\ v8'.id = v8.id /\ v8'.slot = v8.slot
      /\ load.slot \in {0, 1} /\ load.id \in Videos
      /\ \/ load = v7 /\ load.slot = v9 /\ v7'.is = "bad" /\ v8' = v8 /\ v7.is = load.is
         \/ load # v7 /\ load = v8 /\ load.slot # v9 /\ v8'.is = "bad" /\ v7' = v7 /\ v8.is = load.is
  BY <1>1, VideoNames, LoadIsStep
<1>3. ElementsRight'
  BY <1>1, <1>2 DEF VideoInv, ElementsRight, Video!Holds
<1>4. Video!FrameIsSongs'
  BY <1>1, <1>2 DEF VideoInv, Video!FrameIsSongs
<1>5. v5 \subseteq v5' /\ v5' \subseteq Videos
  BY <1>1, <1>2, VideoTypesOf
<1> QED
  BY <1>1, <1>3, <1>4, <1>5, LoadStep, VideoTypesOf, VideoNames

\* What is asked for of the next song's video, and of the song's, is aborted.
LEMMA LoadsAborted ==
  ASSUME VideoInv, NEW loads, loads \subseteq {v7, v8, Video!NoLoad}
  PROVE  Video!Aborted(loads) \subseteq [id : Videos, slot : {0, 1}]
<1>1. ASSUME NEW l \in loads PROVE l \in VideoLoad /\ (l.is = "asking" => l.id \in Videos)
  <2>1. CASE l = v7
    BY <2>1, VideoTypesOf DEF VideoInv, LoadsRight
  <2>2. CASE l = v8
    BY <2>2, VideoTypesOf DEF VideoInv, LoadsRight
  <2>3. CASE l = Video!NoLoad
    <3>1. l \in VideoLoad /\ l.is = "none"
      BY <2>3, VideoNames
    <3> QED
      BY <3>1
  <2> QED
    BY <2>1, <2>2, <2>3
<1> QED
  BY <1>1, AbortedFacts

\* The standby's element is emptied, unless it's kept.
LEMMA PreloadStep ==
  ASSUME VideoInv, NEW id \in VideoIds, Video!Preload(id)
  PROVE  VideoInv'
<1> DEFINE next == IF v6 = "native" THEN Video!StandbyFor(id, v7, v8, 1 - v9) ELSE Video!NoLoad
           gone == IF next = v8 THEN {} ELSE {v8}
<1>1. /\ v2' = id /\ v8' = next /\ v10' = Video!Aborted(gone)
      /\ v12' = Video!Emptied(v12, gone)
      /\ UNCHANGED <<v1, v3, v4, v5, v6, v7, v9, v11, v13, v14, v15>>
  BY DEF Video!Preload, Video!Other, Video!engine, Video!embedded
<1>2. /\ next \in VideoLoad
      /\ \/ next = v8 /\ v8.is # "none" /\ v8.id = id
         \/ next.is = "none" /\ NoneOf(next) /\ (v6 = "native" => id \in {"no video", v7.id} \union v5)
         \/ next.id = id /\ next.slot = 1 - v9 /\ next.is = "asking" /\ id \in Videos /\ v6 = "native"
  <2>1. CASE v6 = "native"
    <3>1. next = Video!StandbyFor(id, v7, v8, 1 - v9)
      BY <2>1
    <3> HIDE DEF next
    <3>2. /\ next \in VideoLoad
          /\ \/ next = v8 /\ v8.is # "none" /\ v8.id = id
             \/ next = Video!NoLoad /\ id \in {"no video", v7.id} \union v5
             \/ next.id = id /\ next.slot = 1 - v9 /\ next.is = "asking" /\ id \in Videos
      <4> DEFINE other == 1 - v9
      <4>1. next = StandbyOf(id, v7, v8, other, v5) /\ v7 \in VideoLoad /\ v8 \in VideoLoad /\ other \in {0, 1}
        BY <3>1, VideoTypesOf DEF Video!StandbyFor, StandbyOf
      <4> HIDE DEF other
      <4>2. /\ next \in VideoLoad
            /\ \/ next = v8 /\ v8.is # "none" /\ v8.id = id
               \/ next = Video!NoLoad /\ id \in {"no video", v7.id} \union v5
               \/ next.id = id /\ next.slot = other /\ next.is = "asking" /\ id \in Videos
        <5>0. id \in VideoIds
          BY VideoNames
        <5>1. /\ Video!Load(id, other) \in VideoLoad
              /\ id # "no video" => /\ id \in Videos /\ Video!Load(id, other).id = id
                                    /\ Video!Load(id, other).slot = other /\ Video!Load(id, other).is = "asking"
              /\ id = "no video" => Video!Load(id, other) = Video!NoLoad
          BY <4>1, <5>0, LoadFacts
        <5>2. CASE v8.is # "none" /\ v8.id = id
          BY <4>1, <5>2 DEF StandbyOf
        <5>3. CASE ~(v8.is # "none" /\ v8.id = id) /\ (v7.id = id \/ id \in v5)
          BY <4>1, <5>3, VideoNames DEF StandbyOf
        <5>4. CASE ~(v8.is # "none" /\ v8.id = id) /\ ~(v7.id = id \/ id \in v5)
          BY <4>1, <5>1, <5>4 DEF StandbyOf
        <5> QED
          BY <5>2, <5>3, <5>4
      <4> QED
        BY <4>2 DEF other
    <3> QED
      BY <2>1, <3>2, NoneFacts
  <2>2. CASE v6 # "native"
    <3>1. next = Video!NoLoad
      BY <2>2
    <3> HIDE DEF next
    <3> QED
      BY <2>2, <3>1, NoneFacts, VideoNames
  <2> QED
    BY <2>1, <2>2
<1>3. gone \subseteq {v7, v8, Video!NoLoad} /\ (gone = {} \/ gone = {v8}) /\ (next # v8 => gone = {v8})
  OBVIOUS
<1> HIDE DEF next, gone
<1>4. v10' \subseteq [id : Videos, slot : {0, 1}]
  BY <1>1, <1>3, LoadsAborted
<1>5. /\ v12' \in Elements
      /\ \A s \in {0, 1} : v12'[s] = NoElement \/ v12'[s] = v12[s]
      /\ \A s \in {0, 1} : next # v8 /\ v8.is \notin {"none", "asking"} /\ v8.slot = s => v12'[s] = NoElement
      /\ v12'[v9] = v12[v9]
  <2>1. /\ v12' \in Elements
        /\ \A s \in {0, 1} : (\E l \in gone : l.is \notin {"none", "asking"} /\ l.slot = s) => v12'[s] = NoElement
        /\ \A s \in {0, 1} : ~(\E l \in gone : l.is \notin {"none", "asking"} /\ l.slot = s) => v12'[s] = v12[s]
    BY <1>1, EmptiedFacts, VideoTypesOf
  <2>2. ~(\E l \in gone : l.is \notin {"none", "asking"} /\ l.slot = v9)
    BY <1>3, VideoTypesOf DEF VideoInv, LoadsRight
  <2> QED
    BY <1>3, <2>1, <2>2, VideoTypesOf
<1>6. Video!BvTypes'
  BY <1>1, <1>2, <1>4, <1>5, VideoTypesOf, VideoTypesBack
<1>7. LoadsRight'
  <2>1. v8'.is = "none" => NoneOf(v8')
    BY <1>1, <1>2
  <2>2. v8'.is # "none" => v8'.slot = 1 - v9 /\ v8'.id = id /\ id \in Videos /\ v6 = "native"
    BY <1>1, <1>2 DEF VideoInv, LoadsRight
  <2>3. /\ v7.is = "none" => NoneOf(v7)
        /\ v7.is # "none" => v7.slot = v9 /\ v7.id = v1 /\ v1 \in Videos /\ v6 = "native"
    BY DEF VideoInv, LoadsRight
  <2> QED
    BY <1>1, <2>1, <2>2, <2>3 DEF LoadsRight, NoneOf
<1>8. ElementsRight'
  <2>1. \A s \in {0, 1} : v12'[s].src # "no video" => (Video!Holds(v7, s) \/ Video!Holds(v8, s))'
    <3> SUFFICES ASSUME NEW s \in {0, 1}, v12'[s].src # "no video"
                 PROVE  (Video!Holds(v7, s) \/ Video!Holds(v8, s))'
      OBVIOUS
    <3>1. v12'[s] # NoElement
      BY NoneFacts
    <3>2. v12'[s] = v12[s]
      BY <1>5, <3>1
    <3>3. Video!Holds(v7, s) \/ Video!Holds(v8, s)
      BY <3>2 DEF VideoInv, ElementsRight
    <3>4. Video!Holds(v8, s) => next = v8
      BY <1>5, <3>1 DEF Video!Holds
    <3> QED
      BY <1>1, <3>2, <3>3, <3>4 DEF Video!Holds
  <2>2. \A s \in {0, 1} : v12'[s].runs = TRUE => v12[s].runs = TRUE
    BY <1>5, NoneFacts
  <2> QED
    BY <1>1, <1>5, <2>1, <2>2 DEF VideoInv, ElementsRight
<1>9. EmbedRight' /\ Video!FrameIsSongs'
  BY <1>1 DEF VideoInv, EmbedRight, Video!FrameIsSongs
<1>10. Video!NextWaits'
  <2>1. v7.id \in {"no video", v1}
    BY NoneFacts DEF VideoInv, LoadsRight
  <2> QED
    BY <1>1, <1>2, <2>1, VideoNames DEF Video!NextWaits
<1> QED
  BY <1>1, <1>6, <1>7, <1>8, <1>9, <1>10, VideoTypesOf DEF VideoInv

\* The engine plays, or doesn't, or at another speed.
LEMMA TransportStep ==
  ASSUME VideoInv, NEW p \in BOOLEAN, NEW r \in VideoSpeeds, Video!Transport(p, r)
  PROVE  VideoInv'
<1>1. /\ v3' = p /\ v4' = r
      /\ v12' = (IF v6 = "native" THEN Video!Aligned(v12, v7, p, r) ELSE v12)
      /\ UNCHANGED <<v1, v2, v5, v6, v7, v8, v9, v10, v11, v15>>
  BY DEF Video!Transport, Video!native
<1>2. /\ v6 = "embed" => Video!SyncEmbed(v13, v1, p, r)
      /\ v6 # "embed" => v13' = v13 /\ v14' = v14
  BY DEF Video!Transport
<1>3. /\ v13' \in Embeds /\ v13'.is = v13.is /\ v14' \in VideoIds
      /\ v13'.is = "ready" /\ v1 # "no video" =>
           v14' = v1 /\ v13'.runs = p /\ v13'.wants = r /\ v13'.rate = r
  <2>1. CASE v6 = "embed"
    BY <1>2, <2>1, SyncFacts, VideoTypesOf
  <2>2. CASE v6 # "embed"
    BY <1>2, <2>2, VideoTypesOf DEF VideoInv, EmbedRight
  <2> QED
    BY <2>1, <2>2
<1>4. /\ v12' \in Elements
      /\ \A s \in {0, 1} : v12'[s].src = v12[s].src
      /\ \A s \in {0, 1} : v7.is \notin {"ready", "frame"} \/ s # v9 => v12'[s] = v12[s]
      /\ v7.is \in {"ready", "frame"} => v12'[v9].runs = p /\ v12'[v9].rate = r
  <2>1. v7.is \in {"ready", "frame"} => v7.slot = v9 /\ v6 = "native"
    BY DEF VideoInv, LoadsRight
  <2>2. CASE v6 = "native"
    <3>1. v12' = Video!Aligned(v12, v7, p, r) /\ v12 \in Elements /\ v7 \in VideoLoad
      BY <1>1, <2>2, VideoTypesOf
    <3>2. /\ v12' \in Elements
          /\ \A s \in {0, 1} : v12'[s].src = v12[s].src
          /\ v7.is \in {"ready", "frame"} => v12'[v7.slot].runs = p /\ v12'[v7.slot].rate = r
          /\ \A s \in {0, 1} : v7.is \notin {"ready", "frame"} \/ s # v7.slot => v12'[s] = v12[s]
      BY <3>1, AlignedFacts
    <3> QED
      BY <2>1, <3>2
  <2>3. CASE v6 # "native"
    BY <1>1, <2>1, <2>3, VideoTypesOf
  <2> QED
    BY <2>2, <2>3
<1>5. Video!BvTypes'
  BY <1>1, <1>3, <1>4, VideoTypesOf, VideoTypesBack
<1>6. LoadsRight' /\ Video!FrameIsSongs' /\ Video!NextWaits'
  BY <1>1 DEF VideoInv, LoadsRight, NoneOf, Video!FrameIsSongs, Video!NextWaits
<1>7. ElementsRight'
  <2>1. \A s \in {0, 1} : v12'[s].src # "no video" => (Video!Holds(v7, s) \/ Video!Holds(v8, s))'
    BY <1>1, <1>4 DEF VideoInv, ElementsRight, Video!Holds
  <2>2. \A s \in {0, 1} : v12'[s].runs = TRUE => s = v9 /\ v7.is \notin {"none", "asking"}
    BY <1>4 DEF VideoInv, ElementsRight
  <2> QED
    BY <1>1, <1>4, <2>1, <2>2 DEF ElementsRight
<1>8. EmbedRight'
  BY <1>1, <1>3 DEF VideoInv, EmbedRight
<1> QED
  BY <1>3, <1>5, <1>6, <1>7, <1>8 DEF VideoInv

\* The song's video is the one that waits, which shows at once, or is asked for.
LEMMA LoadNativeStep ==
  ASSUME VideoInv, v6 = "native", NEW id \in VideoIds, Video!LoadNative(id),
         v1' = id, UNCHANGED <<v2, v3, v4, v5, v6, v13, v14, v15>>, EmbedRight
  PROVE  /\ LoadsRight' /\ ElementsRight' /\ Video!FrameIsSongs' /\ Video!NextWaits'
         /\ v7' \in VideoLoad /\ v8' \in VideoLoad /\ v9' \in {0, 1} /\ v11' \in VideoIds
         /\ v10' \subseteq [id : Videos, slot : {0, 1}] /\ v12' \in Elements
<1> DEFINE swap == v8.is # "none" /\ v8.id = id
           slot == IF swap THEN 1 - v9 ELSE v9
           cur  == IF swap THEN v8 ELSE Video!Load(id, slot)
           by   == IF swap THEN Video!NoLoad ELSE v8
           next == IF id = "no video" THEN by ELSE Video!StandbyFor(v2, cur, by, 1 - slot)
           gone == {v7} \union (IF next = by THEN {} ELSE {by})
           els  == Video!Emptied(v12, gone)
<1>1. /\ v7' = cur /\ v8' = next /\ v9' = slot /\ v10' = Video!Aborted(gone)
      /\ v11' = (IF cur.is = "frame" THEN id ELSE "no video")
      /\ v12' = Video!Aligned(els, cur, v3, v4)
  BY VideoNames DEF Video!LoadNative, Video!Other
<1>2. slot \in {0, 1} /\ 1 - slot \in {0, 1} /\ 1 - (1 - slot) = slot /\ slot # 1 - slot
  BY VideoTypesOf
<1>3. /\ v7.is = "none" => NoneOf(v7)
      /\ v8.is = "none" => NoneOf(v8)
      /\ v7.is # "none" => v7.slot = v9
      /\ v8.is # "none" => v8.slot = 1 - v9 /\ v8.id = v2 /\ v2 \in Videos
  BY DEF VideoInv, LoadsRight
<1>4. /\ cur \in VideoLoad
      /\ cur.is = "none" => NoneOf(cur) /\ id = "no video"
      /\ cur.is # "none" => cur.slot = slot /\ cur.id = id /\ id \in Videos
      /\ cur.id = id
      /\ swap \/ cur.is \in {"none", "asking"}
  <2>1. CASE swap
    BY <1>3, <2>1, VideoTypesOf
  <2>2. CASE ~swap
    <3>1. cur = Video!Load(id, slot)
      BY <2>2
    <3> HIDE DEF cur, slot, swap
    <3>2. /\ cur \in VideoLoad
          /\ id = "no video" => cur = Video!NoLoad
          /\ id # "no video" => id \in Videos /\ cur.id = id /\ cur.slot = slot /\ cur.is = "asking"
      BY <1>2, <3>1, LoadFacts
    <3> QED
      BY <3>2, NoneFacts
  <2> QED
    BY <2>1, <2>2
<1>5. /\ by \in VideoLoad
      /\ by.is = "none" => NoneOf(by)
      /\ by.is # "none" => by = v8 /\ ~swap /\ by.slot = 1 - slot /\ by.id = v2 /\ v2 \in Videos
      /\ by = v8 \/ (by = Video!NoLoad /\ swap)
  <2>1. CASE swap
    <3>1. by = Video!NoLoad
      BY <2>1
    <3>2. by.is = "none" /\ by \in VideoLoad /\ NoneOf(by)
      BY <3>1, NoneFacts, VideoNames
    <3> QED
      BY <2>1, <3>1, <3>2
  <2>2. CASE ~swap
    BY <1>3, <2>2, VideoTypesOf
  <2> QED
    BY <2>1, <2>2
<1> HIDE DEF cur, by
<1>6. /\ next \in VideoLoad
      /\ \/ next = by
         \/ NoneOf(next) /\ next.is = "none" /\ v2 \in {"no video", id} \union v5
         \/ next.id = v2 /\ next.slot = 1 - slot /\ next.is = "asking" /\ v2 \in Videos
      /\ id # "no video" => next.id = v2 \/ v2 \in {"no video", id} \union v5
  <2>1. CASE id = "no video"
    BY <1>5, <2>1
  <2>2. CASE id # "no video"
    <3>1. next = Video!StandbyFor(v2, cur, by, 1 - slot)
      BY <2>2
    <3> HIDE DEF next, slot
    <3>2. /\ next \in VideoLoad
          /\ \/ next = by /\ by.is # "none" /\ by.id = v2
             \/ next = Video!NoLoad /\ v2 \in {"no video", cur.id} \union v5
             \/ next.id = v2 /\ next.slot = 1 - slot /\ next.is = "asking" /\ v2 \in Videos
      <4> DEFINE other == 1 - slot
      <4>1. next = StandbyOf(v2, cur, by, other, v5) /\ v2 \in VideoIds /\ other \in {0, 1}
            /\ cur \in VideoLoad /\ by \in VideoLoad
        BY <1>2, <1>4, <1>5, <3>1, VideoTypesOf DEF Video!StandbyFor, StandbyOf
      <4> HIDE DEF other, swap
      <4>2. /\ next \in VideoLoad
            /\ \/ next = by /\ by.is # "none" /\ by.id = v2
               \/ next = Video!NoLoad /\ v2 \in {"no video", cur.id} \union v5
               \/ next.id = v2 /\ next.slot = other /\ next.is = "asking" /\ v2 \in Videos
        <5>1. /\ Video!Load(v2, other) \in VideoLoad
              /\ v2 # "no video" => /\ v2 \in Videos /\ Video!Load(v2, other).id = v2
                                    /\ Video!Load(v2, other).slot = other /\ Video!Load(v2, other).is = "asking"
              /\ v2 = "no video" => Video!Load(v2, other) = Video!NoLoad
          BY <4>1, LoadFacts
        <5>2. CASE by.is # "none" /\ by.id = v2
          BY <4>1, <5>2 DEF StandbyOf
        <5>3. CASE ~(by.is # "none" /\ by.id = v2) /\ (cur.id = v2 \/ v2 \in v5)
          BY <4>1, <5>3, VideoNames DEF StandbyOf
        <5>4. CASE ~(by.is # "none" /\ by.id = v2) /\ ~(cur.id = v2 \/ v2 \in v5)
          BY <4>1, <5>1, <5>4 DEF StandbyOf
        <5> QED
          BY <5>2, <5>3, <5>4
      <4> QED
        BY <4>2 DEF other
    <3>3. next = Video!NoLoad => NoneOf(next) /\ next.is = "none"
      BY NoneFacts
    <3> QED
      BY <1>4, <3>2, <3>3
  <2> QED
    BY <2>1, <2>2
<1>7. gone \subseteq {v7, v8, Video!NoLoad} /\ v7 \in gone /\ (next # by => by \in gone)
      /\ \A l \in gone : l = v7 \/ (l = by /\ next # by)
  BY <1>5
<1> HIDE DEF next, gone
<1>8. /\ els \in Elements
      /\ \A s \in {0, 1} : (\E l \in gone : l.is \notin {"none", "asking"} /\ l.slot = s) => els[s] = NoElement
      /\ \A s \in {0, 1} : els[s] = NoElement \/ els[s] = v12[s]
  BY EmptiedFacts, VideoTypesOf
<1> HIDE DEF els
<1>9. \A s \in {0, 1} : els[s].runs # TRUE
  <2> SUFFICES ASSUME NEW s \in {0, 1}, els[s].runs = TRUE PROVE FALSE
    OBVIOUS
  <2>1. els[s] # NoElement
    BY NoneFacts
  <2>2. v12[s].runs = TRUE
    BY <1>8, <2>1
  <2>3. s = v9 /\ v7.is \notin {"none", "asking"}
    BY <2>2 DEF VideoInv, ElementsRight
  <2>4. v7.slot = s /\ v7 \in gone
    BY <1>3, <1>7, <2>3
  <2> QED
    BY <1>8, <2>1, <2>3, <2>4
<1>10. /\ v12' \in Elements
       /\ \A s \in {0, 1} : v12'[s].src = els[s].src
       /\ cur.is \in {"ready", "frame"} => v12'[slot].runs = v3 /\ v12'[slot].rate = v4
       /\ \A s \in {0, 1} : cur.is \notin {"ready", "frame"} \/ s # slot => v12'[s] = els[s]
  <2>1. /\ v12' \in Elements
        /\ \A s \in {0, 1} : v12'[s].src = els[s].src
        /\ cur.is \in {"ready", "frame"} => v12'[cur.slot].runs = v3 /\ v12'[cur.slot].rate = v4
        /\ \A s \in {0, 1} : cur.is \notin {"ready", "frame"} \/ s # cur.slot => v12'[s] = els[s]
    <3>1. v12' = Video!Aligned(els, cur, v3, v4) /\ els \in Elements /\ cur \in VideoLoad
          /\ v3 \in BOOLEAN /\ v4 \in VideoSpeeds
      BY <1>1, <1>4, <1>8, VideoTypesOf
    <3> QED
      BY <3>1, AlignedFacts
  <2>2. cur.is \in {"ready", "frame"} => cur.slot = slot
    BY <1>4
  <2> HIDE DEF slot
  <2> QED
    BY <2>1, <2>2
<1>11. LoadsRight'
  <2>1. /\ v8'.is = "none" => NoneOf(v8')
        /\ v8'.is # "none" => v8'.slot = 1 - slot /\ v8'.id = v2 /\ v2 \in Videos
    BY <1>1, <1>5, <1>6
  <2> HIDE DEF slot, swap
  <2> QED
    BY <1>1, <1>4, <2>1 DEF LoadsRight, NoneOf
<1>12. ElementsRight'
  <2>1. \A s \in {0, 1} : v12'[s].src # "no video" => (Video!Holds(v7, s) \/ Video!Holds(v8, s))'
    <3> SUFFICES ASSUME NEW s \in {0, 1}, v12'[s].src # "no video"
                 PROVE  (Video!Holds(v7, s) \/ Video!Holds(v8, s))'
      OBVIOUS
    <3>1. els[s] # NoElement /\ els[s] = v12[s] /\ v12'[s].src = v12[s].src
      BY <1>8, <1>10, NoneFacts
    <3>2. Video!Holds(v7, s) \/ Video!Holds(v8, s)
      BY <3>1 DEF VideoInv, ElementsRight
    <3>3. ~Video!Holds(v7, s)
      BY <1>7, <1>8, <3>1 DEF Video!Holds
    <3>4. v8.is \in {"loading", "ready", "frame", "bad"} /\ v8.slot = s /\ v8.id = v12[s].src
      BY <3>2, <3>3 DEF Video!Holds
    <3>5. CASE swap
      <4>1. v7' = v8
        BY <1>1, <3>5 DEF cur
      <4> QED
        BY <3>1, <3>4, <4>1 DEF Video!Holds
    <3>6. CASE ~swap
      <4>1. by = v8
        BY <1>5, <3>6
      <4>2. next = by
        BY <1>7, <1>8, <3>1, <3>4, <4>1
      <4> QED
        BY <1>1, <3>1, <3>4, <4>1, <4>2 DEF Video!Holds
    <3> QED
      BY <3>5, <3>6
  <2>2. \A s \in {0, 1} : v12'[s].runs = TRUE => s = slot /\ cur.is \in {"ready", "frame"}
    <3> HIDE DEF slot
    <3> QED
      BY <1>9, <1>10
  <2>3. \A s \in {0, 1} : v12'[s].runs = TRUE => s = v9' /\ v7'.is \notin {"none", "asking"}
    BY <1>1, <2>2
  <2>4. v7'.is \in {"ready", "frame"} => v12'[v9'].runs = v3' /\ v12'[v9'].rate = v4'
    BY <1>1, <1>10
  <2> QED
    BY <2>1, <2>3, <2>4 DEF ElementsRight
<1>13. Video!FrameIsSongs' /\ v11' \in VideoIds
  BY <1>1, VideoNames DEF Video!FrameIsSongs, VideoIds
<1>14. Video!NextWaits'
  BY <1>1, <1>6, VideoNames DEF Video!NextWaits
<1>15. v10' \subseteq [id : Videos, slot : {0, 1}]
  BY <1>1, <1>7, LoadsAborted
<1> QED
  BY <1>1, <1>2, <1>4, <1>6, <1>10, <1>11, <1>12, <1>13, <1>14, <1>15

LEMMA SetVideoStep ==
  ASSUME VideoInv, NEW id \in VideoIds, Video!SetVideo(id)
  PROVE  VideoInv'
<1>1. /\ v1' = id /\ UNCHANGED <<v2, v3, v4, v5, v6, v15>>
      /\ v6 = "native" => Video!LoadNative(id)
      /\ v6 # "native" => UNCHANGED <<v7, v8, v9, v10, v11, v12>>
      /\ v6 = "embed" => Video!SyncEmbed(v13, id, v3, v4)
      /\ v6 # "embed" => v13' = v13 /\ v14' = v14
  BY DEF Video!SetVideo, Video!engine, Video!native
<1>2. CASE v6 = "native"
  <2>1. EmbedRight /\ v13' = v13 /\ v14' = v14
    BY <1>1, <1>2 DEF VideoInv
  <2>2. /\ LoadsRight' /\ ElementsRight' /\ Video!FrameIsSongs' /\ Video!NextWaits'
        /\ v7' \in VideoLoad /\ v8' \in VideoLoad /\ v9' \in {0, 1} /\ v11' \in VideoIds
        /\ v10' \subseteq [id : Videos, slot : {0, 1}] /\ v12' \in Elements
    BY <1>1, <1>2, <2>1, LoadNativeStep
  <2>3. Video!BvTypes'
    BY <1>1, <2>1, <2>2, VideoTypesOf, VideoTypesBack
  <2>4. EmbedRight'
    BY <1>1, <1>2, <2>1 DEF EmbedRight
  <2> QED
    BY <2>1, <2>2, <2>3, <2>4, VideoTypesOf DEF VideoInv
<1>3. CASE v6 # "native"
  <2>1. /\ v13' \in Embeds /\ v13'.is = v13.is /\ v14' \in VideoIds
        /\ v13'.is = "ready" /\ id # "no video" =>
             v14' = id /\ v13'.runs = v3 /\ v13'.wants = v4 /\ v13'.rate = v4
    <3>1. CASE v6 = "embed"
      BY <1>1, <3>1, SyncFacts, VideoTypesOf
    <3>2. CASE v6 # "embed"
      BY <1>1, <3>2, VideoTypesOf DEF VideoInv, EmbedRight
    <3> QED
      BY <3>1, <3>2
  <2>2. NoneOf(v7) /\ NoneOf(v8) /\ v7.is = "none" /\ v8.is = "none"
    BY <1>3 DEF VideoInv, LoadsRight
  <2>3. Video!BvTypes'
    BY <1>1, <1>3, <2>1, VideoTypesOf, VideoTypesBack
  <2>4. LoadsRight' /\ ElementsRight'
    BY <1>1, <1>3, <2>2 DEF VideoInv, LoadsRight, ElementsRight, NoneOf, Video!Holds
  <2>5. Video!FrameIsSongs' /\ Video!NextWaits'
    BY <1>1, <1>3, <2>2 DEF VideoInv, Video!FrameIsSongs, Video!NextWaits
  <2>6. EmbedRight'
    BY <1>1, <2>1 DEF VideoInv, EmbedRight
  <2> QED
    BY <2>1, <2>3, <2>4, <2>5, <2>6 DEF VideoInv
<1> QED
  BY <1>2, <1>3

\* The view changes its player: what there was is let go.
LEMMA CommitStep ==
  ASSUME VideoInv, Video!Commit
  PROVE  VideoInv'
<1> DEFINE cur  == Video!Load(v1, v9)
           gone == {v7, v8}
<1>1. /\ v6 # Video!Wanted /\ v6' = Video!Wanted
      /\ v7' = (IF Video!Wanted = "native" THEN cur ELSE Video!NoLoad)
      /\ v8' = (IF Video!Wanted = "native" THEN Video!StandbyFor(v2, cur, Video!NoLoad, 1 - v9) ELSE Video!NoLoad)
      /\ v10' = Video!Aborted(gone) /\ v12' = Video!Emptied(v12, gone)
      /\ v11' = "no video" /\ v14' = "no video"
      /\ v13' = (IF Video!Wanted = "embed" THEN [Video!NoEmbed EXCEPT !.is = "making"] ELSE Video!NoEmbed)
      /\ UNCHANGED <<v1, v2, v3, v4, v5, v9>>
  BY VideoNames DEF Video!Commit, Video!Other, Video!engine
<1>2. v15' \in BOOLEAN
  BY VideoTypesOf DEF Video!Commit
<1>3. Video!Wanted \in {"none", "native", "embed"} /\ (Video!Wanted = "native" => v1 # "no video" /\ v1 \in Videos)
  BY VideoNames, VideoTypesOf DEF Video!Wanted, VideoIds
<1>4. /\ v13' \in Embeds /\ (v13'.is # "none" <=> Video!Wanted = "embed") /\ v13'.is # "ready"
  <2> DEFINE none == Video!NoEmbed
  <2>1. none \in Embeds /\ none.is = "none"
    BY VideoNames DEF Video!NoEmbed, Embeds
  <2>2. v13' = (IF Video!Wanted = "embed" THEN [none EXCEPT !.is = "making"] ELSE none)
    BY <1>1
  <2> HIDE DEF none
  <2>3. [none EXCEPT !.is = "making"] \in Embeds /\ [none EXCEPT !.is = "making"].is = "making"
    BY <2>1 DEF Embeds
  <2> QED
    BY <2>1, <2>2, <2>3
<1>5. v10' \subseteq [id : Videos, slot : {0, 1}]
  BY <1>1, LoadsAborted
<1>6. v12' \in Elements /\ \A s \in {0, 1} : v12'[s].src = "no video" /\ v12'[s].runs # TRUE
  <2>1. /\ v12' \in Elements
        /\ \A s \in {0, 1} : (\E l \in gone : l.is \notin {"none", "asking"} /\ l.slot = s) => v12'[s] = NoElement
        /\ \A s \in {0, 1} : ~(\E l \in gone : l.is \notin {"none", "asking"} /\ l.slot = s) => v12'[s] = v12[s]
    <3>1. v12 \in Elements
      BY VideoTypesOf
    <3>2. v12' = Video!Emptied(v12, gone)
      BY <1>1
    <3> HIDE DEF gone
    <3> QED
      BY <3>1, <3>2, EmptiedFacts
  <2>2. ASSUME NEW s \in {0, 1} PROVE v12'[s].src = "no video" /\ v12'[s].runs # TRUE
    <3>1. CASE \E l \in gone : l.is \notin {"none", "asking"} /\ l.slot = s
      BY <2>1, <3>1, NoneFacts
    <3>2. CASE ~\E l \in gone : l.is \notin {"none", "asking"} /\ l.slot = s
      <4>1. v12'[s] = v12[s]
        BY <2>1, <3>2
      <4>2. ~Video!Holds(v7, s) /\ ~Video!Holds(v8, s)
        BY <3>2 DEF Video!Holds
      <4>3. ~(s = v9 /\ v7.is \notin {"none", "asking"})
        BY <3>2 DEF VideoInv, LoadsRight
      <4> QED
        BY <4>1, <4>2, <4>3 DEF VideoInv, ElementsRight
    <3> QED
      BY <3>1, <3>2
  <2> QED
    BY <2>1, <2>2
<1>7. /\ v7' \in VideoLoad /\ v7'.is \in {"none", "asking"}
      /\ v7'.is = "none" => NoneOf(v7')
      /\ v7'.is # "none" => v7'.slot = v9 /\ v7'.id = v1 /\ v1 \in Videos /\ Video!Wanted = "native"
  <2>1. CASE Video!Wanted = "native"
    <3>1. cur \in VideoLoad /\ cur.id = v1 /\ cur.slot = v9 /\ cur.is = "asking"
      BY <1>3, <2>1, LoadFacts, VideoTypesOf
    <3> HIDE DEF cur
    <3> QED
      BY <1>1, <1>3, <2>1, <3>1
  <2>2. CASE Video!Wanted # "native"
    BY <1>1, <2>2, NoneFacts, VideoNames
  <2> QED
    BY <2>1, <2>2
<1>8. /\ v8' \in VideoLoad /\ v8'.is \in {"none", "asking"}
      /\ v8'.is = "none" => NoneOf(v8')
      /\ v8'.is # "none" => v8'.slot = 1 - v9 /\ v8'.id = v2 /\ v2 \in Videos /\ Video!Wanted = "native"
      /\ Video!Wanted = "native" => v8'.id = v2 \/ v2 \in {"no video", v1} \union v5
  <2>1. CASE Video!Wanted = "native"
    <3> DEFINE other == 1 - v9
               none  == Video!NoLoad
    <3>1. cur \in VideoLoad /\ cur.id = v1
      BY <1>3, <2>1, LoadFacts, VideoTypesOf
    <3>2. v8' = StandbyOf(v2, cur, none, other, v5) /\ v2 \in VideoIds /\ other \in {0, 1} /\ none \in VideoLoad
          /\ none.is = "none"
      BY <1>1, <2>1, VideoTypesOf, VideoNames, NoneFacts DEF Video!StandbyFor, StandbyOf
    <3> HIDE DEF other, cur, none
    <3>3. /\ v8' \in VideoLoad
          /\ \/ v8' = none /\ none.is # "none" /\ none.id = v2
             \/ v8' = Video!NoLoad /\ v2 \in {"no video", cur.id} \union v5
             \/ v8'.id = v2 /\ v8'.slot = other /\ v8'.is = "asking" /\ v2 \in Videos
      <4>1. /\ Video!Load(v2, other) \in VideoLoad
            /\ v2 # "no video" => /\ v2 \in Videos /\ Video!Load(v2, other).id = v2
                                  /\ Video!Load(v2, other).slot = other /\ Video!Load(v2, other).is = "asking"
            /\ v2 = "no video" => Video!Load(v2, other) = Video!NoLoad
        BY <3>2, LoadFacts
      <4>2. CASE cur.id = v2 \/ v2 \in v5
        BY <3>2, <4>2, VideoNames DEF StandbyOf
      <4>3. CASE ~(cur.id = v2 \/ v2 \in v5)
        BY <3>2, <4>1, <4>3 DEF StandbyOf
      <4> QED
        BY <4>2, <4>3
    <3>4. /\ \/ NoneOf(v8') /\ v8'.is = "none" /\ v2 \in {"no video", v1} \union v5
             \/ v8'.id = v2 /\ v8'.slot = other /\ v8'.is = "asking" /\ v2 \in Videos
      BY <3>1, <3>2, <3>3, NoneFacts
    <3> QED
      BY <2>1, <3>3, <3>4 DEF other
  <2>2. CASE Video!Wanted # "native"
    BY <1>1, <2>2, NoneFacts, VideoNames
  <2> QED
    BY <2>1, <2>2
<1> HIDE DEF cur, gone
<1>9. Video!BvTypes'
  <2>1. v11' \in VideoIds /\ v14' \in VideoIds
    BY <1>1 DEF VideoIds
  <2> QED
    BY <1>1, <1>2, <1>3, <1>4, <1>5, <1>6, <1>7, <1>8, <2>1, VideoTypesOf, VideoTypesBack
<1>10. LoadsRight'
  BY <1>1, <1>7, <1>8 DEF LoadsRight, NoneOf
<1>11. ElementsRight'
  BY <1>6, <1>7 DEF ElementsRight
<1>12. EmbedRight' /\ Video!FrameIsSongs'
  BY <1>1, <1>4, VideoNames DEF EmbedRight, Video!FrameIsSongs
<1>13. Video!NextWaits'
  BY <1>1, <1>8, VideoNames DEF Video!NextWaits
<1> QED
  BY <1>4, <1>9, <1>10, <1>11, <1>12, <1>13 DEF VideoInv

LEMMA VideoInitHolds ==
  ASSUME Video!BvInit
  PROVE  VideoInv
<1>1. /\ v1 = "no video" /\ v2 = "no video" /\ v3 = FALSE /\ v4 = 1 /\ v5 = {} /\ v6 = "none"
      /\ v7 = Video!NoLoad /\ v8 = Video!NoLoad /\ v9 = 0 /\ v10 = {} /\ v11 = "no video"
      /\ v13 = Video!NoEmbed /\ v14 = "no video" /\ v15 = FALSE
      /\ v12 = [s \in {0, 1} |-> NoElement]
  BY VideoNames DEF Video!BvInit
<1>2. v13 \in Embeds /\ v13.is = "none"
  BY <1>1, VideoNames DEF Video!NoEmbed, Embeds
<1>3. v12 \in [{0, 1} -> [src : VideoIds, runs : BOOLEAN, rate : VideoSpeeds]]
      /\ \A s \in {0, 1} : v12[s] = NoElement
  BY <1>1, VideoNames
<1>4. v7.is = "none" /\ v8.is = "none" /\ NoneOf(v7) /\ NoneOf(v8) /\ v7 \in VideoLoad
  BY <1>1, NoneFacts, VideoNames
<1>5. Video!BvTypes
  <2>1. {v1, v2, v11, v14} \subseteq VideoIds /\ {v3, v15} \subseteq BOOLEAN /\ v4 \in VideoSpeeds
    BY <1>1, VideoNames DEF VideoIds
  <2>2. {v7, v8} \subseteq VideoLoad /\ v9 \in {0, 1}
    BY <1>1, <1>4
  <2> QED
    BY <1>1, <1>2, <1>3, <2>1, <2>2, VideoNames DEF Video!BvTypes, VideoLoad
<1>6. LoadsRight /\ EmbedRight /\ Video!FrameIsSongs /\ Video!NextWaits
  BY <1>1, <1>2, <1>4, VideoNames DEF LoadsRight, EmbedRight, Video!FrameIsSongs, Video!NextWaits
<1>7. ElementsRight
  BY <1>3, <1>4, NoneFacts DEF ElementsRight
<1> QED
  BY <1>2, <1>5, <1>6, <1>7 DEF VideoInv

LEMMA VideoNextKeeps ==
  ASSUME VideoInv, Video!BvNext
  PROVE  VideoInv'
<1>1. CASE \E id \in Video!WithNone : Video!Preload(id) \/ Video!SetVideo(id)
  BY <1>1, VideoNames, PreloadStep, SetVideoStep
<1>2. CASE \E load \in {v7, v8} :
        (\E ok \in BOOLEAN : Video!Answered(load, ok)) \/ Video!OnReady(load) \/ Video!OnFirstFrame(load) \/ Video!OnError(load)
  BY <1>2, AnsweredLoadStep, OnReadyStep, OnFirstFrameStep, OnErrorStep
<1>3. CASE \E load \in v10 : Video!AnsweredLate(load)
  BY <1>3, AnsweredLateStep
<1>4. CASE \E p \in BOOLEAN, r \in VideoSpeeds : Video!Transport(p, r)
  BY <1>4, TransportStep
<1> QED
  BY <1>1, <1>2, <1>3, <1>4, EmbedSteps, CommitStep DEF Video!BvNext

LEMMA VideoSame ==
  ASSUME VideoInv, UNCHANGED <<v1, v2, v3, v4, v5, v6, v7, v8, v9, v10, v11, v12, v13, v14, v15>>
  PROVE  VideoInv'
<1>1. Video!BvTypes'
  BY VideoTypesOf, VideoTypesBack
<1>2. LoadsRight' /\ ElementsRight' /\ EmbedRight' /\ Video!FrameIsSongs' /\ Video!NextWaits'
  BY DEF VideoInv, LoadsRight, ElementsRight, EmbedRight, Video!Holds, NoneOf, Video!FrameIsSongs, Video!NextWaits
<1> QED
  BY <1>1, <1>2, VideoTypesOf DEF VideoInv

LEMMA VideoHolds ==
  ASSUME VideoInv
  PROVE  Video!BvTypes /\ Video!VideoRight
<1>1. Video!SlotsRight
  <2>1. \A s \in Video!Slots : v12[s].src # Video!NoVideo => Video!Holds(v7, s) \/ Video!Holds(v8, s)
    BY VideoNames DEF VideoInv, ElementsRight
  <2>2. /\ v7.is # "none" => v7.slot = v9 /\ v7.id = v1
        /\ v8.is # "none" => v8.slot # v9 /\ v8.id = v2
    BY VideoTypesOf DEF VideoInv, LoadsRight
  <2> QED
    BY <2>1, <2>2 DEF Video!SlotsRight
<1>2. Video!Follows
  <2>1. Video!ReadyLoad(v7) => v12[v9].runs = v3 /\ v12[v9].rate = v4
    BY DEF VideoInv, ElementsRight, Video!ReadyLoad
  <2>2. v8.is # "none" => ~v12[v8.slot].runs
    <3> SUFFICES ASSUME v8.is # "none" PROVE ~v12[v8.slot].runs
      OBVIOUS
    <3>1. v8.slot # v9 /\ v8.slot \in {0, 1}
      BY VideoTypesOf DEF VideoInv, LoadsRight
    <3>2. v12[v8.slot].runs # TRUE /\ v12[v8.slot].runs \in BOOLEAN
      BY <3>1, VideoTypesOf DEF VideoInv, ElementsRight, Elements
    <3> QED
      BY <3>2
  <2>3. (v13.is = "ready" /\ v1 # Video!NoVideo) =>
          v14 = v1 /\ v13.runs = v3 /\ (~v13.landing => v13.rate = v4)
    BY VideoTypesOf, VideoNames DEF VideoInv, EmbedRight, Embeds
  <2> QED
    BY <2>1, <2>2, <2>3 DEF Video!Follows
<1> QED
  BY <1>1, <1>2 DEF VideoInv, Video!VideoRight

(***************************************************************************)
(* FollowClock: v1 audio, v2 video, v3 landing, v4 correction, v5 lead,    *)
(* v6 latency, v7 seeks, v8 jumps, v9 clip, v10 segments, v11 asking,      *)
(* v12 lateLookup, v13 playhead, v14 plays.                                *)
(***************************************************************************)
Corrections == [on : BOOLEAN, audio : Nat, ticks : Nat]

\* The seeks that may be needed yet to be in step: none if the one under way
\* leads by what it takes, one if it doesn't or if a seek of a pause is landing
\* and what it takes is known, two if it isn't.
Owed ==
  IF v4.on = TRUE THEN (IF v5 = v6 THEN 0 ELSE 1)
  ELSE IF v3 = 0 THEN 0 ELSE IF v5 = v6 THEN 1 ELSE 2

ClockTypes ==
  /\ {v1, v2, v3, v5, v7, v8} \subseteq Nat /\ v6 \in Latencies /\ v4 \in Corrections

\* A correction is of the audio's time now, and lands; without one, the video is where the audio is.
Corrected ==
  /\ v4.on = TRUE => v1 = v4.audio + v4.ticks /\ v3 > 0
  /\ v4.on = FALSE => v2 = v1

\* Seeks that aren't slower than the lead: what one takes is measured as it is.
Measured ==
  v6 <= MaxLead =>
    /\ v5 \in {0, v6}
    /\ v4.on = TRUE => v3 + v4.ticks = v6 /\ v2 = v4.audio + v5
    /\ v7 + Owed <= 2 * v8

\* The segments held or asked for are the song's, and the playhead isn't at an edge without music.
SegmentsInv ==
  /\ v9 \in Clips \union {Clock!NoClip} /\ v10 \in {v9, Clock!NoClip} /\ v11 \in {v9, Clock!NoClip}
  /\ v13 \in 0..SongLen /\ v14 \in BOOLEAN
  /\ v14 = TRUE /\ v10 # Clock!NoClip => v13 >= 2 /\ ~(SongLen - 1 <= v13 /\ v13 < SongLen)

ClockInv == ClockTypes /\ Corrected /\ Measured /\ SegmentsInv

LEMMA ClockBounds ==
  MaxLead \in Nat /\ MaxWait \in Nat /\ SongLen \in Nat /\ MaxLead <= MaxWait /\ SongLen >= 5
BY PageAssumption

LEMMA ClockNames ==
  /\ \A n \in Latencies : n \in Nat /\ n > 0
  /\ MaxLead \in Nat /\ MaxWait \in Nat /\ SongLen \in Nat /\ MaxLead <= MaxWait /\ SongLen >= 5
  /\ Clock!Done = [on |-> FALSE, audio |-> 0, ticks |-> 0]
<1>1. \A n \in Latencies : n \in Nat /\ n > 0
  <2> SUFFICES ASSUME NEW n \in Latencies PROVE n \in Nat /\ n > 0
    OBVIOUS
  <2>1. n \in Nat \ {0}
    BY PageAssumption
  <2> QED
    BY <2>1
<1> QED
  BY <1>1, ClockBounds DEF Clock!Done

\* What follow() measures: how long a correction took that isn't overtaken by a jump.
AheadOf(tm, cr) == IF cr.on = TRUE /\ tm = cr.audio + cr.ticks THEN Clock!Lesser(cr.ticks, MaxLead) ELSE v5

\* follow() waits, is in step, or seeks.
LEMMA FollowFacts ==
  ASSUME NEW tm \in Nat, NEW vt \in Nat, NEW ln \in Nat, NEW cr \in Corrections, ClockTypes, Clock!Follow(tm, vt, ln, cr)
  PROVE  \/ /\ cr.on = TRUE /\ ln > 0 /\ tm = cr.audio + cr.ticks /\ cr.ticks <= MaxWait
            /\ v2' = vt /\ v3' = ln /\ v4' = cr /\ v5' = v5 /\ v7' = v7
         \/ \E ahead \in Nat :
            /\ ~(cr.on = TRUE /\ ln > 0 /\ tm = cr.audio + cr.ticks /\ cr.ticks <= MaxWait)
            /\ ahead = AheadOf(tm, cr) /\ v5' = ahead
            /\ \/ vt = tm /\ v2' = vt /\ v3' = ln /\ v4' = Clock!Done /\ v7' = v7
               \/ /\ vt # tm /\ v2' = tm + ahead /\ v3' = v6
                  /\ v4' = [on |-> TRUE, audio |-> tm, ticks |-> 0] /\ v7' = v7 + 1
<1>1. cr.on \in BOOLEAN /\ cr.ticks \in Nat /\ v5 \in Nat /\ MaxLead \in Nat
  BY ClockNames DEF Corrections, ClockTypes
<1>2. CASE cr.on = TRUE /\ ln > 0 /\ tm = cr.audio + cr.ticks /\ cr.ticks <= MaxWait
  BY <1>2 DEF Clock!Follow, Clock!Waits
<1>3. CASE ~(cr.on = TRUE /\ ln > 0 /\ tm = cr.audio + cr.ticks /\ cr.ticks <= MaxWait)
  <2> DEFINE ahead == AheadOf(tm, cr)
  <2>1. ~(cr.on /\ Clock!Waits(cr, tm, ln))
    BY <1>1, <1>3 DEF Clock!Waits
  <2>2. /\ v5' = ahead
        /\ IF vt = tm THEN v2' = vt /\ v3' = ln /\ v4' = Clock!Done /\ UNCHANGED v7
           ELSE /\ v2' = tm + ahead /\ v3' = v6 /\ v4' = [on |-> TRUE, audio |-> tm, ticks |-> 0]
                /\ v7' = v7 + 1
    BY <1>1, <2>1 DEF Clock!Follow, AheadOf
  <2>3. ahead \in Nat
    BY <1>1 DEF AheadOf, Clock!Lesser
  <2> HIDE DEF ahead
  <2>4. \/ vt = tm /\ v2' = vt /\ v3' = ln /\ v4' = Clock!Done /\ v7' = v7
        \/ vt # tm /\ v2' = tm + ahead /\ v3' = v6 /\ v4' = [on |-> TRUE, audio |-> tm, ticks |-> 0] /\ v7' = v7 + 1
    BY <2>2
  <2>5. ahead = AheadOf(tm, cr)
    BY DEF ahead
  <2> QED
    BY <1>3, <2>2, <2>3, <2>4, <2>5
<1> QED
  BY <1>2, <1>3

\* The video, its correction and the lead keep their types.
LEMMA FollowKeepsTypes ==
  ASSUME NEW tm \in Nat, NEW vt \in Nat, NEW ln \in Nat, NEW cr \in Corrections, ClockTypes, Clock!Follow(tm, vt, ln, cr),
         v6' = v6, v1' = tm, v8' \in Nat
  PROVE  ClockTypes' /\ Corrected'
<1>0. tm \in Nat /\ vt \in Nat /\ ln \in Nat /\ cr \in Corrections /\ ClockTypes /\ Clock!Follow(tm, vt, ln, cr)
  OBVIOUS
<1>1. /\ cr.on \in BOOLEAN /\ cr.audio \in Nat /\ cr.ticks \in Nat
      /\ v5 \in Nat /\ v6 \in Nat /\ v6 > 0 /\ v7 \in Nat /\ v6 \in Latencies
  BY ClockNames DEF Corrections, ClockTypes
<1>2. CASE cr.on = TRUE /\ ln > 0 /\ tm = cr.audio + cr.ticks /\ v2' = vt /\ v3' = ln /\ v4' = cr /\ v5' = v5 /\ v7' = v7
  BY <1>1, <1>2 DEF ClockTypes, Corrected
<1>3. ASSUME NEW ahead \in Nat, v5' = ahead, vt = tm, v2' = vt, v3' = ln, v4' = Clock!Done, v7' = v7
      PROVE  ClockTypes' /\ Corrected'
  <2>1. v4' \in Corrections /\ v4'.on = FALSE
    BY <1>3, ClockNames DEF Corrections
  <2> QED
    BY <1>1, <1>3, <2>1 DEF ClockTypes, Corrected
<1>4. ASSUME NEW ahead \in Nat, v5' = ahead, v2' = tm + ahead, v3' = v6,
             v4' = [on |-> TRUE, audio |-> tm, ticks |-> 0], v7' = v7 + 1
      PROVE  ClockTypes' /\ Corrected'
  <2>1. v4' \in Corrections /\ v4'.on = TRUE /\ v4'.audio = tm /\ v4'.ticks = 0
    BY <1>4 DEF Corrections
  <2>2. v1' = v4'.audio + v4'.ticks
    BY <2>1
  <2> QED
    BY <1>1, <1>4, <2>1, <2>2 DEF ClockTypes, Corrected
<1>5. \/ /\ cr.on = TRUE /\ ln > 0 /\ tm = cr.audio + cr.ticks /\ cr.ticks <= MaxWait
         /\ v2' = vt /\ v3' = ln /\ v4' = cr /\ v5' = v5 /\ v7' = v7
      \/ \E ahead \in Nat :
            /\ ~(cr.on = TRUE /\ ln > 0 /\ tm = cr.audio + cr.ticks /\ cr.ticks <= MaxWait)
            /\ ahead = AheadOf(tm, cr) /\ v5' = ahead
            /\ \/ vt = tm /\ v2' = vt /\ v3' = ln /\ v4' = Clock!Done /\ v7' = v7
               \/ /\ vt # tm /\ v2' = tm + ahead /\ v3' = v6
                  /\ v4' = [on |-> TRUE, audio |-> tm, ticks |-> 0] /\ v7' = v7 + 1
  BY <1>0, FollowFacts
<1> QED
  BY <1>2, <1>3, <1>4, <1>5

\* How many seeks may yet be needed, after each of the three.
LEMMA FollowMeasured ==
  ASSUME NEW tm \in Nat, NEW vt \in Nat, NEW ln \in Nat, NEW cr \in Corrections, ClockTypes, Clock!Follow(tm, vt, ln, cr),
         v6' = v6, v6 <= MaxLead, v5 \in {0, v6},
         cr.on = TRUE => ln + cr.ticks = v6 /\ vt = cr.audio + v5,
         cr.on = TRUE /\ tm # cr.audio + cr.ticks => v7 + 2 <= 2 * v8',
         cr.on = TRUE /\ tm = cr.audio + cr.ticks => v7 + (IF v5 = v6 THEN 0 ELSE 1) <= 2 * v8',
         cr.on = FALSE => v7 + (IF vt = tm /\ ln = 0 THEN 0 ELSE 2) <= 2 * v8' \/
                          (vt # tm /\ v7 + (IF v5 = v6 THEN 1 ELSE 2) <= 2 * v8'),
         v8' \in Nat
  PROVE  Measured'
<1>0. tm \in Nat /\ vt \in Nat /\ ln \in Nat /\ cr \in Corrections /\ ClockTypes /\ Clock!Follow(tm, vt, ln, cr)
  OBVIOUS
<1>1. /\ cr.on \in BOOLEAN /\ cr.audio \in Nat /\ cr.ticks \in Nat /\ MaxLead \in Nat /\ MaxWait \in Nat
      /\ MaxLead <= MaxWait /\ v5 \in Nat /\ v6 \in Nat /\ v6 > 0 /\ v7 \in Nat
  BY ClockNames DEF Corrections, ClockTypes
<1>m. PICK m \in Nat : v8' = m
  OBVIOUS
<1>2. CASE cr.on = TRUE /\ ln > 0 /\ tm = cr.audio + cr.ticks /\ v2' = vt /\ v3' = ln /\ v4' = cr /\ v5' = v5 /\ v7' = v7
  <2>1. Owed' = IF v5 = v6 THEN 0 ELSE 1
    BY <1>2 DEF Owed
  <2>2. v7 + (IF v5 = v6 THEN 0 ELSE 1) <= 2 * m
    BY <1>2, <1>m
  <2> QED
    BY <1>1, <1>2, <1>m, <2>1, <2>2 DEF Measured
<1>3. ASSUME NEW ahead \in Nat, ahead = AheadOf(tm, cr), v5' = ahead,
             ~(cr.on = TRUE /\ ln > 0 /\ tm = cr.audio + cr.ticks /\ cr.ticks <= MaxWait),
             \/ vt = tm /\ v2' = vt /\ v3' = ln /\ v4' = Clock!Done /\ v7' = v7
             \/ /\ vt # tm /\ v2' = tm + ahead /\ v3' = v6
                /\ v4' = [on |-> TRUE, audio |-> tm, ticks |-> 0] /\ v7' = v7 + 1
      PROVE  Measured'
  <2>1. ahead \in {0, v6} /\ (cr.on = TRUE /\ tm = cr.audio + cr.ticks => ahead = v6 /\ ln = 0)
    <3>1. CASE cr.on = TRUE /\ tm = cr.audio + cr.ticks
      <4>1. ln + cr.ticks = v6 /\ v6 <= MaxLead
        BY <3>1
      <4>2. ~(ln > 0)
        BY <1>1, <1>3, <3>1, <4>1
      <4>3. ln = 0 /\ cr.ticks = v6
        BY <1>0, <1>1, <4>1, <4>2
      <4> QED
        BY <1>1, <1>3, <3>1, <4>1, <4>3 DEF AheadOf, Clock!Lesser
    <3>2. CASE ~(cr.on = TRUE /\ tm = cr.audio + cr.ticks)
      BY <1>3, <3>2 DEF AheadOf
    <3> QED
      BY <3>1, <3>2
  <2>2. CASE vt = tm /\ v2' = vt /\ v3' = ln /\ v4' = Clock!Done /\ v7' = v7
    <3>1. v4'.on = FALSE
      BY <2>2, ClockNames
    <3>2. Owed' = IF ln = 0 THEN 0 ELSE IF ahead = v6 THEN 1 ELSE 2
      BY <1>3, <2>2, <3>1 DEF Owed
    <3>3. v7 + (IF ln = 0 THEN 0 ELSE 2) <= 2 * m
      <4>1. CASE cr.on = TRUE /\ tm = cr.audio + cr.ticks
        BY <1>0, <1>1, <1>m, <2>1, <4>1
      <4>2. CASE cr.on = TRUE /\ tm # cr.audio + cr.ticks
        BY <1>0, <1>1, <1>m, <4>2
      <4>3. CASE cr.on = FALSE
        BY <1>0, <1>1, <1>m, <2>2, <4>3
      <4> QED
        BY <1>1, <4>1, <4>2, <4>3
    <3>4. v7 + (IF ln = 0 THEN 0 ELSE IF ahead = v6 THEN 1 ELSE 2) <= 2 * m
      BY <1>0, <1>1, <3>3
    <3> QED
      BY <1>1, <1>3, <1>m, <2>1, <2>2, <3>1, <3>2, <3>4 DEF Measured
  <2>3. CASE /\ vt # tm /\ v2' = tm + ahead /\ v3' = v6
             /\ v4' = [on |-> TRUE, audio |-> tm, ticks |-> 0] /\ v7' = v7 + 1
    <3>1. v4'.on = TRUE /\ v4'.audio = tm /\ v4'.ticks = 0
      BY <2>3
    <3>2. Owed' = IF ahead = v6 THEN 0 ELSE 1
      BY <1>3, <3>1 DEF Owed
    <3>3. v7 + 1 + (IF ahead = v6 THEN 0 ELSE 1) <= 2 * m
      <4>1. CASE cr.on = TRUE /\ tm = cr.audio + cr.ticks
        <5>1. ahead = v6 /\ ln = 0 /\ cr.ticks = v6 /\ vt = cr.audio + v5
          BY <1>0, <1>1, <2>1, <4>1
        <5>2. v5 # v6
          BY <1>1, <2>3, <4>1, <5>1
        <5>3. v7 + (IF v5 = v6 THEN 0 ELSE 1) <= 2 * m
          BY <1>m, <4>1
        <5> QED
          BY <1>1, <5>1, <5>2, <5>3
      <4>2. CASE cr.on = TRUE /\ tm # cr.audio + cr.ticks
        BY <1>0, <1>1, <1>m, <4>2
      <4>3. CASE cr.on = FALSE
        <5>1. ahead = v5
          BY <1>3, <4>3 DEF AheadOf
        <5> QED
          BY <1>0, <1>1, <1>m, <2>3, <4>3, <5>1
      <4> QED
        BY <1>1, <4>1, <4>2, <4>3
    <3> QED
      BY <1>1, <1>3, <1>m, <2>1, <2>3, <3>1, <3>2, <3>3 DEF Measured
  <2> QED
    BY <1>3, <2>2, <2>3
<1>5. \/ /\ cr.on = TRUE /\ ln > 0 /\ tm = cr.audio + cr.ticks /\ cr.ticks <= MaxWait
         /\ v2' = vt /\ v3' = ln /\ v4' = cr /\ v5' = v5 /\ v7' = v7
      \/ \E ahead \in Nat :
            /\ ~(cr.on = TRUE /\ ln > 0 /\ tm = cr.audio + cr.ticks /\ cr.ticks <= MaxWait)
            /\ ahead = AheadOf(tm, cr) /\ v5' = ahead
            /\ \/ vt = tm /\ v2' = vt /\ v3' = ln /\ v4' = Clock!Done /\ v7' = v7
               \/ /\ vt # tm /\ v2' = tm + ahead /\ v3' = v6
                  /\ v4' = [on |-> TRUE, audio |-> tm, ticks |-> 0] /\ v7' = v7 + 1
  BY <1>0, FollowFacts
<1> QED
  BY <1>2, <1>3, <1>5

LEMMA SinceFacts ==
  ASSUME NEW c \in Corrections
  PROVE  /\ Clock!Since(c) \in Corrections /\ Clock!Since(c).on = c.on /\ Clock!Since(c).audio = c.audio
         /\ c.on = TRUE => Clock!Since(c).ticks = c.ticks + 1
<1>1. c.on \in BOOLEAN /\ c.audio \in Nat /\ c.ticks \in Nat /\ c = [on |-> c.on, audio |-> c.audio, ticks |-> c.ticks]
  BY DEF Corrections
<1>2. CASE c.on = TRUE
  <2>1. Clock!Since(c) = [on |-> c.on, audio |-> c.audio, ticks |-> c.ticks + 1]
    BY <1>1, <1>2 DEF Clock!Since
  <2>2. c.ticks + 1 \in Nat
    BY <1>1
  <2> QED
    BY <1>1, <2>1, <2>2 DEF Corrections
<1>3. CASE c.on = FALSE
  BY <1>3 DEF Clock!Since
<1> QED
  BY <1>1, <1>2, <1>3

LEMMA ClockTypesOf ==
  ASSUME ClockTypes
  PROVE  /\ v1 \in Nat /\ v2 \in Nat /\ v3 \in Nat /\ v5 \in Nat /\ v7 \in Nat /\ v8 \in Nat
         /\ v6 \in Nat /\ v6 > 0 /\ MaxLead \in Nat /\ v4 \in Corrections /\ v4.on \in BOOLEAN /\ v4.audio \in Nat /\ v4.ticks \in Nat
         /\ Owed \in 0..2
<1>1. Owed \in {0, 1, 2}
  BY DEF Owed
<1>2. 0 \in 0..2 /\ 1 \in 0..2 /\ 2 \in 0..2
  OBVIOUS
<1>3. Owed \in 0..2
  BY <1>1, <1>2
<1> QED
  BY <1>3, ClockNames DEF ClockTypes, Corrections

\* A tick.
LEMMA ClockTickStep ==
  ASSUME ClockTypes, Corrected, Measured, Clock!ClockTick
  PROVE  ClockTypes' /\ Corrected' /\ Measured'
<1> DEFINE tm == v1 + 1
           cr == Clock!Since(v4)
<1>1. v1' = tm /\ v6' = v6 /\ v8' = v8 /\ tm \in Nat /\ cr \in Corrections /\ v8' \in Nat
      /\ cr.on = v4.on /\ cr.audio = v4.audio /\ (v4.on = TRUE => cr.ticks = v4.ticks + 1)
  <2>1. v4 \in Corrections /\ v1 \in Nat /\ v8 \in Nat
    BY ClockTypesOf
  <2>2. v1' = v1 + 1 /\ v6' = v6 /\ v8' = v8
    BY DEF Clock!ClockTick
  <2>3. tm \in Nat
    BY <2>1
  <2> HIDE DEF tm
  <2>4. v1' = tm
    BY <2>2 DEF tm
  <2> QED
    BY <2>1, <2>2, <2>3, <2>4, SinceFacts
<1>2. CASE v3 > 0
  <2> DEFINE ln == v3 - 1
  <2>1. Clock!Follow(tm, v2, ln, cr) /\ ln \in Nat /\ v2 \in Nat
    BY <1>2, ClockTypesOf DEF Clock!ClockTick
  <2> HIDE DEF tm, cr, ln
  <2>2. ClockTypes' /\ Corrected'
    BY <1>1, <2>1, FollowKeepsTypes
  <2>3. ASSUME v6 <= MaxLead PROVE Measured'
    <3>1. v5 \in {0, v6} /\ v7 + Owed <= 2 * v8
      BY <2>3 DEF Measured
    <3>2. cr.on = TRUE => /\ ln + cr.ticks = v6 /\ v2 = cr.audio + v5 /\ tm = cr.audio + cr.ticks
                          /\ v7 + (IF v5 = v6 THEN 0 ELSE 1) <= 2 * v8
      <4> SUFFICES ASSUME cr.on = TRUE
                   PROVE  /\ ln + cr.ticks = v6 /\ v2 = cr.audio + v5 /\ tm = cr.audio + cr.ticks
                          /\ v7 + (IF v5 = v6 THEN 0 ELSE 1) <= 2 * v8
        OBVIOUS
      <4>1. v4.on = TRUE /\ cr.ticks = v4.ticks + 1 /\ cr.audio = v4.audio
        BY <1>1
      <4>2. v3 + v4.ticks = v6 /\ v2 = v4.audio + v5 /\ v1 = v4.audio + v4.ticks
        BY <2>3, <4>1 DEF Measured, Corrected
      <4>3. ln + cr.ticks = v6 /\ v2 = cr.audio + v5 /\ tm = cr.audio + cr.ticks
        BY <4>1, <4>2, ClockTypesOf DEF ln, tm
      <4>4. Owed = IF v5 = v6 THEN 0 ELSE 1
        BY <4>1 DEF Owed
      <4> QED
        BY <3>1, <4>3, <4>4
    <3>3. cr.on = FALSE => v2 # tm /\ v7 + (IF v5 = v6 THEN 1 ELSE 2) <= 2 * v8
      <4> SUFFICES ASSUME cr.on = FALSE PROVE v2 # tm /\ v7 + (IF v5 = v6 THEN 1 ELSE 2) <= 2 * v8
        OBVIOUS
      <4>1. v4.on = FALSE /\ v2 = v1
        BY <1>1 DEF Corrected
      <4>2. Owed = IF v5 = v6 THEN 1 ELSE 2
        BY <1>2, <4>1, ClockTypesOf DEF Owed
      <4> QED
        BY <3>1, <4>1, <4>2, ClockTypesOf DEF tm
    <3> QED
      BY <1>1, <2>1, <2>3, <3>1, <3>2, <3>3, FollowMeasured
  <2>4. ~(v6 <= MaxLead) => Measured'
    BY <1>1 DEF Measured
  <2> QED
    BY <2>2, <2>3, <2>4
<1>3. CASE ~(v3 > 0)
  <2> DEFINE vt == v2 + 1
  <2>0. v3 = 0 /\ v4.on = FALSE /\ v2 = v1 /\ v4.on \in BOOLEAN
    BY <1>3, ClockTypesOf DEF Corrected
  <2>1. Clock!Follow(tm, vt, 0, cr) /\ vt \in Nat /\ 0 \in Nat
    BY <1>3, ClockTypesOf DEF Clock!ClockTick
  <2>2. vt = tm
    BY <2>0
  <2> HIDE DEF tm, cr, vt
  <2>3. ClockTypes' /\ Corrected'
    BY <1>1, <2>1, FollowKeepsTypes
  <2>4. ASSUME v6 <= MaxLead PROVE Measured'
    <3>1. v5 \in {0, v6} /\ v7 + Owed <= 2 * v8 /\ Owed = 0
      BY <2>0, <2>4 DEF Measured, Owed
    <3>2. v7 + 0 <= 2 * v8
      BY <3>1
    <3>3. cr.on = FALSE => v7 + (IF vt = tm /\ 0 = 0 THEN 0 ELSE 2) <= 2 * v8
      BY <2>2, <3>2
    <3>4. cr.on = FALSE
      BY <1>1, <2>0
    <3> QED
      BY <1>1, <2>1, <2>4, <3>1, <3>3, <3>4, FollowMeasured
  <2>5. ~(v6 <= MaxLead) => Measured'
    BY <1>1 DEF Measured
  <2> QED
    BY <2>3, <2>4, <2>5
<1> QED
  BY <1>2, <1>3

\* The singer seeks.
LEMMA ClockJumpStep ==
  ASSUME ClockTypes, Corrected, Measured, NEW to \in Nat, Clock!ClockJump(to)
  PROVE  ClockTypes' /\ Corrected' /\ Measured'
<1>1. v1' = to /\ v6' = v6 /\ v8' = v8 + 1 /\ v8' \in Nat /\ to # v1 /\ Clock!Follow(to, v2, v3, v4)
      /\ v2 \in Nat /\ v3 \in Nat /\ v4 \in Corrections
  BY ClockTypesOf DEF Clock!ClockJump
<1>2. ClockTypes' /\ Corrected'
  BY <1>1, FollowKeepsTypes
<1>3. ASSUME v6 <= MaxLead PROVE Measured'
  <2>1. v5 \in {0, v6} /\ v7 + 2 <= 2 * (v8 + 1)
    BY <1>3, ClockTypesOf DEF Measured
  <2>2. v7 + 2 <= 2 * v8'
    BY <1>1, <2>1
  <2>3. v4.on = TRUE => v3 + v4.ticks = v6 /\ v2 = v4.audio + v5 /\ to # v4.audio + v4.ticks
    BY <1>1, <1>3 DEF Measured, Corrected
  <2>4. v4.on = FALSE => v7 + (IF v2 = to /\ v3 = 0 THEN 0 ELSE 2) <= 2 * v8'
    <3>1. v7 <= 2 * (v8 + 1) /\ v7 + 2 <= 2 * (v8 + 1)
      BY <2>1, ClockTypesOf
    <3> QED
      BY <1>1, <3>1, ClockTypesOf
  <2> QED
    BY <1>1, <1>3, <2>1, <2>2, <2>3, <2>4, FollowMeasured
<1>4. ~(v6 <= MaxLead) => Measured'
  BY <1>1 DEF Measured
<1> QED
  BY <1>2, <1>3, <1>4

\* The singer pauses, moves, and plays on.
LEMMA ClockScrubStep ==
  ASSUME ClockTypes, Corrected, Measured, NEW to \in Nat, Clock!ClockScrub(to)
  PROVE  ClockTypes' /\ Corrected' /\ Measured'
<1>1. /\ v1' = to /\ v6' = v6 /\ v8' = v8 + 1 /\ v4' = Clock!Done /\ v2' = to /\ v5' = v5 /\ v7' = v7
      /\ v3' \in {v3, v6}
  BY DEF Clock!ClockScrub
<1>2. v4' \in Corrections /\ v4'.on = FALSE
  BY <1>1, ClockNames DEF Corrections
<1>3. ClockTypes' /\ Corrected'
  BY <1>1, <1>2, ClockTypesOf DEF ClockTypes, Corrected
<1>4. ASSUME v6 <= MaxLead PROVE Measured'
  <2>1. v5 \in {0, v6} /\ v7 + 2 <= 2 * (v8 + 1)
    BY <1>4, ClockTypesOf DEF Measured
  <2>2. Owed' \in {0, 1, 2}
    BY <1>2 DEF Owed
  <2>3. PICK o \in {0, 1, 2} : Owed' = o
    BY <2>2
  <2>4. v7 + o <= 2 * (v8 + 1)
    BY <2>1, ClockTypesOf
  <2> QED
    BY <1>1, <1>2, <2>1, <2>3, <2>4 DEF Measured
<1>5. ~(v6 <= MaxLead) => Measured'
  BY <1>1 DEF Measured
<1> QED
  BY <1>3, <1>4, <1>5

\* A playhead that isn't at an edge without music.
Musical(t) == t >= 2 /\ ~(SongLen - 1 <= t /\ t < SongLen)

LEMMA EdgesOf ==
  ASSUME NEW of, NEW t \in 0..SongLen
  PROVE  /\ of = Clock!NoClip => Clock!Under(t, Clock!Edges(of)) = {}
         /\ of # Clock!NoClip /\ t < 2 => Clock!Under(t, Clock!Edges(of)) = {[from |-> 0, to |-> 2]}
         /\ of # Clock!NoClip /\ SongLen - 1 <= t /\ t < SongLen =>
              Clock!Under(t, Clock!Edges(of)) = {[from |-> SongLen - 1, to |-> SongLen]}
         /\ Musical(t) => Clock!Under(t, Clock!Edges(of)) = {}
<1>1. SongLen \in Nat /\ SongLen >= 5 /\ t \in Nat /\ t >= 0 /\ t <= SongLen
  BY ClockBounds
<1>2. CASE of = Clock!NoClip
  BY <1>1, <1>2 DEF Clock!Under, Clock!Edges
<1>3. CASE of # Clock!NoClip
  <2> DEFINE head == [from |-> 0, to |-> 2]
             tail == [from |-> SongLen - 1, to |-> SongLen]
  <2>1. Clock!Edges(of) = {head, tail}
    BY <1>1, <1>3 DEF Clock!Edges
  <2>2. head.from = 0 /\ head.to = 2 /\ tail.from = SongLen - 1 /\ tail.to = SongLen
    OBVIOUS
  <2> HIDE DEF head, tail
  <2>3. Clock!Under(t, Clock!Edges(of)) = {x \in {head, tail} : x.from <= t /\ t < x.to}
    BY <2>1 DEF Clock!Under
  <2>4. t < 2 => Clock!Under(t, Clock!Edges(of)) = {head}
    <3>1. t < 2 => (head.from <= t /\ t < head.to) /\ ~(tail.from <= t /\ t < tail.to)
      BY <1>1, <2>2
    <3> QED
      BY <2>3, <3>1
  <2>5. SongLen - 1 <= t /\ t < SongLen => Clock!Under(t, Clock!Edges(of)) = {tail}
    <3>1. SongLen - 1 <= t /\ t < SongLen => (tail.from <= t /\ t < tail.to) /\ ~(head.from <= t /\ t < head.to)
      BY <1>1, <2>2
    <3> QED
      BY <2>3, <3>1
  <2>6. Musical(t) => Clock!Under(t, Clock!Edges(of)) = {}
    <3>1. Musical(t) => ~(tail.from <= t /\ t < tail.to) /\ ~(head.from <= t /\ t < head.to)
      BY <1>1, <2>2 DEF Musical
    <3> QED
      BY <2>3, <3>1
  <2> QED
    BY <1>3, <2>4, <2>5, <2>6 DEF head, tail
<1> QED
  BY <1>2, <1>3

LEMMA PassOverFacts ==
  ASSUME NEW of, NEW t \in 0..SongLen, NEW on \in BOOLEAN, NEW now, now = Clock!PassOver(t, on, of)
  PROVE  now \in 0..SongLen /\ (on = TRUE /\ of # Clock!NoClip => Musical(now))
<1>1. SongLen \in Nat /\ SongLen >= 5 /\ t \in Nat /\ t >= 0 /\ t <= SongLen
  BY ClockBounds
<1> DEFINE under == Clock!Under(t, Clock!Edges(of))
<1>2. now = IF on /\ under # {} THEN (CHOOSE x \in under : TRUE).to ELSE t
  BY DEF Clock!PassOver
<1>3. CASE under = {} \/ on = FALSE
  <2>1. now = t
    BY <1>2, <1>3
  <2>2. ASSUME on = TRUE, of # Clock!NoClip, ~Musical(t) PROVE FALSE
    <3>1. t < 2 \/ (SongLen - 1 <= t /\ t < SongLen)
      BY <1>1, <2>2 DEF Musical
    <3>2. under = {[from |-> 0, to |-> 2]} \/ under = {[from |-> SongLen - 1, to |-> SongLen]}
      BY <2>2, <3>1, EdgesOf
    <3> QED
      BY <1>3, <2>2, <3>2
  <2> QED
    BY <2>1, <2>2
<1>4. CASE on = TRUE /\ under = {[from |-> 0, to |-> 2]}
  <2>1. (CHOOSE x \in under : TRUE) = [from |-> 0, to |-> 2]
    BY <1>4
  <2> HIDE DEF under
  <2>2. now = 2
    BY <1>2, <1>4, <2>1
  <2> QED
    BY <1>1, <2>2 DEF Musical
<1>5. CASE on = TRUE /\ under = {[from |-> SongLen - 1, to |-> SongLen]}
  <2>1. (CHOOSE x \in under : TRUE) = [from |-> SongLen - 1, to |-> SongLen]
    BY <1>5
  <2> HIDE DEF under
  <2>2. now = SongLen
    BY <1>2, <1>5, <2>1
  <2> QED
    BY <1>1, <2>2 DEF Musical
<1>6. \/ under = {} \/ under = {[from |-> 0, to |-> 2]} \/ under = {[from |-> SongLen - 1, to |-> SongLen]}
  <2>1. of = Clock!NoClip \/ t < 2 \/ (SongLen - 1 <= t /\ t < SongLen) \/ Musical(t)
    BY <1>1 DEF Musical
  <2> QED
    BY <2>1, EdgesOf
<1> QED
  BY <1>3, <1>4, <1>5, <1>6

\* Where the segment under the playhead that reaches furthest ends is in the song.
LEMMA FurthestInSong ==
  ASSUME NEW of, NEW t, NEW under, under = Clock!Under(t, Clock!Edges(of) \union Clock!Others(of)), under # {}
  PROVE  (CHOOSE x \in under : \A y \in under : y.to <= x.to).to \in 0..SongLen
<1>1. SongLen \in Nat /\ SongLen >= 5
  BY ClockBounds
<1> DEFINE head == [from |-> 0, to |-> 2]
           tail == [from |-> SongLen - 1, to |-> SongLen]
           near == [from |-> 1, to |-> 3]
           far  == [from |-> 4, to |-> 5]
<1>2. under \subseteq {head, tail, near, far}
  BY <1>1 DEF Clock!Under, Clock!Edges, Clock!Others
<1>3. head.to = 2 /\ tail.to = SongLen /\ near.to = 3 /\ far.to = 5
  OBVIOUS
<1> HIDE DEF head, tail, near, far
<1>4. \E x \in under : \A y \in under : y.to <= x.to
  <2>0. \A y \in {head, tail, near, far} :
          /\ y.to <= tail.to
          /\ y # tail => y.to <= far.to
          /\ y # tail /\ y # far => y.to <= near.to
          /\ y.to <= y.to
    <3>1. /\ head.to <= tail.to /\ tail.to <= tail.to /\ near.to <= tail.to /\ far.to <= tail.to
          /\ head.to <= far.to /\ near.to <= far.to /\ far.to <= far.to
          /\ head.to <= near.to /\ near.to <= near.to /\ head.to <= head.to
      BY <1>1, <1>3
    <3> QED
      BY <3>1
  <2>1. CASE tail \in under
    BY <1>2, <2>0, <2>1
  <2>2. CASE tail \notin under /\ far \in under
    BY <1>2, <2>0, <2>2
  <2>3. CASE tail \notin under /\ far \notin under /\ near \in under
    BY <1>2, <2>0, <2>3
  <2>4. CASE under \subseteq {head}
    BY <2>0, <2>4
  <2>5. tail \in under \/ far \in under \/ near \in under \/ under \subseteq {head}
    BY <1>2
  <2> QED
    BY <2>1, <2>2, <2>3, <2>4, <2>5
<1> DEFINE last == CHOOSE x \in under : \A y \in under : y.to <= x.to
<1>5. last \in under
  BY <1>4
<1> HIDE DEF last
<1>6. last \in {head, tail, near, far}
  BY <1>2, <1>5
<1>7. last.to \in {2, SongLen, 3, 5}
  BY <1>3, <1>6
<1>8. last.to \in 0..SongLen
  BY <1>1, <1>7
<1> QED
  BY <1>8 DEF last

LEMMA SegmentsTypesOf ==
  ASSUME SegmentsInv
  PROVE  /\ v9 \in Clips \union {Clock!NoClip} /\ v10 \in {v9, Clock!NoClip} /\ v11 \in {v9, Clock!NoClip}
         /\ v13 \in 0..SongLen /\ v14 \in BOOLEAN /\ 0 \in 0..SongLen
         /\ v14 = TRUE /\ v10 # Clock!NoClip => Musical(v13)
<1>1. 0 \in 0..SongLen
  BY ClockBounds
<1> QED
  BY <1>1 DEF SegmentsInv, Musical

LEMMA SegmentsBack ==
  ASSUME v9' \in Clips \union {Clock!NoClip}, v10' \in {v9', Clock!NoClip}, v11' \in {v9', Clock!NoClip},
         v13' \in 0..SongLen, v14' \in BOOLEAN, v14' = TRUE /\ v10' # Clock!NoClip => Musical(v13')
  PROVE  SegmentsInv'
BY DEF SegmentsInv, Musical

\* Another song.
LEMMA LoadSegmentsStep ==
  ASSUME SegmentsInv, NEW c \in Clips \union {Clock!NoClip}, NEW known \in BOOLEAN, Clock!LoadSegments(c, known)
  PROVE  SegmentsInv'
<1>1. /\ v9' = c /\ v10' \in {c, Clock!NoClip} /\ v11' \in {c, Clock!NoClip} /\ v13' = 0 /\ v14' = FALSE
  BY DEF Clock!LoadSegments, Clock!Forgotten
<1> QED
  BY <1>1, SegmentsTypesOf, SegmentsBack

\* The playhead moves, or is passed over what starts under it.
LEMMA PassedOver ==
  ASSUME SegmentsInv, NEW t \in 0..SongLen, v13' = Clock!PassOver(t, v14', v10'), v14' \in BOOLEAN,
         v9' = v9, v10' \in {v9, Clock!NoClip}, v11' \in {v9, Clock!NoClip}
  PROVE  SegmentsInv'
<1>1. PICK on \in BOOLEAN, of \in {v9, Clock!NoClip}, now \in {v13'} : v14' = on /\ v10' = of /\ v13' = now
  OBVIOUS
<1>2. now = Clock!PassOver(t, on, of)
  BY <1>1
<1>3. now \in 0..SongLen /\ (on = TRUE /\ of # Clock!NoClip => Musical(now))
  BY <1>2, PassOverFacts
<1>4. v9' \in Clips \union {Clock!NoClip}
  BY SegmentsTypesOf
<1> QED
  BY <1>1, <1>3, <1>4, SegmentsBack

LEMMA MoveStep ==
  ASSUME SegmentsInv, NEW to \in 0..SongLen, Clock!Move(to)
  PROVE  SegmentsInv'
<1>1. v13' = Clock!PassOver(to, v14', v10') /\ v9' = v9 /\ v10' = v10 /\ v11' = v11 /\ v14' = v14
  BY DEF Clock!Move
<1>2. v14' \in BOOLEAN /\ v10' \in {v9, Clock!NoClip} /\ v11' \in {v9, Clock!NoClip}
  BY <1>1, SegmentsTypesOf
<1> QED
  BY <1>1, <1>2, PassedOver

LEMMA SkipNextKeeps ==
  ASSUME SegmentsInv, Clock!SkipNext
  PROVE  SegmentsInv'
<1>1. CASE \E c \in Clips \union {Clock!NoClip}, known \in BOOLEAN : (known => c # Clock!NoClip) /\ Clock!LoadSegments(c, known)
  BY <1>1, LoadSegmentsStep
<1>2. ASSUME NEW ok \in BOOLEAN, Clock!SegmentsCome(ok) PROVE SegmentsInv'
  <2>1. /\ v11 # Clock!NoClip /\ v11' = Clock!NoClip /\ v10' = (IF ok THEN v11 ELSE v10)
        /\ v13' = Clock!PassOver(v13, v14, v10') /\ v9' = v9 /\ v14' = v14
    BY <1>2 DEF Clock!SegmentsCome
  <2>2. v14' \in BOOLEAN /\ v10' \in {v9, Clock!NoClip} /\ v11' \in {v9, Clock!NoClip} /\ v13 \in 0..SongLen
        /\ v13' = Clock!PassOver(v13, v14', v10')
    BY <2>1, SegmentsTypesOf
  <2> QED
    BY <2>1, <2>2, PassedOver
<1>3. CASE Clock!SegmentsComeLate
  <2>1. UNCHANGED <<v9, v10, v11, v13, v14>>
    BY <1>3 DEF Clock!SegmentsComeLate
  <2> QED
    BY <2>1 DEF SegmentsInv
<1>4. CASE Clock!PlayOrPause
  <2>1. /\ v14' = ~v14 /\ v13' = Clock!PassOver(v13, v14', v10) /\ UNCHANGED <<v9, v10, v11>>
    BY <1>4 DEF Clock!PlayOrPause
  <2>2. v14' \in BOOLEAN /\ v10' \in {v9, Clock!NoClip} /\ v11' \in {v9, Clock!NoClip} /\ v13 \in 0..SongLen
        /\ v13' = Clock!PassOver(v13, v14', v10') /\ v9' = v9
    BY <2>1, SegmentsTypesOf
  <2> QED
    BY <2>2, PassedOver
<1>5. CASE Clock!SkipActive
  <2> DEFINE under == Clock!Under(v13, Clock!Edges(v10) \union Clock!Others(v10))
             to    == (CHOOSE x \in under : \A y \in under : y.to <= x.to).to
  <2>1. under # {} /\ Clock!Move(to)
    BY <1>5 DEF Clock!SkipActive
  <2>2. to \in 0..SongLen
    BY <2>1, FurthestInSong
  <2> HIDE DEF to
  <2> QED
    BY <2>1, <2>2, MoveStep
<1>6. CASE \E to \in 0..SongLen : Clock!Move(to)
  BY <1>6, MoveStep
<1> QED
  BY <1>1, <1>2, <1>3, <1>4, <1>5, <1>6 DEF Clock!SkipNext

LEMMA ClockInitHolds ==
  ASSUME Clock!FollowInit
  PROVE  ClockInv
<1>1. /\ v1 = 0 /\ v2 = 0 /\ v3 = 0 /\ v4 = Clock!Done /\ v5 = 0 /\ v6 \in Latencies /\ v7 = 0 /\ v8 = 0
      /\ v9 = Clock!NoClip /\ v10 = Clock!NoClip /\ v11 = Clock!NoClip /\ v13 = 0 /\ v14 = FALSE
  BY DEF Clock!FollowInit, Clock!ClockInit, Clock!SkipInit
<1>2. v4 \in Corrections /\ v4.on = FALSE
  BY <1>1, ClockNames DEF Corrections
<1>3. ClockTypes /\ Corrected
  BY <1>1, <1>2 DEF ClockTypes, Corrected
<1>4. Owed = 0
  BY <1>1, <1>2 DEF Owed
<1>5. Measured
  BY <1>1, <1>2, <1>4 DEF Measured
<1>6. SegmentsInv
  <2>1. 0 \in 0..SongLen
    BY ClockBounds
  <2> QED
    BY <1>1, <2>1 DEF SegmentsInv
<1> QED
  BY <1>3, <1>5, <1>6 DEF ClockInv

LEMMA ClockSame ==
  ASSUME ClockInv, UNCHANGED <<v1, v2, v3, v4, v5, v6, v7, v8, v9, v10, v11, v12, v13, v14>>
  PROVE  ClockInv'
<1>1. ClockTypes' /\ Corrected'
  BY DEF ClockInv, ClockTypes, Corrected
<1>2. Owed' = Owed
  BY DEF Owed
<1>3. Measured'
  BY <1>2 DEF ClockInv, Measured
<1>4. SegmentsInv'
  BY DEF ClockInv, SegmentsInv
<1> QED
  BY <1>1, <1>3, <1>4 DEF ClockInv

LEMMA ClockNextKeeps ==
  ASSUME ClockInv, Clock!FollowNext
  PROVE  ClockInv'
<1>1. CASE Clock!ClockNext /\ UNCHANGED Clock!skipVars
  <2>1. UNCHANGED <<v9, v10, v11, v12, v13, v14>>
    BY <1>1 DEF Clock!skipVars
  <2>2. SegmentsInv'
    BY <2>1 DEF ClockInv, SegmentsInv
  <2>3. \A to \in {2, SongLen \div 2} : to \in Nat
    BY ClockBounds
  <2>4. ClockTypes /\ Corrected /\ Measured
    BY DEF ClockInv
  <2>5. ClockTypes' /\ Corrected' /\ Measured'
    BY <1>1, <2>3, <2>4, ClockTickStep, ClockJumpStep, ClockScrubStep DEF Clock!ClockNext
  <2> QED
    BY <2>2, <2>5 DEF ClockInv
<1>2. CASE Clock!SkipNext /\ UNCHANGED Clock!clockVars
  <2>1. UNCHANGED <<v1, v2, v3, v4, v5, v6, v7, v8>>
    BY <1>2 DEF Clock!clockVars
  <2>2. ClockTypes' /\ Corrected'
    BY <2>1 DEF ClockInv, ClockTypes, Corrected
  <2>3. Owed' = Owed
    BY <2>1 DEF Owed
  <2>4. Measured'
    BY <2>1, <2>3 DEF ClockInv, Measured
  <2>5. SegmentsInv
    BY DEF ClockInv
  <2> QED
    BY <1>2, <2>2, <2>4, <2>5, SkipNextKeeps DEF ClockInv
<1> QED
  BY <1>1, <1>2 DEF Clock!FollowNext

LEMMA ClockHolds ==
  ASSUME ClockInv
  PROVE  Clock!FollowTypes /\ Clock!TwoSeeksDo /\ Clock!SkipsRight
<1>1. ClockTypes /\ Measured /\ SegmentsInv
  BY DEF ClockInv
<1>2. Clock!FollowTypes
  <2>1. v5 \in Nat /\ v4.on \in BOOLEAN
    BY <1>1, ClockTypesOf
  <2> QED
    BY <1>1, <2>1, SegmentsTypesOf DEF Clock!FollowTypes, ClockTypes
<1>3. Clock!TwoSeeksDo
  <2> SUFFICES ASSUME v6 <= MaxLead PROVE v7 <= 2 * v8
    BY DEF Clock!TwoSeeksDo
  <2>1. v7 + Owed <= 2 * v8
    BY <1>1 DEF Measured
  <2> QED
    BY <1>1, <2>1, ClockTypesOf
<1>4. Clock!SkipsRight
  <2>1. v14 = TRUE => Clock!Under(v13, Clock!Edges(v10)) = {}
    BY <1>1, SegmentsTypesOf, EdgesOf
  <2> QED
    BY <1>1, <2>1, SegmentsTypesOf DEF Clock!SkipsRight
<1> QED
  BY <1>2, <1>3, <1>4
(***************************************************************************)
(* Scoring: what scoring.ts computes.                                      *)
(***************************************************************************)
\* A recursive function on an interval exists: each value is made of the one
\* before it, and the i-th is in P[i].
Stepping(U, P, a, b, x, g) ==
  /\ a \in Int /\ b \in Int /\ a <= b /\ x \in P[a]
  /\ \A i \in a..b : P[i] \subseteq U
  /\ \A i \in a..b : i # a => \A y \in P[i - 1] : g[<<i, y>>] \in P[i]

Stepped(U, P, a, b, x, g) ==
  \E f \in [a..b -> U] :
     /\ f[a] = x
     /\ \A i \in a..b : i # a => f[i] = g[<<i, f[i - 1]>>]
     /\ \A i \in a..b : f[i] \in P[i]

LEMMA StepsExist ==
  ASSUME NEW U, NEW P, NEW a, NEW b, NEW x, NEW g, Stepping(U, P, a, b, x, g)
  PROVE  Stepped(U, P, a, b, x, g)
<1> USE DEF Stepping, Stepped
<1> DEFINE Steps(c, f) == /\ f[a] = x
                          /\ \A i \in a..c : i # a => f[i] = g[<<i, f[i - 1]>>]
                          /\ \A i \in a..c : f[i] \in P[i]
           T == {k \in Nat : a + k <= b => \E f \in [a..(a + k) -> U] : Steps(a + k, f)}
<1>1. 0 \in T
  <2>1. [i \in a..(a + 0) |-> x] \in [a..(a + 0) -> U] /\ Steps(a + 0, [i \in a..(a + 0) |-> x])
    OBVIOUS
  <2> QED
    BY <2>1
<1>2. ASSUME NEW k \in T PROVE k + 1 \in T
  <2>1. k \in Nat
    BY <1>2
  <2> SUFFICES ASSUME a + (k + 1) <= b PROVE \E f \in [a..(a + (k + 1)) -> U] : Steps(a + (k + 1), f)
    BY <2>1
  <2>2. PICK f \in [a..(a + k) -> U] : Steps(a + k, f)
    BY <1>2, <2>1
  <2> DEFINE last == a + (k + 1)
             h == [i \in a..last |-> IF i = last THEN g[<<last, f[last - 1]>>] ELSE f[i]]
  <2>3. last \in Int /\ last - 1 = a + k /\ last - 1 \in a..(a + k) /\ last \in a..b /\ last # a /\ a \in a..last
    BY <2>1
  <2>4. f[last - 1] \in P[last - 1]
    BY <2>2, <2>3
  <2>5. g[<<last, f[last - 1]>>] \in P[last]
    BY <2>3, <2>4
  <2>6. g[<<last, f[last - 1]>>] \in U
    BY <2>3, <2>5
  <2>7. ASSUME NEW i \in a..last, i # last PROVE i \in a..(a + k)
    BY <2>1, <2>7
  <2>8. h \in [a..last -> U]
    BY <2>6, <2>7
  <2>9. h[a] = x
    BY <2>2, <2>3
  <2>10. ASSUME NEW i \in a..last, i # a PROVE h[i] = g[<<i, h[i - 1]>>]
    <3>1. i - 1 \in a..last /\ i - 1 # last
      BY <2>1, <2>10
    <3>2. h[i - 1] = f[i - 1]
      BY <3>1
    <3>3. CASE i = last
      BY <3>2, <3>3
    <3>4. CASE i # last
      <4>1. i \in a..(a + k)
        BY <3>4, <2>7
      <4> QED
        BY <4>1, <3>2, <3>4, <2>2, <2>10
    <3> QED
      BY <3>3, <3>4
  <2>11. ASSUME NEW i \in a..last PROVE h[i] \in P[i]
    BY <2>2, <2>5, <2>7
  <2> HIDE DEF h
  <2>12. Steps(last, h)
    BY <2>9, <2>10, <2>11
  <2> QED
    BY <2>8, <2>12
<1>3. T = Nat
  <2>1. T \in SUBSET Nat
    OBVIOUS
  <2> HIDE DEF T
  <2> QED
    BY <1>1, <1>2, <2>1, NaturalsFromZero
<1>4. b - a \in T /\ a + (b - a) = b
  <2> HIDE DEF T
  <2> QED
    BY <1>3
<1> QED
  <2>1. b - a \in Nat /\ a + (b - a) <= b
    BY <1>4
  <2>2. \E f \in [a..(a + (b - a)) -> U] : Steps(a + (b - a), f)
    <3> HIDE DEF Steps
    <3> QED
      BY <1>4, <2>1
  <2>3. \E f \in [a..b -> U] : Steps(b, f)
    <3> HIDE DEF Steps, T
    <3> QED
      BY <1>4, <2>2
  <2> HIDE DEF T
  <2> QED
    BY <2>3

\* A sum of numbers up to 100, no more of them than V has, the others 0.
LEMMA TotalBounds ==
  ASSUME NEW n \in Nat, NEW list \in [1..n -> Int], NEW V \in SUBSET (1..n), Len(list) = n,
         \A j \in V : list[j] \in 0..100, \A j \in (1..n) \ V : list[j] = 0
  PROVE  Score!Total(list) \in 0..(100 * Cardinality(V))
<1> DEFINE F(u) == [j \in 0..n |-> IF j = 0 THEN 0 ELSE u[j - 1] + list[j]]
           u    == CHOOSE w : w = F(w)
           P    == [i \in 0..n |-> Int]
           g    == [p \in (1..n) \X Int |-> p[2] + list[p[1]]]
<1>1. \E w : w = F(w)
  <2>1. \A i \in 0..n : i # 0 => \A y \in P[i - 1] : g[<<i, y>>] \in P[i] /\ g[<<i, y>>] = y + list[i]
    OBVIOUS
  <2>2. 0 \in P[0] /\ 0 <= n /\ \A i \in 0..n : P[i] \subseteq Int
    OBVIOUS
  <2>3. \A i \in 0..n : P[i] = Int
    OBVIOUS
  <2> HIDE DEF P, g
  <2>4. PICK f \in [0..n -> Int] : /\ f[0] = 0
                                   /\ \A i \in 0..n : i # 0 => f[i] = g[<<i, f[i - 1]>>]
                                   /\ \A i \in 0..n : f[i] \in P[i]
    <3>1. Stepping(Int, P, 0, n, 0, g)
      BY <2>1, <2>2 DEF Stepping
    <3>2. Stepped(Int, P, 0, n, 0, g)
      BY <3>1, StepsExist
    <3> QED
      BY <3>2 DEF Stepped
  <2>5. ASSUME NEW i \in 1..n PROVE f[i] = f[i - 1] + list[i]
    <3>1. i \in 0..n /\ i # 0 /\ i - 1 \in 0..n
      OBVIOUS
    <3> QED
      BY <3>1, <2>1, <2>4
  <2>6. f = F(f)
    BY <2>4, <2>5
  <2> QED
    BY <2>6
<1>2. u = F(u)
  BY <1>1
<1>3. Score!Total(list) = u[n]
  BY DEF Score!Total
<1> HIDE DEF u
<1>4. u[0] = 0 /\ \A j \in 1..n : u[j] = u[j - 1] + list[j]
  BY <1>2
<1> DEFINE upto(m) == V \intersect (1..m)
           T == {m \in Nat : m <= n => u[m] \in Nat /\ u[m] <= 100 * Cardinality(upto(m))}
<1>5. IsFiniteSet(V) /\ Cardinality({}) = 0
  <2>1. IsFiniteSet(1..n)
    BY FS_Interval
  <2> QED
    BY <2>1, FS_Subset, FS_EmptySet
<1>6. 0 \in T
  <2>1. upto(0) = {}
    OBVIOUS
  <2> QED
    BY <1>4, <1>5, <2>1
<1>7. ASSUME NEW m \in T PROVE m + 1 \in T
  <2> SUFFICES ASSUME m + 1 <= n PROVE u[m + 1] \in Nat /\ u[m + 1] <= 100 * Cardinality(upto(m + 1))
    BY <1>7
  <2>1. m \in Nat /\ m + 1 \in 1..n /\ u[m] \in Nat /\ u[m] <= 100 * Cardinality(upto(m)) /\ u[m + 1] = u[m] + list[m + 1]
    BY <1>7, <1>4
  <2>2. IsFiniteSet(upto(m)) /\ Cardinality(upto(m)) \in Nat
    BY <1>5, FS_Subset, FS_CardinalityType
  <2>3. CASE m + 1 \in V
    <3>1. upto(m + 1) = upto(m) \cup {m + 1} /\ m + 1 \notin upto(m)
      BY <2>1, <2>3
    <3> HIDE DEF upto
    <3>2. Cardinality(upto(m + 1)) = Cardinality(upto(m)) + 1
      BY <2>2, <3>1, FS_AddElement
    <3>3. list[m + 1] \in 0..100
      BY <2>3
    <3> DEFINE c == Cardinality(upto(m))
               d == Cardinality(upto(m + 1))
               y == list[m + 1]
               z == u[m]
               w == u[m + 1]
    <3>4. c \in Nat /\ d = c + 1 /\ y \in 0..100 /\ z \in Nat /\ z <= 100 * c /\ w = z + y
      BY <2>1, <2>2, <3>2, <3>3
    <3> HIDE DEF c, d, y, z, w
    <3>5. w \in Nat /\ w <= 100 * d
      BY <3>4
    <3> QED
      BY <3>5 DEF d, w
  <2>4. CASE m + 1 \notin V
    <3>1. upto(m + 1) = upto(m)
      BY <2>1, <2>4
    <3> HIDE DEF upto
    <3> QED
      BY <2>1, <2>2, <2>4, <3>1
  <2> QED
    BY <2>3, <2>4
<1>8. T = Nat
  <2>1. T \in SUBSET Nat
    OBVIOUS
  <2> HIDE DEF T
  <2> QED
    BY <1>6, <1>7, <2>1, NaturalsFromZero
<1>9. upto(n) = V
  OBVIOUS
<1>10. n \in T
  BY <1>8
<1>11. u[n] \in Nat /\ u[n] <= 100 * Cardinality(V)
  <2>1. upto(n) = V
    BY <1>9
  <2> HIDE DEF upto
  <2>2. n <= n
    OBVIOUS
  <2>3. u[n] \in Nat /\ u[n] <= 100 * Cardinality(upto(n))
    BY <1>10, <2>2
  <2> QED
    BY <2>1, <2>3
<1>12. Cardinality(V) \in Nat
  BY <1>5, FS_CardinalityType
<1> QED
  BY <1>3, <1>11, <1>12

Heard   == [t : Int, midi : Int]
Octaves == {Score!NoteOctave(i, h) : i \in DOMAIN SongNotes, h \in Seq(Heard)}
Result  == [scored : BOOLEAN, score : 0..100, octave : Octaves \cup {0}, factor : {0, 60, 100}]

LEMMA ScoreConstants ==
  /\ SongNotes \in Seq([start : Int, end : Int, midi : Int])
  /\ Len(SongNotes) \in Nat /\ DOMAIN SongNotes = 1..Len(SongNotes)
  /\ \A i \in DOMAIN SongNotes :
        SongNotes[i].start \in Int /\ SongNotes[i].end \in Int /\ SongNotes[i].midi \in Int
  /\ Tolerance \in Nat /\ LastTick \in Nat /\ Sung \subseteq Int
<1>1. /\ SongNotes \in Seq([start : Int, end : Int, midi : Int]) /\ Sung \subseteq Int
      /\ Tolerance \in Nat /\ LastTick \in Nat
  BY PageAssumption
<1>2. Len(SongNotes) \in Nat /\ DOMAIN SongNotes = 1..Len(SongNotes)
  BY <1>1, LenProperties
<1>3. ASSUME NEW i \in DOMAIN SongNotes
      PROVE  SongNotes[i].start \in Int /\ SongNotes[i].end \in Int /\ SongNotes[i].midi \in Int
  <2>1. SongNotes[i] \in [start : Int, end : Int, midi : Int]
    BY <1>1, <1>3, ElementOfSeq, LenProperties
  <2> QED
    BY <2>1
<1> QED
  BY <1>1, <1>2, <1>3

\* The octave that all votes are for.
LEMMA DominantOfOne ==
  ASSUME NEW list, NEW count, NEW o, count # {}, \A i \in count : list[i][1] = o
  PROVE  Score!Dominant(list, count) = o
<1> DEFINE keys      == {list[i][1] : i \in count}
           weight(k) == Score!Total([i \in DOMAIN list |-> IF i \in count /\ list[i][1] = k THEN list[i][2] ELSE 0])
           first(k)  == CHOOSE i \in count : list[i][1] = k /\ \A j \in count : list[j][1] = k => i <= j
           over(k, l) == \/ weight(k) > weight(l)
                         \/ weight(k) = weight(l) /\ (\/ Score!Distance(k) < Score!Distance(l)
                                                      \/ (Score!Distance(k) = Score!Distance(l) /\ first(k) < first(l)))
<1>1. Score!Dominant(list, count) = IF keys = {} THEN 0 ELSE CHOOSE k \in keys : \A l \in keys \ {k} : over(k, l)
  BY DEF Score!Dominant
<1>2. keys = {o}
  OBVIOUS
<1> HIDE DEF keys, over
<1>3. \A k \in keys : k = o /\ \A l \in keys \ {k} : over(k, l)
  BY <1>2
<1> DEFINE best == CHOOSE k \in keys : \A l \in keys \ {k} : over(k, l)
<1>4. best \in keys
  BY <1>2, <1>3
<1>5. Score!Dominant(list, count) = best
  BY <1>1, <1>2
<1> QED
  BY <1>3, <1>4, <1>5

LEMMA PitchClassBounds ==
  ASSUME NEW cents \in Int
  PROVE  Score!PitchClassScore(cents) \in 0..100
<1> DEFINE e == IF cents < 0 THEN -cents ELSE cents
<1>1. e \in Nat
  OBVIOUS
<1>2. Score!PitchClassScore(cents) = CASE e <= 60 -> 100 [] e >= 200 -> 0 [] OTHER -> 100 - (100 * (e - 60)) \div 140
  BY DEF Score!PitchClassScore
<1> HIDE DEF e
<1>3. CASE e <= 60
  BY <1>1, <1>2, <1>3
<1>4. CASE e >= 200
  BY <1>1, <1>2, <1>4
<1>5. CASE e > 60 /\ e < 200
  <2>1. (100 * (e - 60)) \div 140 \in 0..100
    BY <1>1, <1>5
  <2>2. ~(e <= 60) /\ ~(e >= 200)
    BY <1>1, <1>5
  <2>3. Score!PitchClassScore(cents) = 100 - (100 * (e - 60)) \div 140
    BY <1>2, <2>2
  <2> QED
    BY <2>1, <2>3
<1> QED
  BY <1>1, <1>3, <1>4, <1>5

\* The pitch score of a note is a percentage.
LEMMA NotePitchBounds ==
  ASSUME NEW heard \in Seq(Heard), NEW i \in DOMAIN SongNotes, Score!VoicedIn(i, heard) # {}
  PROVE  Score!NotePitch(i, heard) \in 0..100
<1> DEFINE n == Len(heard)
           V == Score!VoicedIn(i, heard)
           right(midi) == Score!PitchClassScore(Score!FoldedCents(midi, SongNotes[i].midi))
           list == [j \in DOMAIN heard |-> IF j \in V THEN right(heard[j].midi) ELSE 0]
<1>1. n \in Nat /\ DOMAIN heard = 1..n
  BY LenProperties
<1>2. V \in SUBSET (1..n)
  BY <1>1 DEF Score!VoicedIn, Score!Inside
<1>3. ASSUME NEW j \in 1..n PROVE right(heard[j].midi) \in 0..100
  <2>1. heard[j] \in Heard
    BY <1>1, <1>3, ElementOfSeq
  <2>2. heard[j].midi \in Int /\ SongNotes[i].midi \in Int
    BY <2>1, ScoreConstants DEF Heard
  <2>3. Score!FoldedCents(heard[j].midi, SongNotes[i].midi) \in Int
    BY <2>2 DEF Score!FoldedCents, Score!Octave, Score!Semis
  <2> QED
    BY <2>3, PitchClassBounds
<1> HIDE DEF V, right
<1>4. list \in [1..n -> Int] /\ (\A j \in V : list[j] \in 0..100) /\ (\A j \in (1..n) \ V : list[j] = 0)
  <2>1. \A j \in 1..n : list[j] = IF j \in V THEN right(heard[j].midi) ELSE 0
    BY <1>1
  <2>2. DOMAIN list = 1..n /\ list = [j \in 1..n |-> list[j]]
    BY <1>1
  <2> HIDE DEF list
  <2>3. \A j \in V : j \in 1..n
    BY <1>2
  <2>4. (\A j \in V : list[j] \in 0..100) /\ (\A j \in (1..n) \ V : list[j] = 0)
    BY <1>3, <2>1, <2>3
  <2>5. ASSUME NEW j \in 1..n PROVE list[j] \in Int
    <3>1. CASE j \in V
      <4>1. list[j] \in 0..100
        BY <2>4, <3>1
      <4>2. 0..100 \subseteq Int
        OBVIOUS
      <4> QED
        BY <4>1, <4>2, Zenon
    <3>2. CASE j \notin V
      <4>1. list[j] = 0
        BY <2>4, <3>2
      <4> QED
        BY <4>1
    <3> QED
      BY <3>1, <3>2
  <2> QED
    BY <2>2, <2>4, <2>5
<1>5. Score!NotePitch(i, heard) = Score!Total(list) \div Score!Cardinality(V)
  BY DEF Score!NotePitch, V, right
<1>6. Len(list) = n
  <2>1. list \in Seq(Int)
    BY <1>1, <1>4, SeqDef
  <2> QED
    BY <1>1, <1>4, <2>1, LenProperties
<1> HIDE DEF list
<1>7. Score!Total(list) \in 0..(100 * Cardinality(V))
  BY <1>1, <1>2, <1>4, <1>6, TotalBounds
<1>8. IsFiniteSet(V) /\ Cardinality(V) \in Nat /\ Cardinality(V) # 0
  <2>1. IsFiniteSet(1..n)
    BY <1>1, FS_Interval
  <2>2. IsFiniteSet(V)
    BY <2>1, <1>2, FS_Subset
  <2>3. V # {}
    BY DEF V
  <2> QED
    BY <2>2, <2>3, FS_CardinalityType, FS_EmptySet
<1>9. Score!Cardinality(V) = Cardinality(V)
  BY DEF Score!Cardinality, Cardinality
<1>10. \A c \in Nat \ {0} : \A x \in 0..(100 * c) : x \div c \in 0..100
  <2> TAKE c \in Nat \ {0}
  <2> TAKE x \in 0..(100 * c)
  <2>1. x \div c \in Int /\ c * (x \div c) <= x /\ x < c * (x \div c) + c
    OBVIOUS
  <2> QED
    BY <2>1
<1> QED
  BY <1>5, <1>7, <1>8, <1>9, <1>10

\* What a note is given, whatever the register.
NoteJudged(i, heard, r) ==
  LET note == Score!ScoreNote(i, heard, r)
  IN  /\ note \in Result
      /\ Score!Scores(i, heard) => /\ note.scored = TRUE
                                   /\ note.octave = Score!NoteOctave(i, heard)
                                   /\ Score!NoteOctave(i, heard) \in {0, r} => note.factor = 100
      /\ ~Score!Scores(i, heard) => note = Score!Missed

LEMMA ScoreNoteFacts ==
  ASSUME NEW heard \in Seq(Heard), NEW i \in DOMAIN SongNotes, NEW r
  PROVE  NoteJudged(i, heard, r)
<1> USE DEF NoteJudged
<1> DEFINE octave == Score!NoteOctave(i, heard)
           factor == IF octave \in {0, r} THEN 100 ELSE 60
           pitch  == Score!NotePitch(i, heard)
<1>1. octave \in Octaves
  BY DEF Octaves
<1>2. factor \in {60, 100} /\ (octave \in {0, r} => factor = 100)
  OBVIOUS
<1>3. Score!ScoreNote(i, heard, r) = IF ~Score!Scores(i, heard) THEN Score!Missed
        ELSE [scored |-> TRUE, score |-> (pitch * factor) \div 100, octave |-> octave, factor |-> factor]
  BY DEF Score!ScoreNote
<1> HIDE DEF octave, factor, pitch
<1>4. CASE ~Score!Scores(i, heard)
  <2>1. Score!Missed \in Result
    <3>1. 0 \in 0..100
      OBVIOUS
    <3> QED
      BY <3>1 DEF Score!Missed, Result
  <2> QED
    BY <1>3, <1>4, <2>1
<1>5. CASE Score!Scores(i, heard)
  <2>1. pitch \in 0..100
    BY <1>5, NotePitchBounds DEF Score!Scores, pitch
  <2>2. (pitch * factor) \div 100 \in 0..100
    <3>1. CASE factor = 60
      BY <2>1, <3>1
    <3>2. CASE factor = 100
      BY <2>1, <3>2
    <3> QED
      BY <1>2, <3>1, <3>2
  <2> DEFINE score == (pitch * factor) \div 100
             note  == [scored |-> TRUE, score |-> score, octave |-> octave, factor |-> factor]
  <2>3. Score!ScoreNote(i, heard, r) = note
    BY <1>3, <1>5
  <2>4. score \in 0..100
    BY <2>2
  <2> HIDE DEF score
  <2>5. note \in Result
    BY <1>1, <1>2, <2>4 DEF Result
  <2>6. note.scored = TRUE /\ note.octave = octave /\ note.factor = factor
    OBVIOUS
  <2> HIDE DEF note
  <2> QED
    BY <1>2, <1>5, <2>3, <2>5, <2>6 DEF octave
<1> QED
  BY <1>4, <1>5

\* Nothing heard, nothing scored.
LEMMA NothingHeard ==
  ASSUME NEW i
  PROVE  ~Score!Scores(i, <<>>)
<1>1. DOMAIN <<>> = {}
  OBVIOUS
<1>2. Score!Inside(i, <<>>) = {}
  BY <1>1 DEF Score!Inside
<1>3. Score!VoicedIn(i, <<>>) = {}
  BY <1>2 DEF Score!VoicedIn
<1> QED
  BY <1>3 DEF Score!Scores

\* Sung in one octave throughout.
KeptIn(o, heard) ==
  \A j \in Score!Voiced(heard), i \in DOMAIN SongNotes : Score!Octave(heard[j].midi, SongNotes[i].midi) = o

LEMMA KeptOctave ==
  ASSUME NEW heard \in Seq(Heard), NEW i \in DOMAIN SongNotes, NEW o, KeptIn(o, heard), Score!Scores(i, heard)
  PROVE  Score!NoteOctave(i, heard) = o
<1> DEFINE V == Score!VoicedIn(i, heard)
           list == [j \in DOMAIN heard |-> <<Score!Octave(heard[j].midi, SongNotes[i].midi), 1>>]
<1>1. V # {}
  BY DEF Score!Scores
<1>2. V \subseteq Score!Voiced(heard) /\ V \subseteq DOMAIN heard
  BY DEF Score!VoicedIn, Score!Voiced
<1>3. Score!NoteOctave(i, heard) = Score!Dominant(list, V)
  BY DEF Score!NoteOctave
<1> HIDE DEF V
<1>4. \A j \in V : list[j][1] = o
  BY <1>2 DEF KeptIn
<1> HIDE DEF list
<1> QED
  BY <1>1, <1>3, <1>4, DominantOfOne

\* What is heard after a note's window changes nothing of it.
LEMMA LaterFrame ==
  ASSUME NEW heard \in Seq(Heard), NEW f \in Heard, NEW i \in DOMAIN SongNotes,
         SongNotes[i].end + Tolerance < f.t
  PROVE  Score!Scores(i, Append(heard, f)) <=> Score!Scores(i, heard)
<1> DEFINE n == Len(heard)
           more == Append(heard, f)
           lo == Score!Window(i).lo
           hi == Score!Window(i).hi
<1>1. /\ n \in Nat /\ DOMAIN heard = 1..n /\ DOMAIN more = 1..(n + 1)
      /\ \A j \in 1..n : more[j] = heard[j]
      /\ more[n + 1] = f
  BY AppendAt
<1>2. /\ SongNotes[i].start \in Int /\ SongNotes[i].end \in Int /\ Tolerance \in Nat
      /\ i \in 1..Len(SongNotes) /\ Len(SongNotes) \in Nat
      /\ (i < Len(SongNotes) => SongNotes[i + 1].start \in Int)
  <2> HIDE DEF more, lo, hi
  <2>1. i \in 1..Len(SongNotes) /\ Len(SongNotes) \in Nat /\ DOMAIN SongNotes = 1..Len(SongNotes)
    BY ScoreConstants
  <2>2. i < Len(SongNotes) => i + 1 \in 1..Len(SongNotes)
    BY <2>1
  <2> QED
    BY <2>1, <2>2, ScoreConstants
<1>3. hi \in Int /\ hi <= SongNotes[i].end + Tolerance
  <2> DEFINE late == SongNotes[i].end + Tolerance
             next == SongNotes[i + 1].start
  <2>1. hi = IF i < Len(SongNotes) /\ next < late THEN next ELSE late
    BY DEF Score!Window
  <2>2. late \in Int /\ (i < Len(SongNotes) => next \in Int)
    BY <1>2
  <2> HIDE DEF late, next, hi
  <2>3. hi \in Int /\ hi <= late
    BY <2>1, <2>2
  <2> QED
    BY <2>3 DEF late
<1>4. f.t \in Int
  BY DEF Heard
<1>5. ~(f.t < hi)
  <2> HIDE DEF hi
  <2> QED
    BY <1>2, <1>3, <1>4
<1>6. /\ Score!Inside(i, more) = {j \in DOMAIN more : lo <= more[j].t /\ more[j].t < hi}
      /\ Score!Inside(i, heard) = {j \in DOMAIN heard : lo <= heard[j].t /\ heard[j].t < hi}
  BY DEF Score!Inside
<1> HIDE DEF more, lo, hi, n
<1>7. Score!Inside(i, more) = Score!Inside(i, heard)
  <2>1. ASSUME NEW j \in Score!Inside(i, more) PROVE j \in Score!Inside(i, heard)
    <3>1. j # n + 1
      BY <1>1, <1>5, <1>6, <2>1
    <3>2. j \in 1..n
      BY <1>1, <1>6, <2>1, <3>1
    <3> QED
      BY <1>1, <1>6, <2>1, <3>2
  <2>2. ASSUME NEW j \in Score!Inside(i, heard) PROVE j \in Score!Inside(i, more)
    <3>1. j \in 1..n /\ j \in 1..(n + 1)
      BY <1>1, <1>6, <2>2
    <3> QED
      BY <1>1, <1>6, <2>2, <3>1
  <2> QED
    BY <2>1, <2>2
<1>8. Score!VoicedIn(i, more) = Score!VoicedIn(i, heard)
  <2>1. \A j \in Score!Inside(i, heard) : j \in DOMAIN more /\ j \in DOMAIN heard /\ more[j] = heard[j]
    <3> TAKE j \in Score!Inside(i, heard)
    <3>1. j \in 1..n /\ j \in 1..(n + 1)
      BY <1>1, <1>6
    <3> QED
      BY <1>1, <3>1
  <2>2. \A j \in Score!Inside(i, heard) : j \in Score!Voiced(more) <=> j \in Score!Voiced(heard)
    BY <2>1 DEF Score!Voiced
  <2> QED
    BY <1>7, <2>2 DEF Score!VoicedIn
<1>9. Score!Scores(i, more) <=> Score!Scores(i, heard)
  BY <1>7, <1>8 DEF Score!Scores
<1> QED
  BY <1>9 DEF more

LEMMA KeptBefore ==
  ASSUME NEW heard \in Seq(Heard), NEW f \in Heard, NEW o, KeptIn(o, Append(heard, f))
  PROVE  KeptIn(o, heard)
<1> DEFINE more == Append(heard, f)
<1>1. \A j \in DOMAIN heard : j \in DOMAIN more /\ more[j] = heard[j]
  BY AppendAt
<1> HIDE DEF more
<1>2. KeptIn(o, more)
  BY DEF more
<1>3. ASSUME NEW j \in Score!Voiced(heard) PROVE j \in Score!Voiced(more) /\ more[j] = heard[j]
  BY <1>1, <1>3 DEF Score!Voiced
<1> QED
  BY <1>2, <1>3 DEF KeptIn

(***************************************************************************)
(* Scoring: the judging of notes.                                          *)
(***************************************************************************)
Outcome == [next : Int, results : Seq(Result), votes : Seq(Octaves \X Int)]

\* What the judging has come to, of what was heard: by seeks, how often the
\* singer moved in the song.
Outcomes(heard, first, seeks) ==
  {u \in Outcome :
     /\ u.next \in first..(Len(SongNotes) + 1)
     /\ Len(u.results) = u.next - first
     /\ heard = <<>> => \A j \in DOMAIN u.results : u.results[j] = Score!Missed
     /\ \A o \in {-1, 0, 1} : KeptIn(o, heard) => \A k \in DOMAIN u.votes : u.votes[k][1] = o
     /\ seeks = 0 => \A i \in first..(u.next - 1) : Score!Scores(i, heard) => u.votes # <<>>}

LEMMA FirstAheadFacts ==
  ASSUME NEW from \in 1..(Len(SongNotes) + 1), NEW t \in Int
  PROVE  /\ Score!FirstAhead(from, t) \in from..(Len(SongNotes) + 1)
         /\ Score!FirstAhead(from, t) \in DOMAIN SongNotes =>
               t <= SongNotes[Score!FirstAhead(from, t)].end + Tolerance
         /\ \A i \in from..(Score!FirstAhead(from, t) - 1) :
               i \in DOMAIN SongNotes /\ SongNotes[i].end + Tolerance < t
<1> DEFINE ahead == {i \in DOMAIN SongNotes : i >= from /\ t <= SongNotes[i].end + Tolerance}
           to == Score!FirstAhead(from, t)
<1>1. to = IF ahead = {} THEN Len(SongNotes) + 1 ELSE CHOOSE x \in ahead : \A y \in ahead : x <= y
  BY DEF Score!FirstAhead, Score!Notes, Score!Min
<1>2. Len(SongNotes) \in Nat /\ DOMAIN SongNotes = 1..Len(SongNotes) /\ from \in Nat
  BY ScoreConstants
<1>3. ahead \in SUBSET Nat /\ \A i \in ahead : i \in DOMAIN SongNotes /\ i >= from /\ t <= SongNotes[i].end + Tolerance
  BY <1>2
<1>4. ASSUME NEW i \in DOMAIN SongNotes, i >= from, i \notin ahead
      PROVE  SongNotes[i].end + Tolerance < t
  <2>1. ~(t <= SongNotes[i].end + Tolerance)
    BY <1>4
  <2>2. SongNotes[i].end \in Int /\ Tolerance \in Nat
    BY ScoreConstants
  <2> QED
    BY <2>1, <2>2
<1> HIDE DEF ahead, to
<1>5. CASE ahead = {}
  <2>1. to = Len(SongNotes) + 1
    BY <1>1, <1>5
  <2>2. \A i \in from..(to - 1) : i \in DOMAIN SongNotes /\ i >= from
    BY <1>2, <2>1
  <2>3. to \in from..(Len(SongNotes) + 1) /\ to \notin DOMAIN SongNotes
    BY <1>2, <2>1
  <2> QED
    BY <1>4, <1>5, <2>2, <2>3 DEF to
<1>6. CASE ahead # {}
  <2>1. PICK n \in ahead : \A m \in ahead : n <= m
    BY <1>3, <1>6, LeastNumber
  <2>2. to \in ahead /\ \A m \in ahead : to <= m
    BY <1>1, <1>6, <2>1
  <2>3. to \in DOMAIN SongNotes /\ to >= from /\ to \in Nat /\ t <= SongNotes[to].end + Tolerance
    BY <1>2, <1>3, <2>2
  <2>4. ASSUME NEW i \in from..(to - 1)
        PROVE  i \in DOMAIN SongNotes /\ i >= from /\ i \notin ahead
    <3>1. i < to /\ i \in 1..Len(SongNotes) /\ i >= from
      BY <1>2, <2>3
    <3>2. ~(to <= i)
      BY <1>2, <2>3
    <3> QED
      BY <1>2, <2>2, <3>1, <3>2
  <2>5. to \in from..(Len(SongNotes) + 1)
    BY <1>2, <2>3
  <2>6. \A i \in from..(to - 1) : i \in DOMAIN SongNotes /\ SongNotes[i].end + Tolerance < t
    BY <1>4, <2>4
  <2> QED
    BY <2>3, <2>5, <2>6 DEF to
<1> QED
  BY <1>5, <1>6

\* One note more.
LEMMA JudgeNextKeeps ==
  ASSUME NEW heard \in Seq(Heard), NEW first \in Int, NEW seeks,
         NEW u \in Outcomes(heard, first, seeks), u.next \in DOMAIN SongNotes
  PROVE  /\ Score!JudgeNext(u, heard) \in Outcomes(heard, first, seeks)
         /\ Score!JudgeNext(u, heard).next = u.next + 1
<1> DEFINE i == u.next
           r == Score!ScoreNote(i, heard, Score!Register(u.votes))
           vote == <<r.octave, SongNotes[i].end - SongNotes[i].start>>
           votes == IF r.scored THEN Append(u.votes, vote) ELSE u.votes
           results == Append(u.results, r)
           w == [next |-> i + 1, results |-> results, votes |-> votes]
<1>1. Score!JudgeNext(u, heard) = w
  BY DEF Score!JudgeNext
<1>2. /\ u \in Outcome
      /\ u.next \in first..(Len(SongNotes) + 1)
      /\ Len(u.results) = u.next - first
      /\ heard = <<>> => \A j \in DOMAIN u.results : u.results[j] = Score!Missed
      /\ \A o \in {-1, 0, 1} : KeptIn(o, heard) => \A k \in DOMAIN u.votes : u.votes[k][1] = o
      /\ seeks = 0 => \A n \in first..(u.next - 1) : Score!Scores(n, heard) => u.votes # <<>>
  BY DEF Outcomes
<1>3. u.results \in Seq(Result) /\ u.votes \in Seq(Octaves \X Int)
  BY <1>2 DEF Outcome
<1>4. /\ r \in Result
      /\ Score!Scores(i, heard) => r.scored = TRUE /\ r.octave = Score!NoteOctave(i, heard)
      /\ ~Score!Scores(i, heard) => r = Score!Missed
  <2> DEFINE reg == Score!Register(u.votes)
  <2>1. i \in DOMAIN SongNotes /\ r = Score!ScoreNote(i, heard, reg)
    OBVIOUS
  <2> HIDE DEF i, r, reg
  <2>2. NoteJudged(i, heard, reg)
    BY <2>1, ScoreNoteFacts
  <2> QED
    BY <2>1, <2>2 DEF NoteJudged
<1>5. i \in 1..Len(SongNotes) /\ Len(SongNotes) \in Nat
  BY ScoreConstants
<1>6. (vote \in Octaves \X Int /\ vote[1] = r.octave) \/ ~Score!Scores(i, heard)
  <2> SUFFICES ASSUME Score!Scores(i, heard) PROVE vote \in Octaves \X Int /\ vote[1] = r.octave
    OBVIOUS
  <2>1. r.octave \in Octaves
    BY <1>4 DEF Octaves
  <2>2. SongNotes[i].end \in Int /\ SongNotes[i].start \in Int
    BY ScoreConstants
  <2>3. SongNotes[i].end - SongNotes[i].start \in Int
    BY <2>2
  <2> HIDE DEF r, i
  <2> QED
    BY <2>1, <2>3
<1>7. Score!Missed.scored = FALSE
  BY DEF Score!Missed
<1>8. votes = IF Score!Scores(i, heard) THEN Append(u.votes, vote) ELSE u.votes
  BY <1>4, <1>7
<1> HIDE DEF r, vote, votes
<1>9. votes \in Seq(Octaves \X Int)
  <2>1. CASE Score!Scores(i, heard)
    BY <1>3, <1>6, <1>8, <2>1, AppendAt
  <2>2. CASE ~Score!Scores(i, heard)
    BY <1>3, <1>8, <2>2
  <2> QED
    BY <2>1, <2>2
<1>10. /\ results \in Seq(Result) /\ Len(results) = Len(u.results) + 1
       /\ DOMAIN results = 1..(Len(u.results) + 1) /\ DOMAIN u.results = 1..Len(u.results)
       /\ \A j \in 1..Len(u.results) : results[j] = u.results[j]
       /\ results[Len(u.results) + 1] = r
       /\ Len(u.results) \in Nat
  BY <1>3, <1>4, AppendAt
<1> HIDE DEF results
<1>11. w \in Outcome /\ w.next = i + 1 /\ w.results = results /\ w.votes = votes
  <2>1. i + 1 \in Int
    BY <1>5
  <2> HIDE DEF i
  <2> QED
    BY <2>1, <1>9, <1>10 DEF Outcome
<1> HIDE DEF w
<1>12. w.next \in first..(Len(SongNotes) + 1) /\ Len(w.results) = w.next - first
  <2>1. u.next \in Int /\ u.next >= first /\ w.next = u.next + 1 /\ u.next <= Len(SongNotes)
    BY <1>2, <1>5, <1>11
  <2>2. Len(w.results) = (u.next - first) + 1
    BY <1>2, <1>10, <1>11
  <2> DEFINE n == Len(SongNotes)
             m == u.next
             x == w.next
             y == Len(w.results)
  <2>3. n \in Nat /\ m \in Int /\ m >= first /\ x = m + 1 /\ m <= n /\ y = (m - first) + 1
    BY <1>5, <2>1, <2>2
  <2> HIDE DEF n, m, x, y
  <2>4. x \in first..(n + 1) /\ y = x - first
    BY <2>3
  <2> QED
    BY <2>4 DEF n, x, y
<1>13. ASSUME heard = <<>>, NEW j \in DOMAIN w.results PROVE w.results[j] = Score!Missed
  <2>1. ~Score!Scores(i, heard)
    BY <1>13, NothingHeard
  <2>2. r = Score!Missed
    BY <1>4, <2>1
  <2>3. CASE j = Len(u.results) + 1
    BY <1>10, <1>11, <2>2, <2>3
  <2>4. CASE j # Len(u.results) + 1
    <3>1. j \in 1..Len(u.results)
      BY <1>10, <1>11, <1>13, <2>4
    <3> QED
      BY <1>2, <1>10, <1>11, <1>13, <3>1
  <2> QED
    BY <2>3, <2>4
<1>14. ASSUME NEW o \in {-1, 0, 1}, KeptIn(o, heard), NEW k \in DOMAIN w.votes PROVE w.votes[k][1] = o
  <2>1. CASE ~Score!Scores(i, heard)
    <3>1. w.votes = u.votes
      BY <1>8, <1>11, <2>1
    <3> QED
      BY <1>2, <1>14, <3>1
  <2>2. CASE Score!Scores(i, heard)
    <3>1. vote[1] = o /\ vote \in Octaves \X Int
      BY <1>4, <1>6, <1>14, <2>2, KeptOctave
    <3>2. w.votes = Append(u.votes, vote)
      BY <1>8, <1>11, <2>2
    <3>3. /\ DOMAIN w.votes = 1..(Len(u.votes) + 1) /\ DOMAIN u.votes = 1..Len(u.votes) /\ Len(u.votes) \in Nat
          /\ \A n \in 1..Len(u.votes) : w.votes[n] = u.votes[n]
          /\ w.votes[Len(u.votes) + 1] = vote
      BY <1>3, <3>1, <3>2, AppendAt
    <3>4. CASE k = Len(u.votes) + 1
      BY <3>1, <3>3, <3>4
    <3>5. CASE k # Len(u.votes) + 1
      <4>1. k \in 1..Len(u.votes)
        BY <1>14, <3>3, <3>5
      <4> QED
        BY <1>2, <1>14, <3>3, <4>1
    <3> QED
      BY <3>4, <3>5
  <2> QED
    BY <2>1, <2>2
<1>15. ASSUME seeks = 0, NEW n \in first..(w.next - 1), Score!Scores(n, heard) PROVE w.votes # <<>>
  <2>1. CASE Score!Scores(i, heard)
    <3>1. w.votes = Append(u.votes, vote) /\ vote \in Octaves \X Int
      BY <1>6, <1>8, <1>11, <2>1
    <3>2. Len(w.votes) = Len(u.votes) + 1 /\ Len(u.votes) \in Nat
      BY <1>3, <3>1, AppendAt
    <3>3. Len(w.votes) # 0
      BY <3>2
    <3> QED
      BY <3>3
  <2>2. CASE ~Score!Scores(i, heard)
    <3>1. w.votes = u.votes /\ n # i
      BY <1>8, <1>11, <1>15, <2>2
    <3>2. n \in first..(u.next - 1)
      BY <1>2, <1>5, <1>11, <1>15, <3>1
    <3> QED
      BY <1>2, <1>15, <3>1, <3>2
  <2> QED
    BY <2>1, <2>2
<1>16. w \in Outcomes(heard, first, seeks)
  BY <1>11, <1>12, <1>13, <1>14, <1>15 DEF Outcomes
<1> QED
  BY <1>1, <1>11, <1>16

\* Every note that is past is judged, in order.
LEMMA JudgeKeeps ==
  ASSUME NEW heard \in Seq(Heard), NEW first \in Int, NEW seeks, NEW u \in Outcomes(heard, first, seeks),
         u.next \in 1..(Len(SongNotes) + 1), NEW t \in Int
  PROVE  /\ Score!Judge(u, heard, t) \in Outcomes(heard, first, seeks)
         /\ Score!Judge(u, heard, t).next = Score!FirstAhead(u.next, t)
<1> DEFINE a == u.next
           b == Score!FirstAhead(a, t)
           Next(w) == Score!JudgeNext(w, heard)
           all == Outcomes(heard, first, seeks)
           F(f) == [i \in a..b |-> IF i = a THEN u ELSE Next(f[i - 1])]
           f == CHOOSE h : h = F(h)
           P == [i \in a..b |-> {w \in all : w.next = i}]
           g == [p \in Int \X all |-> Next(p[2])]
<1>1. Score!Judge(u, heard, t) = f[b]
  BY DEF Score!Judge
<1>2. /\ a \in Int /\ b \in Int /\ a <= b /\ Len(SongNotes) \in Nat
      /\ \A i \in a..b : i # a => i - 1 \in DOMAIN SongNotes /\ i - 1 \in a..b
  <2>1. b \in a..(Len(SongNotes) + 1) /\ Len(SongNotes) \in Nat /\ DOMAIN SongNotes = 1..Len(SongNotes)
    BY FirstAheadFacts, ScoreConstants
  <2>2. a \in 1..(Len(SongNotes) + 1)
    OBVIOUS
  <2> HIDE DEF a, b
  <2> QED
    BY <2>1, <2>2
<1>3. \A w \in all : w.next \in DOMAIN SongNotes => Next(w) \in all /\ Next(w).next = w.next + 1
  BY JudgeNextKeeps
<1>4. u \in all /\ u.next = a
  OBVIOUS
<1> HIDE DEF a, b, Next, all
<1>5. \A i \in a..b : P[i] = {w \in all : w.next = i}
  OBVIOUS
<1>6. \A p \in Int \X all : g[p] = Next(p[2])
  OBVIOUS
<1> HIDE DEF P, g
<1>7. ASSUME NEW i \in a..b, i # a, NEW y \in P[i - 1]
      PROVE  Next(y) \in P[i] /\ g[<<i, y>>] = Next(y)
  <2>1. i - 1 \in a..b /\ i - 1 \in DOMAIN SongNotes /\ i \in Int /\ (i - 1) + 1 = i
    BY <1>2, <1>7
  <2>2. y \in all /\ y.next = i - 1
    BY <1>5, <1>7, <2>1
  <2>3. Next(y) \in all /\ Next(y).next = i
    BY <1>3, <2>1, <2>2
  <2> QED
    BY <1>5, <1>6, <2>1, <2>2, <2>3
<1>8. \E h : h = F(h)
  <2>1. a \in a..b /\ u \in P[a] /\ \A i \in a..b : P[i] \subseteq all
    BY <1>2, <1>4, <1>5
  <2>2. \A i \in a..b : i # a => \A y \in P[i - 1] : g[<<i, y>>] \in P[i]
    BY <1>7
  <2>3. Stepping(all, P, a, b, u, g)
    BY <1>2, <2>1, <2>2 DEF Stepping
  <2>4. Stepped(all, P, a, b, u, g)
    BY <2>3, StepsExist
  <2>5. PICK h \in [a..b -> all] : /\ h[a] = u
                                   /\ \A i \in a..b : i # a => h[i] = g[<<i, h[i - 1]>>]
                                   /\ \A i \in a..b : h[i] \in P[i]
    BY <2>4 DEF Stepped
  <2>6. \A i \in a..b : i # a => h[i] = Next(h[i - 1])
    BY <1>2, <1>7, <2>5
  <2>7. h = F(h)
    BY <2>5, <2>6
  <2> QED
    BY <2>7
<1>9. f = F(f)
  BY <1>8
<1> HIDE DEF f
<1>10. f[a] = u /\ \A i \in a..b : i # a => f[i] = Next(f[i - 1])
  BY <1>2, <1>9
<1> DEFINE T == {k \in Nat : a + k <= b => f[a + k] \in P[a + k]}
<1>11. 0 \in T
  <2>1. a + 0 = a /\ u \in P[a]
    BY <1>2, <1>4, <1>5
  <2> QED
    BY <1>10, <2>1
<1>12. ASSUME NEW k \in T PROVE k + 1 \in T
  <2> SUFFICES ASSUME a + (k + 1) <= b PROVE f[a + (k + 1)] \in P[a + (k + 1)]
    BY <1>12
  <2> DEFINE i == a + (k + 1)
  <2>1. k \in Nat /\ i - 1 = a + k /\ i \in a..b /\ i # a /\ a + k <= b
    BY <1>2, <1>12
  <2>2. f[i - 1] \in P[i - 1]
    BY <1>12, <2>1
  <2> HIDE DEF i
  <2>3. f[i] \in P[i]
    BY <1>7, <1>10, <2>1, <2>2
  <2> QED
    BY <2>3 DEF i
<1>13. T = Nat
  <2>1. T \in SUBSET Nat
    OBVIOUS
  <2> HIDE DEF T
  <2> QED
    BY <1>11, <1>12, <2>1, NaturalsFromZero
<1>14. b - a \in T /\ a + (b - a) = b
  <2> HIDE DEF T
  <2> QED
    BY <1>2, <1>13
<1>15. f[b] \in P[b] /\ b \in a..b
  BY <1>2, <1>14
<1>16. f[b] \in all /\ f[b].next = b
  BY <1>5, <1>15
<1> QED
  BY <1>1, <1>16 DEF all, b, a

\* All of them anew.
LEMMA FinalizeKeeps ==
  ASSUME NEW heard \in Seq(Heard), NEW first \in 1..(Len(SongNotes) + 1), NEW seeks, NEW u \in Outcomes(heard, first, seeks),
         NEW r, NEW results,
         results = [j \in 1..(u.next - first) |-> Score!ScoreNote(first + j - 1, heard, r)]
  PROVE  [next |-> u.next, results |-> results, votes |-> u.votes] \in Outcomes(heard, first, seeks)
<1> DEFINE n == u.next - first
           w == [next |-> u.next, results |-> results, votes |-> u.votes]
<1>1. /\ u \in Outcome
      /\ u.next \in first..(Len(SongNotes) + 1)
      /\ \A o \in {-1, 0, 1} : KeptIn(o, heard) => \A k \in DOMAIN u.votes : u.votes[k][1] = o
      /\ seeks = 0 => \A i \in first..(u.next - 1) : Score!Scores(i, heard) => u.votes # <<>>
  BY DEF Outcomes
<1>2. n \in Nat /\ Len(SongNotes) \in Nat
  BY <1>1, ScoreConstants
<1>3. ASSUME NEW j \in 1..n PROVE first + j - 1 \in DOMAIN SongNotes
  <2> DEFINE last == u.next
             all == Len(SongNotes)
  <2>1. /\ last \in first..(all + 1) /\ all \in Nat /\ first \in 1..(all + 1) /\ j \in 1..(last - first)
        /\ DOMAIN SongNotes = 1..all
    BY <1>1, <1>2, <1>3, ScoreConstants
  <2> HIDE DEF last, all, n
  <2> QED
    BY <2>1
<1>4. \A j \in 1..n : results[j] = Score!ScoreNote(first + j - 1, heard, r)
  OBVIOUS
<1>5. DOMAIN results = 1..n /\ results = [j \in 1..n |-> results[j]]
  OBVIOUS
<1> HIDE DEF n
<1>6. ASSUME NEW j \in 1..n
      PROVE  results[j] \in Result /\ (heard = <<>> => results[j] = Score!Missed)
  <2> DEFINE i == first + j - 1
  <2>1. i \in DOMAIN SongNotes /\ results[j] = Score!ScoreNote(i, heard, r)
    BY <1>3, <1>4
  <2> HIDE DEF i
  <2>2. NoteJudged(i, heard, r)
    BY <2>1, ScoreNoteFacts
  <2>3. results[j] \in Result /\ (~Score!Scores(i, heard) => results[j] = Score!Missed)
    BY <2>1, <2>2 DEF NoteJudged
  <2>4. heard = <<>> => ~Score!Scores(i, heard)
    BY NothingHeard
  <2> QED
    BY <2>3, <2>4
<1>7. results \in Seq(Result) /\ Len(results) = n
  <2>0. \A j \in 1..n : results[j] \in Result
    BY <1>6
  <2>1. results \in [1..n -> Result]
    BY <1>5, <2>0
  <2>2. results \in Seq(Result)
    BY <1>2, <2>1, SeqDef
  <2>3. DOMAIN results = 1..Len(results) /\ Len(results) \in Nat
    BY <2>2, LenProperties
  <2>4. \A a, b \in Nat : 1..a = 1..b => a = b
    OBVIOUS
  <2>5. 1..Len(results) = 1..n
    BY <1>5, <2>3
  <2>6. Len(results) = n
    BY <1>2, <2>3, <2>4, <2>5
  <2> QED
    BY <2>2, <2>6
<1>8. w \in Outcome /\ w.next = u.next /\ w.results = results /\ w.votes = u.votes
  BY <1>1, <1>7 DEF Outcome
<1>9. Len(w.results) = w.next - first
  BY <1>7, <1>8 DEF n
<1>10. heard = <<>> => \A j \in DOMAIN w.results : w.results[j] = Score!Missed
  BY <1>5, <1>6, <1>8
<1> HIDE DEF w
<1>11. w \in Outcomes(heard, first, seeks)
  BY <1>1, <1>8, <1>9, <1>10 DEF Outcomes
<1> QED
  BY <1>11 DEF w

\* A frame more, heard when the notes that are judged are past.
LEMMA IngestKeeps ==
  ASSUME NEW heard \in Seq(Heard), NEW f \in Heard, NEW first \in 1..(Len(SongNotes) + 1), NEW seeks,
         NEW u \in Outcomes(heard, first, seeks),
         seeks = 0 => \A i \in first..(u.next - 1) : SongNotes[i].end + Tolerance < f.t
  PROVE  u \in Outcomes(Append(heard, f), first, seeks)
<1> DEFINE more == Append(heard, f)
<1>1. /\ u \in Outcome
      /\ u.next \in first..(Len(SongNotes) + 1)
      /\ Len(u.results) = u.next - first
      /\ \A o \in {-1, 0, 1} : KeptIn(o, heard) => \A k \in DOMAIN u.votes : u.votes[k][1] = o
      /\ seeks = 0 => \A i \in first..(u.next - 1) : Score!Scores(i, heard) => u.votes # <<>>
  BY DEF Outcomes
<1>2. more # <<>>
  <2>1. Len(more) = Len(heard) + 1 /\ Len(heard) \in Nat
    BY AppendAt
  <2> HIDE DEF more
  <2>2. Len(more) # 0
    BY <2>1
  <2> QED
    BY <2>2
<1>3. \A o : KeptIn(o, more) => KeptIn(o, heard)
  BY KeptBefore
<1>4. ASSUME seeks = 0, NEW i \in first..(u.next - 1), Score!Scores(i, more) PROVE u.votes # <<>>
  <2>1. i \in DOMAIN SongNotes
    BY <1>1, ScoreConstants
  <2>2. Score!Scores(i, heard)
    BY <1>4, <2>1, LaterFrame
  <2> QED
    BY <1>1, <1>4, <2>2
<1> HIDE DEF more
<1>5. u \in Outcomes(more, first, seeks)
  BY <1>1, <1>2, <1>3, <1>4 DEF Outcomes
<1> QED
  BY <1>5 DEF more

\* A singer who keeps to an octave has the register of it.
LEMMA RegisterKept ==
  ASSUME NEW list, NEW S, list \in Seq(S), list # <<>>, NEW o, \A k \in DOMAIN list : list[k][1] = o
  PROVE  Score!Register(list) = o
<1>1. DOMAIN list # {}
  <2>1. Len(list) \in Nat /\ DOMAIN list = 1..Len(list) /\ Len(list) # 0
    BY LenProperties, EmptySeq
  <2>2. 1 \in DOMAIN list
    BY <2>1
  <2> QED
    BY <2>2
<1>2. Score!Dominant(list, DOMAIN list) = o
  BY <1>1, DominantOfOne
<1> QED
  BY <1>2 DEF Score!Register

(***************************************************************************)
(* Scoring: its inductive invariant.                                       *)
(***************************************************************************)
Notes == DOMAIN SongNotes

ScoreKinds ==
  /\ v1 \in 0..LastTick /\ v2 \in BOOLEAN /\ v3 \in BOOLEAN /\ v13 \in BOOLEAN
  /\ v4 \in {"no", "model", "mic"} /\ v5 \subseteq {"model", "mic"} /\ v6 \subseteq {"session"}
  /\ v7 \in Seq(Heard) /\ v8 \in 1..(Len(SongNotes) + 1) /\ v14 \in Nat

\* The microphone is the session's, and while a session starts it has none and hears nothing.
MicHeld ==
  /\ v6 # {} => v3 = TRUE /\ v4 = "no"
  /\ v4 # "no" => v3 = TRUE /\ v7 = <<>>
  /\ v3 = TRUE => v6 # {} \/ v4 # "no"

JudgedSoFar == [next |-> v9, results |-> v11, votes |-> v10] \in Outcomes(v7, v8, v14)

\* The notes judged are past, and the next one isn't.
JudgedPast == v14 = 0 => \A i \in v8..(v9 - 1) : SongNotes[i].end + Tolerance < v1
NextAhead  == v3 = TRUE /\ v9 \in Notes => v1 <= SongNotes[v9].end + Tolerance

\* After a session the notes have what the whole of it gives them.
Finalized ==
  v3 = FALSE /\ v13 = FALSE /\ v7 # <<>>
    => \A j \in 1..(v9 - v8) : v11[j] = Score!ScoreNote(v8 + j - 1, v7, Score!Register(v10))

ScoreInv == ScoreKinds /\ MicHeld /\ JudgedSoFar /\ JudgedPast /\ NextAhead /\ Finalized

JudgingKept == UNCHANGED <<v7, v8, v9, v10, v11>>

\* A session that hasn't begun to judge.
LEMMA NoneJudged ==
  ASSUME NEW first \in 1..(Len(SongNotes) + 1), NEW seeks
  PROVE  [next |-> first, results |-> <<>>, votes |-> <<>>] \in Outcomes(<<>>, first, seeks)
<1> DEFINE w == [next |-> first, results |-> <<>>, votes |-> <<>>]
<1>1. Len(SongNotes) \in Nat
  BY ScoreConstants
<1>2. <<>> \in Seq(Result) /\ <<>> \in Seq(Octaves \X Int) /\ Len(<<>>) = 0 /\ DOMAIN <<>> = {}
  BY EmptySeq
<1>3. w.next = first /\ w.results = <<>> /\ w.votes = <<>>
  OBVIOUS
<1>4. w \in Outcome
  <2>1. first \in Int
    BY <1>1
  <2> QED
    BY <1>2, <2>1 DEF Outcome
<1>5. first \in first..(Len(SongNotes) + 1) /\ first - first = 0 /\ first..(first - 1) = {}
  BY <1>1
<1> HIDE DEF w
<1>6. w \in Outcomes(<<>>, first, seeks)
  BY <1>2, <1>3, <1>4, <1>5 DEF Outcomes
<1> QED
  BY <1>6 DEF w

LEMMA ScoreInitHolds ==
  ASSUME Score!ScoreInit
  PROVE  ScoreInv
<1>1. /\ v1 = 0 /\ v2 = TRUE /\ v3 = FALSE /\ v4 = "no" /\ v5 = {} /\ v6 = {} /\ v7 = <<>> /\ v8 = 1 /\ v9 = 1
      /\ v10 = <<>> /\ v11 = <<>> /\ v13 = FALSE /\ v14 = 0
  BY DEF Score!ScoreInit
<1>2. Len(SongNotes) \in Nat /\ LastTick \in Nat
  BY ScoreConstants
<1>3. 0 \in 0..LastTick /\ 1 \in 1..(Len(SongNotes) + 1)
  BY <1>2
<1>4. <<>> \in Seq(Heard) /\ <<>> \in Seq(Result) /\ <<>> \in Seq(Octaves \X Int) /\ Len(<<>>) = 0 /\ DOMAIN <<>> = {}
  BY EmptySeq
<1>5. ScoreKinds
  BY <1>1, <1>3, <1>4 DEF ScoreKinds
<1>6. MicHeld /\ NextAhead /\ Finalized
  BY <1>1 DEF MicHeld, NextAhead, Finalized
<1>7. JudgedPast
  <2>1. 1..(1 - 1) = {}
    OBVIOUS
  <2> QED
    BY <1>1, <2>1 DEF JudgedPast
<1>8. JudgedSoFar
  <2>1. [next |-> 1, results |-> <<>>, votes |-> <<>>] \in Outcomes(<<>>, 1, 0)
    BY <1>2, NoneJudged
  <2> QED
    BY <1>1, <2>1 DEF JudgedSoFar
<1> QED
  BY <1>5, <1>6, <1>7, <1>8 DEF ScoreInv

\* What a step leaves alone.
LEMMA JudgingSame ==
  ASSUME ScoreInv, UNCHANGED <<v7, v8, v9, v10, v11, v14>>
  PROVE  JudgedSoFar' /\ v7' \in Seq(Heard) /\ v8' \in 1..(Len(SongNotes) + 1) /\ v14' \in Nat
  BY DEF ScoreInv, ScoreKinds, JudgedSoFar

LEMMA PastSame ==
  ASSUME ScoreInv, UNCHANGED <<v1, v8, v9, v14>>
  PROVE  JudgedPast' /\ v1' \in 0..LastTick
  BY DEF ScoreInv, ScoreKinds, JudgedPast

LEMMA StartSessionStep ==
  ASSUME ScoreInv, Score!StartSession
  PROVE  ScoreInv'
<1>1. /\ v3 = FALSE /\ v3' = TRUE /\ v4' \in {"model", "mic"} /\ v8' = Score!FirstAhead(1, v1) /\ v9' = v8'
      /\ v7' = <<>> /\ v10' = <<>> /\ v11' = <<>> /\ v13' = FALSE /\ UNCHANGED <<v1, v2, v5, v6, v14>>
  <2>1. ScoreKinds
    BY DEF ScoreInv
  <2> QED
    BY <2>1 DEF Score!StartSession, ScoreKinds
<1>2. ScoreKinds /\ MicHeld
  BY DEF ScoreInv
<1>3. v1 \in 0..LastTick /\ Len(SongNotes) \in Nat /\ v1 \in Int /\ 1 \in 1..(Len(SongNotes) + 1)
  <2>1. v1 \in 0..LastTick /\ Len(SongNotes) \in Nat
    BY <1>2, ScoreConstants DEF ScoreKinds
  <2> QED
    BY <2>1
<1>4. PICK first : first = Score!FirstAhead(1, v1)
  OBVIOUS
<1>5. first \in 1..(Len(SongNotes) + 1) /\ (first \in DOMAIN SongNotes => v1 <= SongNotes[first].end + Tolerance)
  BY <1>3, <1>4, FirstAheadFacts
<1>6. v8' = first /\ v9' = first
  BY <1>1, <1>4
<1>7. <<>> \in Seq(Heard)
  BY EmptySeq
<1>8. ScoreKinds'
  BY <1>1, <1>2, <1>5, <1>6, <1>7 DEF ScoreKinds
<1>9. v6 = {}
  BY <1>1, <1>2 DEF MicHeld
<1>10. MicHeld'
  BY <1>1, <1>9 DEF MicHeld
<1>11. JudgedSoFar'
  <2>1. [next |-> first, results |-> <<>>, votes |-> <<>>] \in Outcomes(<<>>, first, v14)
    BY <1>5, NoneJudged
  <2> QED
    BY <1>1, <1>6, <2>1 DEF JudgedSoFar
<1>12. JudgedPast'
  <2>1. first..(first - 1) = {}
    BY <1>5
  <2> QED
    BY <1>6, <2>1 DEF JudgedPast
<1>13. NextAhead'
  BY <1>1, <1>5, <1>6 DEF NextAhead, Notes
<1>14. Finalized'
  BY <1>1 DEF Finalized
<1> QED
  BY <1>8, <1>10, <1>11, <1>12, <1>13, <1>14 DEF ScoreInv

\* What is open and what starts changes; what is judged doesn't.
LEMMA OnlyTheMic ==
  ASSUME ScoreInv, UNCHANGED <<v1, v2, v7, v8, v9, v10, v11, v14>>,
         v3' \in BOOLEAN, v13' \in BOOLEAN, v4' \in {"no", "model", "mic"}, v5' \subseteq {"model", "mic"},
         v6' \subseteq {"session"}, MicHeld',
         v3' = TRUE => v3 = TRUE, v3' = FALSE /\ v13' = FALSE /\ v7 # <<>> => v3 = FALSE /\ v13 = FALSE
  PROVE  ScoreInv'
<1>1. JudgedSoFar' /\ JudgedPast'
  BY JudgingSame, PastSame
<1>2. ScoreKinds'
  BY DEF ScoreInv, ScoreKinds
<1>3. NextAhead'
  BY DEF ScoreInv, NextAhead
<1>4. Finalized'
  <2>1. Finalized
    BY DEF ScoreInv
  <2> QED
    BY <2>1 DEF Finalized
<1> QED
  BY <1>1, <1>2, <1>3, <1>4 DEF ScoreInv

LEMMA MicStartedStep ==
  ASSUME ScoreInv, Score!Started
  PROVE  ScoreInv'
<1>1. /\ v4 # "no" /\ UNCHANGED <<v1, v2, v3, v5, v7, v8, v9, v10, v11, v13, v14>>
      /\ IF v4 = "model" THEN v4' = "mic" /\ v6' = v6 ELSE v4' = "no" /\ v6' = v6 \cup {"session"}
  BY DEF Score!Started, Score!judged
<1>2. ScoreKinds /\ MicHeld
  BY DEF ScoreInv
<1>3. v3 = TRUE /\ v7 = <<>> /\ v6 = {}
  BY <1>1, <1>2 DEF MicHeld
<1>4. v3' = TRUE /\ v7' = <<>> /\ v4' \in {"no", "model", "mic"} /\ v6' \subseteq {"session"} /\ MicHeld'
  <2>1. CASE v4 = "model"
    BY <1>1, <1>3, <2>1 DEF MicHeld
  <2>2. CASE v4 # "model"
    BY <1>1, <1>3, <2>2 DEF MicHeld
  <2> QED
    BY <2>1, <2>2
<1>5. v3' \in BOOLEAN /\ v13' \in BOOLEAN /\ v5' \subseteq {"model", "mic"}
  BY <1>1, <1>2 DEF ScoreKinds
<1>6. (v3' = TRUE => v3 = TRUE) /\ (v3' = FALSE /\ v13' = FALSE /\ v7 # <<>> => v3 = FALSE /\ v13 = FALSE)
  BY <1>1
<1> QED
  BY <1>1, <1>4, <1>5, <1>6, OnlyTheMic

LEMMA MicStartedLateStep ==
  ASSUME ScoreInv, NEW step \in v5, Score!StartedLate(step)
  PROVE  ScoreInv'
<1>1. UNCHANGED <<v1, v2, v3, v4, v6, v7, v8, v9, v10, v11, v13, v14>> /\ v5' = v5 \ {step}
  BY DEF Score!StartedLate, Score!BackOut, Score!judged
<1>2. ScoreKinds /\ MicHeld
  BY DEF ScoreInv
<1>3. /\ v3' \in BOOLEAN /\ v13' \in BOOLEAN /\ v4' \in {"no", "model", "mic"} /\ v5' \subseteq {"model", "mic"}
      /\ v6' \subseteq {"session"}
  BY <1>1, <1>2 DEF ScoreKinds
<1>4. MicHeld'
  BY <1>1, <1>2 DEF MicHeld
<1>5. (v3' = TRUE => v3 = TRUE) /\ (v3' = FALSE /\ v13' = FALSE /\ v7 # <<>> => v3 = FALSE /\ v13 = FALSE)
  BY <1>1
<1> QED
  BY <1>1, <1>3, <1>4, <1>5, OnlyTheMic

LEMMA MicFailsStep ==
  ASSUME ScoreInv, Score!StartFails
  PROVE  ScoreInv'
<1>1. UNCHANGED <<v1, v2, v5, v6, v7, v8, v9, v10, v11, v13, v14>> /\ v4 # "no" /\ v4' = "no" /\ v3' = FALSE
  BY DEF Score!StartFails, Score!judged
<1>2. ScoreKinds /\ MicHeld
  BY DEF ScoreInv
<1>3. v7 = <<>> /\ v6 = {}
  BY <1>1, <1>2 DEF MicHeld
<1>4. /\ v3' \in BOOLEAN /\ v13' \in BOOLEAN /\ v4' \in {"no", "model", "mic"} /\ v5' \subseteq {"model", "mic"}
      /\ v6' \subseteq {"session"}
  BY <1>1, <1>2 DEF ScoreKinds
<1>5. MicHeld'
  BY <1>1, <1>3 DEF MicHeld
<1>6. (v3' = TRUE => v3 = TRUE) /\ (v3' = FALSE /\ v13' = FALSE /\ v7 # <<>> => v3 = FALSE /\ v13 = FALSE)
  BY <1>1, <1>3
<1> QED
  BY <1>1, <1>4, <1>5, <1>6, OnlyTheMic

LEMMA MicFailsLateStep ==
  ASSUME ScoreInv, NEW step \in v5, Score!StartFailsLate(step)
  PROVE  ScoreInv'
<1>1. /\ UNCHANGED <<v1, v2, v7, v8, v9, v10, v11, v14>> /\ v4' = "no" /\ v3' = FALSE
      /\ v6' = v6 \ {"session"} /\ v5' = (v5 \ {step}) \cup ({v4} \ {"no"}) /\ v13' = (v13 \/ v3)
  BY DEF Score!StartFailsLate
<1>2. ScoreKinds /\ MicHeld
  BY DEF ScoreInv
<1>3. v6' = {}
  BY <1>1, <1>2 DEF ScoreKinds
<1>4. /\ v3' \in BOOLEAN /\ v4' \in {"no", "model", "mic"} /\ v5' \subseteq {"model", "mic"}
      /\ v6' \subseteq {"session"}
  BY <1>1, <1>2, <1>3 DEF ScoreKinds
<1>5. MicHeld'
  BY <1>1, <1>3 DEF MicHeld
<1>6. v3 \in BOOLEAN /\ v13 \in BOOLEAN
  BY <1>2 DEF ScoreKinds
<1>7. v13' \in BOOLEAN /\ (v13' = FALSE => v3 = FALSE /\ v13 = FALSE)
  BY <1>1, <1>6, Zenon
<1>8. (v3' = TRUE => v3 = TRUE) /\ (v3' = FALSE /\ v13' = FALSE /\ v7 # <<>> => v3 = FALSE /\ v13 = FALSE)
  BY <1>1, <1>7
<1> QED
  BY <1>1, <1>4, <1>5, <1>7, <1>8, OnlyTheMic

LEMMA IngestStep ==
  ASSUME ScoreInv, NEW midi \in Sung, Score!Ingest(midi)
  PROVE  ScoreInv'
<1> DEFINE f == [t |-> v1, midi |-> midi]
           u == [next |-> v9, results |-> v11, votes |-> v10]
<1>1. /\ "session" \in v6 /\ v3 = TRUE /\ v7' = Append(v7, f)
      /\ UNCHANGED <<v1, v2, v3, v4, v5, v6, v8, v9, v10, v11, v13, v14>>
  <2>1. v3 \in BOOLEAN
    BY DEF ScoreInv, ScoreKinds
  <2> QED
    BY <2>1 DEF Score!Ingest
<1>2. ScoreKinds /\ MicHeld /\ JudgedSoFar /\ JudgedPast /\ NextAhead
  BY DEF ScoreInv
<1>3. v1 \in Int /\ midi \in Int
  <2>1. v1 \in 0..LastTick /\ LastTick \in Nat /\ Sung \subseteq Int
    BY <1>2, ScoreConstants DEF ScoreKinds
  <2> QED
    BY <2>1
<1>4. f \in Heard /\ f.t = v1
  BY <1>3 DEF Heard
<1>5. v7 \in Seq(Heard) /\ v8 \in 1..(Len(SongNotes) + 1)
  BY <1>2 DEF ScoreKinds
<1>6. v7' \in Seq(Heard)
  BY <1>1, <1>4, <1>5, AppendAt
<1>7. u \in Outcomes(v7, v8, v14) /\ u.next = v9
  BY <1>2 DEF JudgedSoFar
<1>8. v14 = 0 => \A i \in v8..(v9 - 1) : SongNotes[i].end + Tolerance < v1
  BY <1>2 DEF JudgedPast
<1> HIDE DEF f, u
<1>9. u \in Outcomes(Append(v7, f), v8, v14)
  BY <1>4, <1>5, <1>7, <1>8, IngestKeeps
<1>10. ScoreKinds'
  BY <1>1, <1>2, <1>6 DEF ScoreKinds
<1>11. MicHeld'
  <2>1. v4 = "no"
    BY <1>1, <1>2 DEF MicHeld
  <2> QED
    BY <1>1, <1>2, <2>1 DEF MicHeld
<1>12. JudgedSoFar'
  BY <1>1, <1>9 DEF JudgedSoFar, u
<1>13. JudgedPast' /\ NextAhead' /\ Finalized'
  BY <1>1, <1>2 DEF JudgedPast, NextAhead, Finalized
<1> QED
  BY <1>10, <1>11, <1>12, <1>13 DEF ScoreInv

\* The song's time changes: it goes on, or the singer seeks.
LEMMA ClockStep ==
  ASSUME ScoreInv, NEW t, t \in 0..LastTick, v1' = t, Score!Clock(t), UNCHANGED <<v2, v3, v4, v5, v6, v7, v8, v13>>,
         v14' \in Nat, v14' = 0 => v14 = 0 /\ v1 <= t
  PROVE  ScoreInv'
<1> DEFINE u == [next |-> v9, results |-> v11, votes |-> v10]
           w == Score!Judge(u, v7, t)
<1>1. ScoreKinds /\ MicHeld /\ JudgedSoFar /\ JudgedPast /\ NextAhead /\ Finalized
  BY DEF ScoreInv
<1>2. v7 \in Seq(Heard) /\ v8 \in 1..(Len(SongNotes) + 1) /\ v1 \in 0..LastTick /\ v3 \in BOOLEAN
  BY <1>1 DEF ScoreKinds
<1>3. LastTick \in Nat /\ Len(SongNotes) \in Nat /\ DOMAIN SongNotes = 1..Len(SongNotes)
  BY ScoreConstants
<1>4. t \in Int /\ v1 \in Int /\ v8 \in Int
  BY <1>2, <1>3
<1>5. u \in Outcomes(v7, v8, v14)
  BY <1>1 DEF JudgedSoFar
<1>6. u \in Outcomes(v7, v8, v14') /\ u.next = v9 /\ u.results = v11 /\ u.votes = v10
  BY <1>5 DEF Outcomes
<1>7. v9 \in v8..(Len(SongNotes) + 1) /\ v9 \in 1..(Len(SongNotes) + 1)
  <2>1. v9 \in v8..(Len(SongNotes) + 1)
    BY <1>6 DEF Outcomes
  <2> QED
    BY <2>1, <1>2, <1>3
<1>8. ScoreKinds' /\ MicHeld'
  BY <1>1 DEF ScoreKinds, MicHeld
<1>9. v14' = 0 => \A i \in v8..(v9 - 1) : SongNotes[i].end + Tolerance < t
  <2> SUFFICES ASSUME v14' = 0, NEW i \in v8..(v9 - 1) PROVE SongNotes[i].end + Tolerance < t
    OBVIOUS
  <2>1. SongNotes[i].end + Tolerance < v1 /\ v1 <= t
    BY <1>1 DEF JudgedPast
  <2>2. i \in DOMAIN SongNotes
    BY <1>2, <1>3, <1>7
  <2>3. SongNotes[i].end \in Int /\ Tolerance \in Nat
    BY <2>2, ScoreConstants
  <2> QED
    BY <2>1, <2>3, <1>4
<1>10. CASE v3 = FALSE
  <2>1. UNCHANGED <<v9, v10, v11>>
    BY <1>10 DEF Score!Clock
  <2>2. JudgedSoFar'
    BY <2>1, <1>6 DEF JudgedSoFar
  <2>3. JudgedPast'
    BY <2>1, <1>9 DEF JudgedPast
  <2>4. NextAhead' /\ Finalized'
    BY <1>1, <1>10, <2>1 DEF NextAhead, Finalized
  <2> QED
    BY <1>8, <2>2, <2>3, <2>4 DEF ScoreInv
<1>11. CASE v3 = TRUE
  <2>1. v9' = w.next /\ v10' = w.votes /\ v11' = w.results
    BY <1>11 DEF Score!Clock, Score!Judged
  <2> HIDE DEF u, w
  <2>2. PICK s \in Nat : s = v14'
    OBVIOUS
  <2>3. u \in Outcomes(v7, v8, s)
    BY <1>6, <2>2
  <2>4. u.next \in 1..(Len(SongNotes) + 1)
    BY <1>6, <1>7
  <2>5. w \in Outcomes(v7, v8, s) /\ w.next = Score!FirstAhead(u.next, t)
    BY <1>2, <1>4, <2>3, <2>4, JudgeKeeps DEF w
  <2> DEFINE to == Score!FirstAhead(v9, t)
  <2>6. /\ to \in v9..(Len(SongNotes) + 1)
        /\ to \in DOMAIN SongNotes => t <= SongNotes[to].end + Tolerance
        /\ \A i \in v9..(to - 1) : i \in DOMAIN SongNotes /\ SongNotes[i].end + Tolerance < t
    BY <1>4, <1>7, FirstAheadFacts
  <2>7. w.next = to
    BY <1>6, <2>5
  <2> HIDE DEF to
  <2>8. JudgedSoFar'
    <3>1. w = [next |-> w.next, results |-> w.results, votes |-> w.votes]
      BY <2>5 DEF Outcomes, Outcome
    <3> QED
      BY <2>1, <2>2, <2>5, <3>1 DEF JudgedSoFar
  <2>9. JudgedPast'
    <3> SUFFICES ASSUME v14' = 0, NEW i \in v8..(to - 1) PROVE SongNotes[i].end + Tolerance < t
      BY <2>1, <2>7 DEF JudgedPast
    <3>1. CASE i \in v8..(v9 - 1)
      BY <1>9, <3>1
    <3>2. CASE i \in v9..(to - 1)
      BY <2>6, <3>2
    <3>3. i \in v8..(v9 - 1) \/ i \in v9..(to - 1)
      BY <1>4, <1>7, <2>6
    <3> QED
      BY <3>1, <3>2, <3>3
  <2>10. NextAhead'
    BY <2>1, <2>6, <2>7 DEF NextAhead, Notes
  <2>11. Finalized'
    BY <1>11 DEF Finalized
  <2> QED
    BY <1>8, <2>8, <2>9, <2>10, <2>11 DEF ScoreInv
<1> QED
  BY <1>2, <1>10, <1>11

LEMMA PlaysStep ==
  ASSUME ScoreInv, Score!Plays
  PROVE  ScoreInv'
<1>1. v1 < LastTick /\ v1' = v1 + 1 /\ Score!Clock(v1 + 1) /\ UNCHANGED <<v2, v3, v4, v5, v6, v7, v8, v13, v14>>
  BY DEF Score!Plays
<1>2. v1 \in 0..LastTick /\ v14 \in Nat /\ LastTick \in Nat
  BY ScoreConstants DEF ScoreInv, ScoreKinds
<1>3. PICK t : t = v1 + 1
  OBVIOUS
<1>4. t \in 0..LastTick /\ v1 <= t
  BY <1>1, <1>2, <1>3
<1>5. v1' = t /\ Score!Clock(t)
  BY <1>1, <1>3
<1>6. v14' \in Nat /\ (v14' = 0 => v14 = 0 /\ v1 <= t)
  BY <1>1, <1>2, <1>4
<1> QED
  BY <1>1, <1>4, <1>5, <1>6, ClockStep

LEMMA SeekStep ==
  ASSUME ScoreInv, Score!SeekTo(0)
  PROVE  ScoreInv'
<1>1. v14' = v14 + 1 /\ v1' = 0 /\ Score!Clock(0) /\ UNCHANGED <<v2, v3, v4, v5, v6, v7, v8, v13>>
  BY DEF Score!SeekTo
<1>2. v14 \in Nat /\ LastTick \in Nat
  BY ScoreConstants DEF ScoreInv, ScoreKinds
<1>3. v14' \in Nat /\ v14' # 0
  BY <1>1, <1>2
<1>4. 0 \in 0..LastTick
  BY <1>2
<1> QED
  BY <1>1, <1>3, <1>4, ClockStep

LEMMA SessionStopStep ==
  ASSUME ScoreInv, Score!Stop, UNCHANGED <<v1, v14>>, v2' \in BOOLEAN, v3 = TRUE
  PROVE  ScoreInv'
<1> DEFINE u == [next |-> v9, results |-> v11, votes |-> v10]
           r == Score!Register(v10)
<1>1. /\ v3' = FALSE /\ v4' = "no" /\ v6' = v6 \ {"session"}
      /\ v5' = (IF v4 = "no" THEN v5 ELSE v5 \cup {v4})
      /\ UNCHANGED <<v7, v8, v9, v10, v13>>
      /\ v11' = [j \in 1..(v9 - v8) |-> Score!ScoreNote(v8 + j - 1, v7, r)]
  BY DEF Score!Stop, Score!Teardown, Score!Finalize
<1>2. ScoreKinds /\ JudgedSoFar /\ JudgedPast
  BY DEF ScoreInv
<1>3. v6' = {}
  BY <1>1, <1>2 DEF ScoreKinds
<1>4. v5' \subseteq {"model", "mic"}
  BY <1>1, <1>2 DEF ScoreKinds
<1>5. ScoreKinds'
  BY <1>1, <1>2, <1>3, <1>4 DEF ScoreKinds
<1>6. MicHeld' /\ NextAhead'
  BY <1>1, <1>3 DEF MicHeld, NextAhead
<1>7. JudgedPast'
  BY <1>1, <1>2 DEF JudgedPast
<1>8. u \in Outcomes(v7, v8, v14) /\ u.next = v9 /\ u.votes = v10
  BY <1>2 DEF JudgedSoFar
<1>9. v7 \in Seq(Heard) /\ v8 \in 1..(Len(SongNotes) + 1)
  BY <1>2 DEF ScoreKinds
<1> HIDE DEF u, r
<1>10. PICK results : results = v11'
  OBVIOUS
<1>11. results = [j \in 1..(u.next - v8) |-> Score!ScoreNote(v8 + j - 1, v7, r)]
  BY <1>1, <1>8, <1>10
<1>12. [next |-> u.next, results |-> results, votes |-> u.votes] \in Outcomes(v7, v8, v14)
  BY <1>8, <1>9, <1>11, FinalizeKeeps
<1>13. JudgedSoFar'
  BY <1>1, <1>8, <1>10, <1>12 DEF JudgedSoFar
<1>14. Finalized'
  <2>1. \A j \in 1..(v9 - v8) : v11'[j] = Score!ScoreNote(v8 + j - 1, v7, r)
    BY <1>1
  <2> QED
    BY <1>1, <2>1 DEF Finalized, r
<1> QED
  BY <1>5, <1>6, <1>7, <1>13, <1>14 DEF ScoreInv

LEMMA ScoreNextKeeps ==
  ASSUME ScoreInv, Score!ScoreNext
  PROVE  ScoreInv'
<1>1. CASE Score!StartSession
  BY <1>1, StartSessionStep
<1>2. CASE Score!Started
  BY <1>2, MicStartedStep
<1>3. CASE Score!StartFails
  BY <1>3, MicFailsStep
<1>4. CASE Score!StopSession
  <2>1. v3 = TRUE /\ Score!Stop /\ UNCHANGED <<v1, v14>> /\ v2' = v2 /\ v2 \in BOOLEAN
    BY <1>4 DEF Score!StopSession, ScoreInv, ScoreKinds
  <2> QED
    BY <2>1, SessionStopStep
<1>5. CASE Score!Plays
  BY <1>5, PlaysStep
<1>6. CASE Score!SongEnds
  <2>1. /\ UNCHANGED <<v1, v14>> /\ v2' = FALSE /\ v3 \in BOOLEAN
        /\ IF v3 THEN Score!Stop ELSE UNCHANGED <<v3, v4, v5, v6, v7, v8, v9, v10, v11, v13>>
    BY <1>6 DEF Score!SongEnds, Score!judged, ScoreInv, ScoreKinds
  <2>2. CASE v3 = TRUE
    BY <2>1, <2>2, SessionStopStep
  <2>3. CASE v3 = FALSE
    <3>1. UNCHANGED <<v1, v3, v4, v5, v6, v7, v8, v9, v10, v11, v13, v14>> /\ v2' \in BOOLEAN
      BY <2>1, <2>3
    <3> QED
      BY <3>1 DEF ScoreInv, ScoreKinds, MicHeld, JudgedSoFar, JudgedPast, NextAhead, Finalized
  <2> QED
    BY <2>1, <2>2, <2>3
<1>7. CASE \E step \in v5 : Score!StartedLate(step) \/ Score!StartFailsLate(step)
  BY <1>7, MicStartedLateStep, MicFailsLateStep
<1>8. CASE \E midi \in Sung : Score!Ingest(midi)
  BY <1>8, IngestStep
<1>9. CASE Score!SeekTo(0)
  BY <1>9, SeekStep
<1> QED
  BY <1>1, <1>2, <1>3, <1>4, <1>5, <1>6, <1>7, <1>8, <1>9 DEF Score!ScoreNext

LEMMA ScoreSame ==
  ASSUME ScoreInv, UNCHANGED <<v1, v2, v3, v4, v5, v6, v7, v8, v9, v10, v11, v12, v13, v14, v15>>
  PROVE  ScoreInv'
  BY DEF ScoreInv, ScoreKinds, MicHeld, JudgedSoFar, JudgedPast, NextAhead, Finalized

LEMMA ScoreHolds ==
  ASSUME ScoreInv
  PROVE  Score!ScoreTypes /\ Score!ScoringRight
<1> DEFINE u == [next |-> v9, results |-> v11, votes |-> v10]
<1>1. ScoreKinds /\ MicHeld /\ JudgedSoFar /\ JudgedPast /\ NextAhead /\ Finalized
  BY DEF ScoreInv
<1>2. /\ v1 \in 0..LastTick /\ v2 \in BOOLEAN /\ v3 \in BOOLEAN /\ v13 \in BOOLEAN
      /\ v4 \in {"no", "model", "mic"} /\ v5 \subseteq {"model", "mic"} /\ v6 \subseteq {"session"}
      /\ v7 \in Seq(Heard) /\ v8 \in 1..(Len(SongNotes) + 1) /\ v14 \in Nat
  BY <1>1 DEF ScoreKinds
<1>3. /\ v11 \in Seq(Result) /\ v10 \in Seq(Octaves \X Int)
      /\ v9 \in v8..(Len(SongNotes) + 1) /\ Len(v11) = v9 - v8
      /\ v7 = <<>> => \A j \in DOMAIN v11 : v11[j] = Score!Missed
      /\ \A o \in {-1, 0, 1} : KeptIn(o, v7) => \A k \in DOMAIN v10 : v10[k][1] = o
      /\ v14 = 0 => \A i \in v8..(v9 - 1) : Score!Scores(i, v7) => v10 # <<>>
  <2>1. u \in Outcomes(v7, v8, v14) /\ u.next = v9 /\ u.results = v11 /\ u.votes = v10
    BY <1>1 DEF JudgedSoFar
  <2>2. u \in Outcome
    BY <2>1 DEF Outcomes
  <2> HIDE DEF u
  <2> QED
    BY <2>1, <2>2 DEF Outcomes, Outcome
<1>4. Len(SongNotes) \in Nat /\ DOMAIN SongNotes = 1..Len(SongNotes)
  BY ScoreConstants
<1>5. DOMAIN v11 = 1..(v9 - v8)
  BY <1>3, LenProperties
<1>6. Score!ScoreTypes
  <2>1. \A j \in DOMAIN v11 : v11[j].score \in 0..100
    <3> TAKE j \in DOMAIN v11
    <3>1. v11[j] \in Result
      BY <1>3, ElementOfSeq, LenProperties
    <3> QED
      BY <3>1 DEF Result
  <2> QED
    BY <1>2, <1>3, <2>1 DEF Score!ScoreTypes
<1>7. Score!MicReleased
  BY <1>1, <1>2 DEF MicHeld, Score!MicReleased
<1>8. Score!JudgedOnce
  <2> SUFFICES ASSUME v3 = TRUE, NEW i \in DOMAIN SongNotes, i >= v8,
                      \A j \in v8..i : SongNotes[j].end + Tolerance < v1
               PROVE  i < v9
    BY <1>2, <1>3 DEF Score!JudgedOnce, Score!Past, Score!Notes
  <2>1. CASE v9 <= i
    <3>1. v9 \in v8..i /\ v9 \in DOMAIN SongNotes
      BY <1>2, <1>3, <1>4, <2>1
    <3>2. SongNotes[v9].end + Tolerance < v1 /\ v1 <= SongNotes[v9].end + Tolerance
      BY <1>1, <3>1 DEF NextAhead, Notes
    <3>3. SongNotes[v9].end \in Int /\ Tolerance \in Nat /\ v1 \in Int
      BY <1>2, <3>1, ScoreConstants
    <3> QED
      BY <3>2, <3>3
  <2>2. CASE ~(v9 <= i)
    BY <1>2, <1>3, <1>4, <2>2
  <2> QED
    BY <2>1, <2>2
<1>9. Score!OctaveKept
  <2> SUFFICES ASSUME v3 = FALSE, v13 = FALSE, v14 = 0, NEW o \in {-1, 0, 1}, KeptIn(o, v7),
                      NEW j \in DOMAIN v11, v11[j].scored
               PROVE  v11[j].factor = 100
    BY <1>2 DEF Score!OctaveKept, Score!KeptTo, Score!Notes, KeptIn
  <2> DEFINE i == v8 + j - 1
             r == Score!Register(v10)
  <2>1. Score!Missed.scored = FALSE
    BY DEF Score!Missed
  <2>2. v7 # <<>>
    BY <1>3, <2>1
  <2>3. v11[j] = Score!ScoreNote(i, v7, r)
    <3>1. j \in 1..(v9 - v8)
      BY <1>5
    <3>2. \A k \in 1..(v9 - v8) : v11[k] = Score!ScoreNote(v8 + k - 1, v7, r)
      BY <1>1, <2>2 DEF Finalized
    <3> HIDE DEF r
    <3> QED
      BY <3>1, <3>2
  <2>4. i \in DOMAIN SongNotes /\ i \in v8..(v9 - 1)
    BY <1>2, <1>3, <1>4, <1>5
  <2> HIDE DEF i
  <2>5. NoteJudged(i, v7, r)
    BY <1>2, <2>4, ScoreNoteFacts
  <2>6. Score!Scores(i, v7)
    BY <2>1, <2>3, <2>5 DEF NoteJudged
  <2>7. v10 # <<>>
    BY <1>3, <2>4, <2>6
  <2>8. r = o
    BY <1>3, <2>7, RegisterKept
  <2>9. Score!NoteOctave(i, v7) = o
    BY <1>2, <2>4, <2>6, KeptOctave
  <2> HIDE DEF r
  <2> QED
    BY <2>3, <2>5, <2>6, <2>8, <2>9 DEF NoteJudged
<1> QED
  BY <1>6, <1>7, <1>8, <1>9 DEF Score!ScoringRight


(***************************************************************************)
(* The page: a behaviour is one part's, so its invariants are each part's. *)
(***************************************************************************)
MachineInv == (part = "devices" => DevInv) /\ (part = "backend" => BackendInv)

\* AudioDevices and LocalBackend (audio_devices.ts, local_backend.rs,
\* processes.rs): whatever is chosen, granted or lost in between, one
\* microphone at most is open, and it is the one chosen; and whenever
\* processes die, installs run or the app exits, there is one backend at most,
\* none while what it runs on is changed, none it doesn't know, and after the
\* app no process but the one that a first start asks where its ffmpeg is.
THEOREM MachineIsSafe == PageSpec => []MachineSafe
<1>1. PageInit => MachineInv
  <2> SUFFICES ASSUME PageInit PROVE MachineInv
    OBVIOUS
  <2>1. part = "devices" => Devs!DevInit
    BY DEF PageInit
  <2>2. part = "backend" => Backend!BackendInit
    BY DEF PageInit
  <2> QED
    BY <2>1, <2>2, DevInitHolds, BackendInitHolds DEF MachineInv
<1>2. MachineInv /\ [PageNext]_<<part, places>> => MachineInv'
  <2> SUFFICES ASSUME MachineInv, [PageNext]_<<part, places>> PROVE MachineInv'
    OBVIOUS
  <2>1. CASE PageNext
    <3>1. part' = part
      BY <2>1 DEF PageNext
    <3>2. part = "devices" => Devs!DevNext
      BY <2>1 DEF PageNext
    <3>3. part = "backend" => Backend!BackendNext
      BY <2>1 DEF PageNext
    <3> QED
      BY <3>1, <3>2, <3>3, DevNextKeeps, BackendNextKeeps DEF MachineInv
  <2>2. CASE UNCHANGED <<part, places>>
    <3>1. UNCHANGED <<v1, v2, v3, v4, v5, v6, v7, v8, v9, v11, v12>> /\ part' = part
      BY <2>2 DEF places
    <3>2. v11 \in {"off", "sleep", "wait"} \/ ~BackendInv
      BY BackendTypesOf
    <3> QED
      BY <3>1, <3>2, DevSame, BackendSame DEF MachineInv
  <2> QED
    BY <2>1, <2>2
<1>3. MachineInv => MachineSafe
  BY DevHolds, BackendHolds DEF MachineInv, MachineSafe
<1> QED
  BY <1>1, <1>2, <1>3, PTL DEF PageSpec

PagePrepareInv == part = "prepare" => PrepareInv

\* prepare_song.ts: whatever fails, in whatever order the requests are
\* answered, and whenever the song is dropped: only the audio can lose it,
\* every other failure is told, the stage shown is what goes on, lyrics are
\* searched for to the end, and no download is left at the backend.
THEOREM PrepareIsSafe == PageSpec => []PrepareSafe
<1>1. PageInit => PagePrepareInv
  <2> SUFFICES ASSUME PageInit, part = "prepare" PROVE PrepareInv
    BY DEF PagePrepareInv
  <2>1. Prepare!RInit
    BY DEF PageInit
  <2> QED
    BY <2>1, PrepareInitHolds
<1>2. PagePrepareInv /\ [PageNext]_<<part, places>> => PagePrepareInv'
  <2> SUFFICES ASSUME PagePrepareInv, [PageNext]_<<part, places>>, part' = "prepare" PROVE PrepareInv'
    BY DEF PagePrepareInv
  <2>1. CASE PageNext
    <3>1. part = "prepare" /\ Prepare!RNext
      BY <2>1 DEF PageNext
    <3> QED
      BY <3>1, PrepareNextKeeps DEF PagePrepareInv
  <2>2. CASE UNCHANGED <<part, places>>
    <3>1. UNCHANGED <<v1, v2, v3, v4, v5, v6, v7, v8, v9, v10, v11, v12>> /\ part = "prepare"
      BY <2>2 DEF places
    <3> QED
      BY <3>1, PrepareSame DEF PagePrepareInv
  <2> QED
    BY <2>1, <2>2
<1>3. PagePrepareInv => PrepareSafe
  BY PrepareHolds DEF PagePrepareInv, PrepareSafe
<1> QED
  BY <1>1, <1>2, <1>3, PTL DEF PageSpec

PageVideoInv == (part = "video" => VideoInv) /\ (part = "clock" => ClockInv)

\* video_presenter.ts, video_clock_follower.ts, skip_segments/: what
\* the song, the player's errors and late answers do to the two elements and
\* YouTube's player: what shows is the song's video, played as the engine is,
\* and the next one's waits; two seeks a jump are enough for a video whose seeks
\* aren't slower than its lead; the segments passed over are the song's.
THEOREM VideoIsSafe == PageSpec => []VideoSafe
<1>1. PageInit => PageVideoInv
  <2>1. PageInit /\ part = "video" => Video!BvInit
    BY DEF PageInit
  <2>2. PageInit /\ part = "clock" => Clock!FollowInit
    BY DEF PageInit
  <2> QED
    BY <2>1, <2>2, VideoInitHolds, ClockInitHolds DEF PageVideoInv
<1>2. PageVideoInv /\ [PageNext]_<<part, places>> => PageVideoInv'
  <2> SUFFICES ASSUME PageVideoInv, [PageNext]_<<part, places>>
               PROVE  (part' = "video" => VideoInv') /\ (part' = "clock" => ClockInv')
    BY DEF PageVideoInv
  <2>1. CASE PageNext
    <3>1. part' = part /\ (part = "video" => Video!BvNext) /\ (part = "clock" => Clock!FollowNext)
      BY <2>1 DEF PageNext
    <3> QED
      BY <3>1, VideoNextKeeps, ClockNextKeeps DEF PageVideoInv
  <2>2. CASE UNCHANGED <<part, places>>
    <3>1. /\ UNCHANGED <<v1, v2, v3, v4, v5, v6, v7, v8, v9, v10, v11, v12, v13, v14>>
          /\ UNCHANGED <<v1, v2, v3, v4, v5, v6, v7, v8, v9, v10, v11, v12, v13, v14, v15>>
          /\ part' = part
      BY <2>2 DEF places
    <3> QED
      BY <3>1, VideoSame, ClockSame DEF PageVideoInv
  <2> QED
    BY <2>1, <2>2
<1>3. PageVideoInv => VideoSafe
  BY VideoHolds, ClockHolds DEF PageVideoInv, VideoSafe
<1> QED
  BY <1>1, <1>2, <1>3, PTL DEF PageSpec
PageScoreInv == part = "score" => ScoreInv

\* Scoring, by whoever sings what of whatever notes, and however starts,
\* stops and failures fall: the microphone is the session's and is given back,
\* each note is judged once and in order, and whoever keeps to an octave isn't
\* marked down for it.
THEOREM ScoringIsSafe == PageSpec => []ScoringSafe
<1>1. PageInit => PageScoreInv
  <2>1. PageInit /\ part = "score" => Score!ScoreInit
    BY DEF PageInit
  <2> QED
    BY <2>1, ScoreInitHolds DEF PageScoreInv
<1>2. PageScoreInv /\ [PageNext]_<<part, places>> => PageScoreInv'
  <2> SUFFICES ASSUME PageScoreInv, [PageNext]_<<part, places>>, part' = "score"
               PROVE  ScoreInv'
    BY DEF PageScoreInv
  <2>1. CASE PageNext
    <3>1. part' = part /\ (part = "score" => Score!ScoreNext)
      BY <2>1 DEF PageNext
    <3> QED
      BY <3>1, ScoreNextKeeps DEF PageScoreInv
  <2>2. CASE UNCHANGED <<part, places>>
    <3>1. UNCHANGED <<v1, v2, v3, v4, v5, v6, v7, v8, v9, v10, v11, v12, v13, v14, v15>> /\ part' = part
      BY <2>2 DEF places
    <3> QED
      BY <3>1, ScoreSame DEF PageScoreInv
  <2> QED
    BY <2>1, <2>2
<1>3. PageScoreInv => ScoringSafe
  BY ScoreHolds DEF PageScoreInv, ScoringSafe
<1> QED
  BY <1>1, <1>2, <1>3, PTL DEF PageSpec

=============================================================================
