--------------------------- MODULE SequenceLemmas ---------------------------
(***************************************************************************)
(* What the sequence operators the modules are built from do to the set of  *)
(* elements of a sequence, and to a sequence without repetitions.           *)
(***************************************************************************)
EXTENDS Naturals, Sequences, SequencesExt, SequenceTheorems, WellFoundedInduction, TLAPS

\* The elements of a sequence are values of its type.
LEMMA ToSetType ==
  ASSUME NEW S, NEW s \in Seq(S)
  PROVE  ToSet(s) \subseteq S
BY DEF ToSet

\* Only the empty sequence has no element.
LEMMA ToSetEmpty ==
  ASSUME NEW S, NEW s \in Seq(S)
  PROVE  (s = <<>>) <=> (ToSet(s) = {})
<1>1. CASE s = <<>>
  BY <1>1 DEF ToSet
<1>2. CASE s # <<>>
  <2>1. 1 \in DOMAIN s
    BY <1>2, EmptySeq, LenProperties
  <2>2. s[1] \in ToSet(s)
    BY <2>1 DEF ToSet
  <2>3. QED
    BY <1>2, <2>2
<1>3. QED
  BY <1>1, <1>2

\* Appending adds one element, and keeps a sequence distinct if it is new.
LEMMA AppendElements ==
  ASSUME NEW S, NEW s \in Seq(S), NEW x \in S
  PROVE  /\ Append(s, x) \in Seq(S)
         /\ Append(s, x) # <<>>
         /\ ToSet(Append(s, x)) = ToSet(s) \cup {x}
         /\ IsInjective(s) /\ x \notin ToSet(s) => IsInjective(Append(s, x))
<1> DEFINE r == Append(s, x)
<1>1. /\ r \in Seq(S)
      /\ r # <<>>
      /\ Len(r) = Len(s) + 1
      /\ \A i \in 1..Len(s) : r[i] = s[i]
      /\ r[Len(s) + 1] = x
  BY AppendProperties
<1>2. Len(s) \in Nat /\ DOMAIN s = 1..Len(s) /\ DOMAIN r = 1..(Len(s) + 1)
  BY <1>1, LenProperties
<1>3. ToSet(r) = ToSet(s) \cup {x}
  BY <1>1, <1>2 DEF ToSet
<1>4. ASSUME IsInjective(s), x \notin ToSet(s)
      PROVE  IsInjective(r)
  <2>1. \A i \in 1..Len(s) : s[i] # x
    BY <1>2, <1>4 DEF ToSet
  <2>2. QED
    BY <1>1, <1>2, <1>4, <2>1 DEF IsInjective
<1>5. QED
  BY <1>1, <1>3, <1>4

\* Taking the head off leaves the other elements, distinct if they were.
LEMMA TailElements ==
  ASSUME NEW S, NEW s \in Seq(S), s # <<>>
  PROVE  /\ Head(s) \in S
         /\ Head(s) \in ToSet(s)
         /\ Tail(s) \in Seq(S)
         /\ ToSet(s) = {Head(s)} \cup ToSet(Tail(s))
         /\ IsInjective(s) => IsInjective(Tail(s)) /\ Head(s) \notin ToSet(Tail(s))
<1> DEFINE r == Tail(s)
<1>1. /\ Head(s) = s[1]
      /\ Head(s) \in S
      /\ r \in Seq(S)
      /\ Len(s) \in Nat \ {0}
      /\ DOMAIN s = 1..Len(s)
      /\ DOMAIN r = 1..(Len(s) - 1)
      /\ \A i \in 1..(Len(s) - 1) : r[i] = s[i + 1]
  BY HeadTailProperties, LenProperties, EmptySeq
<1>2. Head(s) \in ToSet(s)
  BY <1>1 DEF ToSet
<1>3. ToSet(s) = {Head(s)} \cup ToSet(r)
  <2>1. ASSUME NEW i \in 1..Len(s)
        PROVE  s[i] \in {Head(s)} \cup ToSet(r)
    <3>1. CASE i = 1
      BY <1>1, <3>1
    <3>2. CASE i # 1
      <4>1. i - 1 \in 1..(Len(s) - 1) /\ r[i - 1] = s[i]
        BY <1>1, <3>2
      <4>2. QED
        BY <1>1, <4>1 DEF ToSet
    <3>3. QED
      BY <3>1, <3>2
  <2>2. ASSUME NEW i \in 1..(Len(s) - 1)
        PROVE  r[i] \in ToSet(s)
    BY <1>1 DEF ToSet
  <2>3. QED
    BY <1>1, <1>2, <2>1, <2>2 DEF ToSet
<1>4. ASSUME IsInjective(s)
      PROVE  IsInjective(r) /\ Head(s) \notin ToSet(r)
  BY <1>1, <1>4 DEF IsInjective, ToSet
<1>5. QED
  BY <1>1, <1>2, <1>3, <1>4

\* Removing an element of a distinct sequence removes it and nothing else.
LEMMA RemoveFirstElements ==
  ASSUME NEW S, NEW s \in Seq(S), NEW x \in ToSet(s), IsInjective(s)
  PROVE  /\ RemoveFirst(s, x) \in Seq(S)
         /\ ToSet(RemoveFirst(s, x)) = ToSet(s) \ {x}
         /\ IsInjective(RemoveFirst(s, x))
         /\ Len(RemoveFirst(s, x)) = Len(s) - 1
         /\ \A k \in DOMAIN s : s[k] = x =>
              /\ RemoveFirst(s, x) = RemoveAt(s, k)
              /\ \A i \in 1..(Len(s) - 1) : RemoveFirst(s, x)[i] = IF i < k THEN s[i] ELSE s[i + 1]
<1>1. PICK k \in 1..Len(s) : s[k] = x
  BY LenProperties DEF ToSet
<1>2. /\ Len(s) \in Nat
      /\ DOMAIN s = 1..Len(s)
      /\ k \in 1..Len(s)
      /\ k \in Nat
      /\ k <= Len(s)
  BY LenProperties
<1>3. \A i \in 1..Len(s) : s[i] = x => i = k
  BY <1>1, <1>2 DEF IsInjective
<1> DEFINE r == SubSeq(s, 1, k - 1) \o SubSeq(s, k + 1, Len(s))
<1>4. RemoveFirst(s, x) = r
  <2>1. {i \in 1..Len(s) : s[i] = x} = {k}
    BY <1>1, <1>3
  <2>2. SelectInSeq(s, LAMBDA v : v = x) = k
    <3>1. Min({k}) = k
      BY <1>2 DEF Min
    <3>2. QED
      BY <2>1, <3>1 DEF SelectInSeq
  <2>3. QED
    BY <1>1, <2>2 DEF RemoveFirst, RemoveAt
<1>5. /\ r \in Seq(S)
      /\ Len(r) = Len(s) - 1
      /\ \A i \in 1..(Len(s) - 1) : r[i] = IF i < k THEN s[i] ELSE s[i + 1]
  <2> DEFINE a == SubSeq(s, 1, k - 1)
             b == SubSeq(s, k + 1, Len(s))
  <2>0. \A i \in 1..Len(s) : s[i] \in S
    BY ElementOfSeq
  <2>1. /\ a \in Seq(S)
        /\ Len(a) = k - 1
        /\ \A i \in 1..(k - 1) : a[i] = s[i]
    <3>1. /\ a \in Seq(S)
          /\ Len(a) = IF 1 <= k - 1 THEN k - 1 - 1 + 1 ELSE 0
          /\ \A i \in 1..(k - 1 - 1 + 1) : a[i] = s[1 + i - 1]
      BY <1>1, <1>2, <2>0, SubSeqProperties
    <3>2. QED
      BY <1>1, <1>2, <3>1
  <2>2. /\ b \in Seq(S)
        /\ Len(b) = Len(s) - k
        /\ \A i \in 1..(Len(s) - k) : b[i] = s[k + i]
    <3>1. /\ b \in Seq(S)
          /\ Len(b) = IF k + 1 <= Len(s) THEN Len(s) - (k + 1) + 1 ELSE 0
          /\ \A i \in 1..(Len(s) - (k + 1) + 1) : b[i] = s[k + 1 + i - 1]
      BY <1>1, <1>2, <2>0, SubSeqProperties
    <3> HIDE DEF a, b
    <3>2. Len(b) = Len(s) - k
      <4>1. Len(b) = IF k + 1 <= Len(s) THEN Len(s) - (k + 1) + 1 ELSE 0
        BY <3>1
      <4>2. CASE k + 1 <= Len(s)
        BY <1>2, <4>1, <4>2
      <4>3. CASE k = Len(s)
        BY <1>2, <4>1, <4>3
      <4>4. ASSUME NEW n \in Nat, NEW m \in Nat, m <= n
            PROVE  m + 1 <= n \/ m = n
        BY <4>4
      <4>5. k + 1 <= Len(s) \/ k = Len(s)
        BY <1>2, <4>4
      <4>6. QED
        BY <4>2, <4>3, <4>5
    <3>3. ASSUME NEW i \in 1..(Len(s) - k)
          PROVE  b[i] = s[k + i]
      <4>1. i \in 1..(Len(s) - (k + 1) + 1)
        BY <1>2, <3>3
      <4>3. b[i] = s[k + 1 + i - 1]
        BY <3>1, <4>1
      <4>2. k + 1 + i - 1 = k + i
        BY <1>2, <3>3
      <4>4. QED
        BY <4>2, <4>3
    <3>4. QED
      BY <3>1, <3>2, <3>3
  <2> HIDE DEF a, b
  <2>3. /\ a \o b \in Seq(S)
        /\ Len(a \o b) = Len(a) + Len(b)
        /\ \A i \in 1..(Len(a) + Len(b)) :
             (a \o b)[i] = IF i <= Len(a) THEN a[i] ELSE b[i - Len(a)]
    BY <2>1, <2>2, ConcatProperties
  <2>4. r = a \o b
    BY DEF a, b
  <2> HIDE DEF r
  <2>5. Len(r) = Len(s) - 1
    <3>1. Len(r) = (k - 1) + (Len(s) - k)
      BY <2>1, <2>2, <2>3, <2>4
    <3>2. QED
      BY <1>2, <3>1
  <2>6. ASSUME NEW i \in 1..(Len(s) - 1)
        PROVE  r[i] = IF i < k THEN s[i] ELSE s[i + 1]
    <3>1. CASE i < k
      BY <1>1, <1>2, <2>1, <2>2, <2>3, <2>4, <2>6, <3>1
    <3>2. CASE i >= k
      <4>1. r[i] = b[i - (k - 1)]
        BY <1>1, <1>2, <2>1, <2>2, <2>3, <2>4, <2>6, <3>2
      <4>2. i - (k - 1) \in 1..(Len(s) - k)
        BY <1>1, <1>2, <2>6, <3>2
      <4>3. b[i - (k - 1)] = s[k + (i - (k - 1))]
        BY <2>2, <4>2
      <4>4. k + (i - (k - 1)) = i + 1
        BY <1>2
      <4>5. QED
        BY <1>1, <1>2, <3>2, <4>1, <4>3, <4>4
    <3>3. QED
      BY <1>1, <1>2, <2>6, <3>1, <3>2
  <2>7. QED
    BY <2>3, <2>4, <2>5, <2>6
<1> HIDE DEF r
<1>6. DOMAIN r = 1..(Len(s) - 1)
  BY <1>1, <1>2, <1>5, LenProperties
<1>7. ToSet(r) = ToSet(s) \ {x}
  <2>1. ASSUME NEW i \in 1..(Len(s) - 1)
        PROVE  r[i] \in ToSet(s) \ {x}
    <3>1. CASE i < k
      <4>1. i \in 1..Len(s) /\ i # k /\ r[i] = s[i]
        BY <1>2, <1>5, <2>1, <3>1
      <4>2. s[i] # x
        BY <1>3, <4>1
      <4>3. QED
        BY <1>2, <4>1, <4>2 DEF ToSet
    <3>2. CASE i >= k
      <4>1. i + 1 \in 1..Len(s) /\ i + 1 # k /\ r[i] = s[i + 1]
        BY <1>1, <1>2, <1>5, <2>1, <3>2
      <4>2. s[i + 1] # x
        BY <1>3, <4>1
      <4>3. QED
        BY <1>2, <4>1, <4>2 DEF ToSet
    <3>3. QED
      BY <1>1, <1>2, <2>1, <3>1, <3>2
  <2>2. ASSUME NEW i \in 1..Len(s), s[i] # x
        PROVE  s[i] \in ToSet(r)
    <3>1. CASE i < k
      BY <1>1, <1>2, <1>5, <1>6, <3>1 DEF ToSet
    <3>2. CASE i > k
      <4>1. i - 1 \in 1..(Len(s) - 1) /\ r[i - 1] = s[i]
        BY <1>1, <1>2, <1>5, <3>2
      <4>2. QED
        BY <1>6, <4>1 DEF ToSet
    <3>3. QED
      BY <1>1, <1>2, <2>2, <3>1, <3>2
  <2>3. QED
    BY <1>1, <1>2, <1>6, <2>1, <2>2 DEF ToSet
<1>8. IsInjective(r)
  <2> DEFINE at(i) == IF i < k THEN i ELSE i + 1
  <2>1. ASSUME NEW i \in 1..(Len(s) - 1)
        PROVE  at(i) \in 1..Len(s) /\ r[i] = s[at(i)]
    BY <1>2, <1>5, <2>1
  <2>2. \A i, j \in 1..(Len(s) - 1) : at(i) = at(j) => i = j
    BY <1>1, <1>2
  <2> HIDE DEF at
  <2>3. QED
    BY <1>2, <1>6, <2>1, <2>2 DEF IsInjective
<1>9. ASSUME NEW j \in DOMAIN s, s[j] = x
      PROVE  /\ RemoveFirst(s, x) = RemoveAt(s, j)
             /\ \A i \in 1..(Len(s) - 1) : RemoveFirst(s, x)[i] = IF i < j THEN s[i] ELSE s[i + 1]
  <2>1. j = k
    BY <1>2, <1>3, <1>9
  <2>2. RemoveFirst(s, x) = RemoveAt(s, j)
    BY <1>4, <2>1 DEF RemoveAt, r
  <2>3. \A i \in 1..(Len(s) - 1) : RemoveFirst(s, x)[i] = IF i < j THEN s[i] ELSE s[i + 1]
    BY <1>4, <1>5, <2>1
  <2>4. QED
    BY <2>2, <2>3
<1>10. QED
  BY <1>4, <1>5, <1>7, <1>8, <1>9

\* Where the elements are after one is appended ...
LEMMA AppendAt ==
  ASSUME NEW S, NEW s \in Seq(S), NEW x \in S
  PROVE  /\ Append(s, x) \in Seq(S)
         /\ Len(s) \in Nat /\ DOMAIN s = 1..Len(s)
         /\ Len(Append(s, x)) = Len(s) + 1 /\ DOMAIN Append(s, x) = 1..(Len(s) + 1)
         /\ \A i \in 1..Len(s) : Append(s, x)[i] = s[i]
         /\ Append(s, x)[Len(s) + 1] = x
<1>1. /\ Append(s, x) \in Seq(S) /\ Len(Append(s, x)) = Len(s) + 1
      /\ \A i \in 1..Len(s) : Append(s, x)[i] = s[i]
      /\ Append(s, x)[Len(s) + 1] = x
  BY AppendProperties
<1>2. Len(s) \in Nat /\ DOMAIN s = 1..Len(s) /\ DOMAIN Append(s, x) = 1..Len(Append(s, x))
  BY <1>1, LenProperties
<1>3. QED
  BY <1>1, <1>2

\* ... and after the first is taken.
LEMMA TailAt ==
  ASSUME NEW S, NEW s \in Seq(S), s # <<>>
  PROVE  /\ Tail(s) \in Seq(S)
         /\ Len(s) \in Nat \ {0} /\ DOMAIN s = 1..Len(s)
         /\ Len(Tail(s)) = Len(s) - 1 /\ DOMAIN Tail(s) = 1..(Len(s) - 1)
         /\ \A i \in 1..(Len(s) - 1) : Tail(s)[i] = s[i + 1]
         /\ Head(s) = s[1] /\ Head(s) \in S
<1>1. Tail(s) \in Seq(S) /\ Len(Tail(s)) = Len(s) - 1 /\ \A i \in 1..Len(Tail(s)) : Tail(s)[i] = s[i + 1]
  BY HeadTailProperties
<1>2. Len(s) \in Nat \ {0} /\ DOMAIN s = 1..Len(s) /\ DOMAIN Tail(s) = 1..Len(Tail(s))
  BY <1>1, LenProperties, EmptySeq
<1>3. Head(s) = s[1] /\ Head(s) \in S
  BY HeadTailProperties
<1>4. QED
  BY <1>1, <1>2, <1>3

\* Removing an element that may not be there.
LEMMA RemoveElements ==
  ASSUME NEW S, NEW s \in Seq(S), NEW x, IsInjective(s)
  PROVE  /\ RemoveFirst(s, x) \in Seq(S)
         /\ ToSet(RemoveFirst(s, x)) = ToSet(s) \ {x}
         /\ IsInjective(RemoveFirst(s, x))
<1>1. CASE x \in ToSet(s)
  BY <1>1, RemoveFirstElements
<1>2. CASE x \notin ToSet(s)
  <2>1. ~ \E i \in 1..Len(s) : s[i] = x
    BY <1>2, LenProperties DEF ToSet
  <2>2. RemoveFirst(s, x) = s
    BY <2>1 DEF RemoveFirst
  <2>3. QED
    BY <1>2, <2>2
<1>3. QED
  BY <1>1, <1>2

\* Moving an element to the end, or adding it there, adds nothing else.
LEMMA MoveToEndElements ==
  ASSUME NEW S, NEW s \in Seq(S), NEW x \in S, IsInjective(s)
  PROVE  /\ Append(RemoveFirst(s, x), x) \in Seq(S)
         /\ ToSet(Append(RemoveFirst(s, x), x)) = ToSet(s) \cup {x}
         /\ IsInjective(Append(RemoveFirst(s, x), x))
<1>1. /\ RemoveFirst(s, x) \in Seq(S)
      /\ ToSet(RemoveFirst(s, x)) = ToSet(s) \ {x}
      /\ IsInjective(RemoveFirst(s, x))
  BY RemoveElements
<1>2. PICK r : r = RemoveFirst(s, x)
  OBVIOUS
<1>3. /\ Append(r, x) \in Seq(S)
      /\ ToSet(Append(r, x)) = ToSet(r) \cup {x}
      /\ IsInjective(Append(r, x))
  BY <1>1, <1>2, AppendElements
<1>4. QED
  BY <1>1, <1>2, <1>3

\* Inserting adds one element, and keeps a sequence distinct if it is new.
LEMMA InsertAtElements ==
  ASSUME NEW S, NEW s \in Seq(S), NEW i \in 1..(Len(s) + 1), NEW x \in S
  PROVE  /\ InsertAt(s, i, x) \in Seq(S)
         /\ ToSet(InsertAt(s, i, x)) = ToSet(s) \cup {x}
         /\ IsInjective(s) /\ x \notin ToSet(s) => IsInjective(InsertAt(s, i, x))
<1>1. Len(s) \in Nat /\ DOMAIN s = 1..Len(s) /\ \A k \in 1..Len(s) : s[k] \in S
  BY LenProperties, ElementOfSeq
<1> DEFINE a == SubSeq(s, 1, i - 1)
           b == SubSeq(s, i, Len(s))
<1>2. a \in Seq(S) /\ Len(a) = i - 1 /\ \A k \in 1..(i - 1) : a[k] = s[k]
  <2>1. /\ a \in Seq(S) /\ Len(a) = IF 1 <= i - 1 THEN i - 1 - 1 + 1 ELSE 0
        /\ \A k \in 1..(i - 1 - 1 + 1) : a[k] = s[1 + k - 1]
    BY <1>1, SubSeqProperties
  <2>2. QED
    BY <1>1, <2>1
<1>3. b \in Seq(S) /\ Len(b) = Len(s) - i + 1 /\ \A k \in 1..(Len(s) - i + 1) : b[k] = s[i + k - 1]
  <2>1. /\ b \in Seq(S) /\ Len(b) = IF i <= Len(s) THEN Len(s) - i + 1 ELSE 0
        /\ \A k \in 1..(Len(s) - i + 1) : b[k] = s[i + k - 1]
    BY <1>1, SubSeqProperties
  <2>2. QED
    BY <1>1, <2>1
<1> HIDE DEF a, b
<1>4. /\ a \o <<x>> \in Seq(S) /\ Len(a \o <<x>>) = i
      /\ \A k \in 1..i : (a \o <<x>>)[k] = IF k < i THEN s[k] ELSE x
  <2>1. <<x>> \in Seq(S) /\ Len(<<x>>) = 1 /\ <<x>>[1] = x
    OBVIOUS
  <2>2. /\ a \o <<x>> \in Seq(S) /\ Len(a \o <<x>>) = Len(a) + 1
        /\ \A k \in 1..(Len(a) + 1) : (a \o <<x>>)[k] = IF k <= Len(a) THEN a[k] ELSE <<x>>[k - Len(a)]
    BY <1>2, <2>1, ConcatProperties
  <2>3. QED
    BY <1>1, <1>2, <2>1, <2>2
<1>5. PICK c : c = a \o <<x>>
  OBVIOUS
<1>12. /\ c \in Seq(S) /\ Len(c) = i
       /\ \A k \in 1..i : c[k] = IF k < i THEN s[k] ELSE x
  BY <1>4, <1>5
<1>6. PICK r : r = InsertAt(s, i, x)
  OBVIOUS
<1>7. /\ r \in Seq(S) /\ Len(r) = Len(s) + 1
      /\ \A k \in 1..(Len(s) + 1) : r[k] = IF k < i THEN s[k] ELSE IF k = i THEN x ELSE s[k - 1]
  <2>1. r = c \o b
    BY <1>5, <1>6 DEF InsertAt, a, b
  <2>2. /\ r \in Seq(S) /\ Len(r) = Len(c) + Len(b)
        /\ \A k \in 1..(Len(c) + Len(b)) : r[k] = IF k <= Len(c) THEN c[k] ELSE b[k - Len(c)]
    BY <1>3, <1>12, <2>1, ConcatProperties
  <2>3. Len(c) + Len(b) = Len(s) + 1 /\ Len(c) = i
    BY <1>1, <1>3, <1>12
  <2>4. ASSUME NEW k \in 1..(Len(s) + 1), k > i
        PROVE  r[k] = s[k - 1]
    <3>1. r[k] = b[k - i] /\ k - i \in 1..(Len(s) - i + 1)
      BY <1>1, <2>2, <2>3, <2>4
    <3>2. b[k - i] = s[i + (k - i) - 1] /\ i + (k - i) - 1 = k - 1
      BY <1>1, <1>3, <3>1
    <3>3. QED
      BY <3>1, <3>2
  <2>5. ASSUME NEW k \in 1..(Len(s) + 1), k <= i
        PROVE  r[k] = IF k < i THEN s[k] ELSE x
    BY <1>1, <1>12, <2>2, <2>3, <2>5
  <2>6. QED
    BY <1>1, <2>2, <2>3, <2>4, <2>5
<1>8. DOMAIN r = 1..(Len(s) + 1)
  BY <1>7, LenProperties
<1>9. ToSet(r) = ToSet(s) \cup {x}
  <2>1. ASSUME NEW k \in 1..(Len(s) + 1)
        PROVE  r[k] \in ToSet(s) \cup {x}
    <3>0. k \in Int /\ i \in Int /\ 1 <= i /\ i <= Len(s) + 1
      BY <1>1
    <3>1. (k < i /\ k \in 1..Len(s)) \/ k = i \/ (k > i /\ k - 1 \in 1..Len(s))
      BY <1>1, <2>1, <3>0
    <3>2. \A l \in 1..Len(s) : s[l] \in ToSet(s)
      BY <1>1 DEF ToSet
    <3>3. r[k] = IF k < i THEN s[k] ELSE IF k = i THEN x ELSE s[k - 1]
      BY <1>7
    <3>4. CASE k < i /\ k \in 1..Len(s)
      BY <3>2, <3>3, <3>4
    <3>5. CASE k = i
      BY <3>0, <3>3, <3>5
    <3>6. CASE k > i /\ k - 1 \in 1..Len(s)
      BY <3>0, <3>2, <3>3, <3>6
    <3>7. QED
      BY <3>1, <3>4, <3>5, <3>6
  <2>2. x \in ToSet(r)
    BY <1>7, <1>8 DEF ToSet
  <2>3. ASSUME NEW k \in 1..Len(s)
        PROVE  s[k] \in ToSet(r)
    <3>1. CASE k < i
      BY <1>1, <1>7, <1>8, <3>1 DEF ToSet
    <3>2. CASE k >= i
      <4>1. k + 1 \in 1..(Len(s) + 1) /\ r[k + 1] = s[k]
        BY <1>1, <1>7, <3>2
      <4>2. QED
        BY <1>8, <4>1 DEF ToSet
    <3>3. QED
      BY <1>1, <3>1, <3>2
  <2>4. QED
    BY <1>1, <1>8, <2>1, <2>2, <2>3 DEF ToSet
<1>10. ASSUME IsInjective(s), x \notin ToSet(s)
       PROVE  IsInjective(r)
  <2>1. \A k \in 1..Len(s) : s[k] # x
    BY <1>1, <1>10 DEF ToSet
  <2>2. \A k, l \in 1..Len(s) : s[k] = s[l] => k = l
    BY <1>1, <1>10 DEF IsInjective
  <2>3. ASSUME NEW k \in 1..(Len(s) + 1), NEW l \in 1..(Len(s) + 1), r[k] = r[l]
        PROVE  k = l
    <3>1. k = i \/ (k < i /\ r[k] = s[k] /\ k \in 1..Len(s)) \/ (k > i /\ r[k] = s[k - 1] /\ k - 1 \in 1..Len(s))
      BY <1>1, <1>7
    <3>2. l = i \/ (l < i /\ r[l] = s[l] /\ l \in 1..Len(s)) \/ (l > i /\ r[l] = s[l - 1] /\ l - 1 \in 1..Len(s))
      BY <1>1, <1>7
    <3>3. r[i] = x
      BY <1>1, <1>7
    <3>4. QED
      BY <1>1, <2>1, <2>2, <2>3, <3>1, <3>2, <3>3
  <2>4. QED
    BY <1>8, <2>3 DEF IsInjective
<1>11. QED
  BY <1>6, <1>7, <1>9, <1>10

\* Moving an element to another place changes neither the elements nor their
\* being distinct.
LEMMA MoveElements ==
  ASSUME NEW S, NEW s \in Seq(S), IsInjective(s), NEW from \in DOMAIN s, NEW to \in DOMAIN s
  PROVE  /\ InsertAt(RemoveAt(s, from), to, s[from]) \in Seq(S)
         /\ ToSet(InsertAt(RemoveAt(s, from), to, s[from])) = ToSet(s)
         /\ IsInjective(InsertAt(RemoveAt(s, from), to, s[from]))
<1>1. DOMAIN s = 1..Len(s) /\ Len(s) \in Nat /\ s[from] \in ToSet(s) /\ s[from] \in S
  BY LenProperties, ElementOfSeq DEF ToSet
<1>2. PICK r : r = RemoveAt(s, from)
  OBVIOUS
<1>3. /\ r \in Seq(S) /\ ToSet(r) = ToSet(s) \ {s[from]} /\ IsInjective(r) /\ Len(r) = Len(s) - 1
  <2>1. PICK x : x = s[from]
    OBVIOUS
  <2>2. RemoveFirst(s, x) = r
    BY <1>1, <1>2, <2>1, RemoveFirstElements
  <2>3. QED
    BY <1>1, <2>1, <2>2, RemoveFirstElements
<1>4. to \in 1..(Len(r) + 1)
  BY <1>1, <1>3
<1>5. PICK x \in S : x = s[from]
  BY <1>1
<1>6. /\ InsertAt(r, to, x) \in Seq(S)
      /\ ToSet(InsertAt(r, to, x)) = ToSet(r) \cup {x}
      /\ IsInjective(r) /\ x \notin ToSet(r) => IsInjective(InsertAt(r, to, x))
  BY <1>3, <1>4, InsertAtElements
<1>7. QED
  BY <1>1, <1>2, <1>3, <1>5, <1>6

------------------------------------------------------------------------------
\* Of some numbers one is the least.
LEMMA LeastNumber ==
  ASSUME NEW T \in SUBSET Nat, T # {}
  PROVE  \E n \in T : \A m \in T : n <= m
<1> DEFINE R == {p \in Nat \X Nat : p[1] < p[2]}
<1>1. IsWellFoundedOn(R, Nat)
  BY NatLessThanWellFounded DEF OpToRel
<1> HIDE DEF R
<1>2. PICK n \in T : \A m \in T : ~ (<<m, n>> \in R)
  BY <1>1, WFMin
<1>3. ASSUME NEW m \in T
      PROVE  n <= m
  <2>1. ~ (m < n)
    BY <1>2, <1>3 DEF R
  <2>2. QED
    BY <2>1
<1>4. QED
  BY <1>3

\* A set of numbers with 0 and with each one's successor has them all.
LEMMA NaturalsFromZero ==
  ASSUME NEW T \in SUBSET Nat, 0 \in T, \A n \in T : n + 1 \in T
  PROVE  T = Nat
<1> DEFINE missing == Nat \ T
<1>1. ASSUME missing # {} PROVE FALSE
  <2>1. PICK n \in missing : \A m \in missing : n <= m
    BY <1>1, LeastNumber
  <2>2. n \in Nat /\ n # 0 /\ n - 1 \in Nat
    BY <2>1
  <2>3. n - 1 \in T
    BY <2>1, <2>2
  <2>4. (n - 1) + 1 \in T
    BY <2>3
  <2>5. QED
    BY <2>1, <2>2, <2>4
<1>2. QED
  BY <1>1

\* A set of sequences with the empty one, and with each one an element longer,
\* has them all: induction over sequences, for sets instead of predicates.
LEMMA SequencesFromEmpty ==
  ASSUME NEW S, NEW T \in SUBSET Seq(S), <<>> \in T,
         \A s \in T : \A x \in S : Append(s, x) \in T
  PROVE  T = Seq(S)
<1> DEFINE lengths == {n \in Nat : \A s \in Seq(S) : Len(s) = n => s \in T}
<1>1. 0 \in lengths
  <2>1. \A s \in Seq(S) : Len(s) = 0 => s = <<>>
    BY EmptySeq
  <2>2. QED
    BY <2>1
<1>2. ASSUME NEW n \in lengths PROVE n + 1 \in lengths
  <2>1. ASSUME NEW s \in Seq(S), Len(s) = n + 1 PROVE s \in T
    <3>1. s # <<>>
      BY <1>2, <2>1
    <3>2. PICK front \in Seq(S), x \in S : s = Append(front, x)
      BY <3>1, SequenceEmptyOrAppend
    <3>3. n \in Nat /\ Len(front) = n
      BY <2>1, <3>2, AppendAt
    <3>4. front \in T
      BY <1>2, <3>3
    <3>5. QED
      BY <3>2, <3>4
  <2>2. QED
    BY <2>1
<1>3. lengths = Nat
  <2> HIDE DEF lengths
  <2>1. lengths \in SUBSET Nat
    BY DEF lengths
  <2>2. QED
    BY <1>1, <1>2, <2>1, NaturalsFromZero
<1>4. ASSUME NEW s \in Seq(S) PROVE s \in T
  <2>1. Len(s) \in Nat
    BY LenProperties
  <2>2. QED
    BY <1>3, <2>1
<1>5. QED
  BY <1>4

\* An element appended to a sequence without repetitions was not in it.
LEMMA AppendInjects ==
  ASSUME NEW S, NEW s \in Seq(S), NEW x \in S, IsInjective(Append(s, x))
  PROVE  IsInjective(s) /\ x \notin ToSet(s)
<1> DEFINE n == Len(s)
           a == Append(s, x)
<1>1. /\ n \in Nat /\ DOMAIN s = 1 .. n /\ DOMAIN a = 1 .. (n + 1)
      /\ \A i \in 1 .. n : a[i] = s[i]
      /\ a[n + 1] = x
  BY AppendAt
<1> HIDE DEF n, a
<1>2. \A i, j \in DOMAIN a : a[i] = a[j] => i = j
  BY DEF IsInjective, a
<1>3. IsInjective(s)
  <2>1. ASSUME NEW i \in DOMAIN s, NEW j \in DOMAIN s, s[i] = s[j] PROVE i = j
    <3>1. i \in DOMAIN a /\ j \in DOMAIN a /\ a[i] = a[j]
      BY <1>1, <2>1
    <3>2. QED
      BY <1>2, <3>1
  <2>2. QED
    BY <2>1 DEF IsInjective
<1>4. ASSUME x \in ToSet(s) PROVE FALSE
  <2>1. PICK i \in DOMAIN s : s[i] = x
    BY <1>4 DEF ToSet
  <2>2. i \in DOMAIN a /\ n + 1 \in DOMAIN a /\ a[i] = a[n + 1] /\ i # n + 1
    BY <1>1, <2>1
  <2>3. QED
    BY <1>2, <2>2
<1>5. QED
  BY <1>3, <1>4

\* The head and the tail of a sequence something was appended to.
LEMMA TailOfAppend ==
  ASSUME NEW S, NEW s \in Seq(S), NEW x \in S
  PROVE  /\ s = <<>> => Head(Append(s, x)) = x /\ Tail(Append(s, x)) = <<>>
         /\ s # <<>> => Head(Append(s, x)) = Head(s) /\ Tail(Append(s, x)) = Append(Tail(s), x)
<1> DEFINE n == Len(s)
           a == Append(s, x)
<1>1. /\ n \in Nat /\ DOMAIN s = 1 .. n /\ DOMAIN a = 1 .. (n + 1)
      /\ a \in Seq(S) /\ Len(a) = n + 1 /\ a # <<>>
      /\ \A i \in 1 .. n : a[i] = s[i]
      /\ a[n + 1] = x
  BY AppendAt, AppendElements
<1>2. /\ Tail(a) \in Seq(S) /\ Len(Tail(a)) = n /\ Head(a) = a[1]
      /\ \A i \in 1 .. n : Tail(a)[i] = a[i + 1]
  <2> HIDE DEF a, n
  <2>1. /\ Tail(a) \in Seq(S) /\ Len(Tail(a)) = Len(a) - 1 /\ Head(a) = a[1]
        /\ \A i \in 1 .. (Len(a) - 1) : Tail(a)[i] = a[i + 1]
    BY <1>1, TailAt
  <2>2. QED
    BY <1>1, <2>1
<1>3. CASE s = <<>>
  <2>1. n = 0
    BY <1>3
  <2>2. Tail(a) = <<>>
    BY <1>2, <2>1, EmptySeq
  <2>3. QED
    BY <1>1, <1>2, <1>3, <2>1, <2>2
<1>4. CASE s # <<>>
  <2>1. /\ n \in Nat \ {0} /\ Tail(s) \in Seq(S) /\ Len(Tail(s)) = n - 1 /\ Head(s) = s[1]
        /\ \A i \in 1 .. (n - 1) : Tail(s)[i] = s[i + 1]
    BY <1>4, TailAt
  <2> DEFINE r == Tail(s)
             b == Append(r, x)
  <2>2. /\ b \in Seq(S) /\ Len(b) = Len(r) + 1
        /\ \A i \in 1 .. Len(r) : b[i] = r[i]
        /\ b[Len(r) + 1] = x
    <3> HIDE DEF r
    <3>1. r \in Seq(S)
      BY <2>1 DEF r
    <3>2. QED
      BY <3>1, AppendAt
  <2>3. /\ b \in Seq(S) /\ Len(b) = n
        /\ \A i \in 1 .. (n - 1) : b[i] = s[i + 1]
        /\ b[n] = x
    BY <2>1, <2>2
  <2> HIDE DEF a, n, b, r
  <2>4. \A i \in 1 .. n : Tail(a)[i] = b[i]
    <3>1. \A i \in 1 .. (n - 1) : Tail(a)[i] = b[i]
      <4>1. ASSUME NEW i \in 1 .. (n - 1) PROVE Tail(a)[i] = b[i]
        <5>1. i \in 1 .. n /\ i + 1 \in 1 .. n
          BY <2>1, <4>1
        <5>2. QED
          BY <1>1, <1>2, <2>3, <5>1
      <4>2. QED
        BY <4>1
    <3>2. Tail(a)[n] = b[n]
      BY <1>1, <1>2, <2>1, <2>3
    <3>3. ASSUME NEW i \in 1 .. n PROVE Tail(a)[i] = b[i]
      <4>1. i = n \/ i \in 1 .. (n - 1)
        BY <2>1
      <4>2. QED
        BY <3>1, <3>2, <4>1
    <3>4. QED
      BY <3>3
  <2>5. Tail(a) = b
    BY <1>2, <2>3, <2>4, SeqEqual
  <2>6. Head(a) = Head(s)
    BY <1>1, <1>2, <2>1
  <2>7. QED
    BY <1>4, <2>5, <2>6 DEF a, b, r
<1>5. QED
  BY <1>3, <1>4

\* Removing the element appended undoes it; removing another is removing it before.
LEMMA RemoveFromAppend ==
  ASSUME NEW S, NEW s \in Seq(S), NEW x \in S, IsInjective(s), x \notin ToSet(s)
  PROVE  /\ RemoveFirst(Append(s, x), x) = s
         /\ \A t \in ToSet(s) : RemoveFirst(Append(s, x), t) = Append(RemoveFirst(s, t), x)
<1> DEFINE n == Len(s)
           a == Append(s, x)
<1>1. /\ n \in Nat /\ DOMAIN s = 1 .. n /\ DOMAIN a = 1 .. (n + 1)
      /\ a \in Seq(S) /\ Len(a) = n + 1 /\ ToSet(a) = ToSet(s) \cup {x} /\ IsInjective(a)
      /\ \A i \in 1 .. n : a[i] = s[i]
      /\ a[n + 1] = x
  BY AppendAt, AppendElements
<1> HIDE DEF n, a
<1>2. ASSUME NEW t \in ToSet(a), NEW k \in 1 .. (n + 1), a[k] = t
      PROVE  /\ RemoveFirst(a, t) \in Seq(S) /\ Len(RemoveFirst(a, t)) = n
             /\ \A i \in 1 .. n : RemoveFirst(a, t)[i] = IF i < k THEN a[i] ELSE a[i + 1]
  <2>1. /\ RemoveFirst(a, t) \in Seq(S) /\ Len(RemoveFirst(a, t)) = Len(a) - 1
        /\ \A i \in 1..(Len(a) - 1) : RemoveFirst(a, t)[i] = IF i < k THEN a[i] ELSE a[i + 1]
    BY <1>1, <1>2, RemoveFirstElements
  <2>2. Len(a) - 1 = n
    BY <1>1
  <2>3. QED
    BY <2>1, <2>2
<1>3. RemoveFirst(a, x) = s
  <2>1. /\ RemoveFirst(a, x) \in Seq(S) /\ Len(RemoveFirst(a, x)) = n
        /\ \A i \in 1 .. n : RemoveFirst(a, x)[i] = IF i < n + 1 THEN a[i] ELSE a[i + 1]
    BY <1>1, <1>2
  <2>2. \A i \in 1 .. n : RemoveFirst(a, x)[i] = s[i]
    BY <1>1, <2>1
  <2>3. QED
    BY <2>1, <2>2, SeqEqual DEF n
<1>4. ASSUME NEW t \in ToSet(s) PROVE RemoveFirst(a, t) = Append(RemoveFirst(s, t), x)
  <2>1. PICK k \in 1 .. n : s[k] = t
    BY <1>1 DEF ToSet
  <2>2. t \in ToSet(a) /\ k \in 1 .. (n + 1) /\ a[k] = t /\ n - 1 \in Nat
    BY <1>1, <2>1
  <2> DEFINE q == RemoveFirst(a, t)
             r == RemoveFirst(s, t)
             b == Append(r, x)
  <2>3. /\ q \in Seq(S) /\ Len(q) = n
        /\ \A i \in 1 .. n : q[i] = IF i < k THEN a[i] ELSE a[i + 1]
    BY <1>2, <2>2
  <2>4. /\ r \in Seq(S) /\ Len(r) = n - 1
        /\ \A i \in 1..(n - 1) : r[i] = IF i < k THEN s[i] ELSE s[i + 1]
    BY <1>1, <2>1, RemoveFirstElements DEF n
  <2>5. /\ b \in Seq(S) /\ Len(b) = Len(r) + 1
        /\ \A i \in 1 .. Len(r) : b[i] = r[i]
        /\ b[Len(r) + 1] = x
    <3> HIDE DEF r
    <3>1. QED
      BY <2>4, AppendAt
  <2> HIDE DEF q, r, b
  <2>6. /\ Len(b) = n /\ b[n] = x
        /\ \A i \in 1 .. (n - 1) : b[i] = r[i]
    BY <1>1, <2>4, <2>5
  <2>7. \A i \in 1 .. (n - 1) : q[i] = b[i]
    <3>1. ASSUME NEW i \in 1 .. (n - 1) PROVE q[i] = b[i]
      <4>1. i \in 1 .. n /\ i + 1 \in 1 .. n
        BY <1>1, <3>1
      <4>2. a[i] = s[i] /\ a[i + 1] = s[i + 1]
        BY <1>1, <4>1
      <4>3. QED
        BY <2>3, <2>4, <2>6, <4>1, <4>2
    <3>2. QED
      BY <3>1
  <2>8. q[n] = b[n]
    <3>1. n \in 1 .. n /\ ~ (n < k /\ n # k) /\ (n < k => FALSE)
      BY <1>1, <2>1
    <3>2. q[n] = a[n + 1]
      BY <2>3, <3>1
    <3>3. QED
      BY <1>1, <2>6, <3>2
  <2>9. \A i \in 1 .. n : q[i] = b[i]
    BY <1>1, <2>7, <2>8
  <2>10. q = b
    BY <2>3, <2>5, <2>6, <2>9, SeqEqual
  <2>11. QED
    BY <2>10 DEF q, r, b
<1>5. QED
  BY <1>3, <1>4 DEF a
=============================================================================
