--------------------------- MODULE SequenceLemmas ---------------------------
(***************************************************************************)
(* Facts about natural numbers and sequences that the proofs share: the    *)
(* least-number principle and induction, stated for sets; the orderings of *)
(* a finite set; what becomes of the elements of a sequence that is        *)
(* appended to, or that an element is taken out of; what Selected keeps of *)
(* a sequence; functions applied to all its elements; and sums over finite *)
(* sets.                                                                   *)
(***************************************************************************)
EXTENDS Selection, SequencesExt, Integers, FiniteSetTheorems, FunctionTheorems,
        SequenceTheorems, TLAPS

-----------------------------------------------------------------------------
(***************************************************************************)
(* Natural numbers.                                                        *)
(***************************************************************************)

\* A set of natural numbers that has an element has a least one.
LEMMA LeastNatural ==
    ASSUME NEW S \in SUBSET Nat, S # {}
    PROVE  \E m \in S : \A n \in S : m <= n
<1> DEFINE R == OpToRel(<, Nat)
<1>1. IsWellFoundedOn(R, Nat)
    BY NatLessThanWellFounded
<1>2. \A i, j \in Nat : i < j => <<i, j>> \in R
    BY DEF OpToRel
<1> HIDE DEF R
<1>3. PICK m \in S : \A n \in S : ~(<<n, m>> \in R)
    BY <1>1, WFMin
<1>4. \A n \in S : ~(n < m)
    BY <1>2, <1>3, Zenon
<1> QED
    BY <1>4

\* And a greatest one, if it has a bound.
LEMMA GreatestNatural ==
    ASSUME NEW S \in SUBSET Nat, S # {}, NEW b \in Nat, \A n \in S : n <= b
    PROVE  \E m \in S : \A n \in S : n <= m
<1> DEFINE T == {d \in Nat : b - d \in S}
<1>1. T \in SUBSET Nat /\ T # {}
    <2>1. PICK n \in S : TRUE
        OBVIOUS
    <2>2. b - n \in Nat /\ b - (b - n) = n
        BY <2>1
    <2> QED
        BY <2>1, <2>2
<1>2. PICK d \in T : \A c \in T : d <= c
    <2> HIDE DEF T
    <2> QED
        BY <1>1, LeastNatural
<1>3. ASSUME NEW n \in S
      PROVE  n <= b - d
    <2>1. b - n \in T
        <3>1. b - n \in Nat /\ b - (b - n) = n
            OBVIOUS
        <3> QED
            BY <3>1
    <2> QED
        BY <1>2, <2>1
<1> QED
    BY <1>2, <1>3

\* A set that has 0 and, with a number, the next, has them all.
LEMMA Induction ==
    ASSUME NEW S, 0 \in S, \A n \in Nat : n \in S => n + 1 \in S
    PROVE  Nat \subseteq S
<1> DEFINE T == Nat \ S
<1>1. SUFFICES ASSUME T # {} PROVE FALSE
    OBVIOUS
<1>2. PICK m \in T : \A n \in T : m <= n
    BY <1>1, LeastNatural
<1>3. m - 1 \in Nat /\ m - 1 \notin T
    BY <1>2
<1> QED
    BY <1>3

-----------------------------------------------------------------------------
(***************************************************************************)
(* Sequences.                                                              *)
(***************************************************************************)

\* An ordering of a finite set has each of its elements exactly once.
LEMMA Orderings ==
    ASSUME NEW S, IsFiniteSet(S), NEW f \in SetToSeqs(S)
    PROVE  /\ DOMAIN f = 1 .. Len(f) /\ Len(f) \in Nat /\ f \in Seq(S)
           /\ \A x \in S : \E i \in DOMAIN f : f[i] = x
           /\ \A i, j \in DOMAIN f : f[i] = f[j] => i = j
<1> DEFINE D == 1 .. Cardinality(S)
<1>1. Cardinality(S) \in Nat
    BY FS_CardinalityType
<1>2. f \in [D -> S] /\ \A i, j \in D : i # j => f[i] # f[j]
    BY DEF SetToSeqs
<1>3. IsFiniteSet(D) /\ Cardinality(D) = Cardinality(S)
    BY <1>1, FS_Interval
<1>4. f \in Injection(D, S)
    BY <1>2 DEF Injection, IsInjective
<1>5. f \in Surjection(D, S)
    BY <1>3, <1>4, FS_Injection
<1>6. \A x \in S : \E i \in D : f[i] = x
    BY <1>5 DEF Surjection
<1>7. f \in Seq(S) /\ Len(f) = Cardinality(S)
    BY <1>1, <1>2
<1> QED
    BY <1>1, <1>2, <1>6, <1>7

\* A sequence without its i-th element.
LEMMA ElementRemoved ==
    ASSUME NEW S, NEW s \in Seq(S), NEW i \in 1 .. Len(s)
    PROVE  /\ RemoveAt(s, i) \in Seq(S)
           /\ Len(RemoveAt(s, i)) = Len(s) - 1
           /\ \A n \in 1 .. (Len(s) - 1) :
                 RemoveAt(s, i)[n] = IF n < i THEN s[n] ELSE s[n + 1]
<1> DEFINE a == SubSeq(s, 1, i - 1)
           b == SubSeq(s, i + 1, Len(s))
<1>1. Len(s) \in Nat /\ i \in Nat /\ DOMAIN s = 1 .. Len(s)
    OBVIOUS
<1>2. /\ a \in Seq(S) /\ Len(a) = i - 1
      /\ \A n \in 1 .. (i - 1) : a[n] = s[n]
    <2>1. \A n \in 1 .. (i - 1) : s[n] \in S
        BY <1>1
    <2> QED
        BY <1>1, <2>1, SubSeqProperties
<1>3. /\ b \in Seq(S) /\ Len(b) = Len(s) - i
      /\ \A n \in 1 .. (Len(s) - i) : b[n] = s[i + n]
    <2>1. \A n \in (i + 1) .. Len(s) : s[n] \in S
        BY <1>1
    <2>2. i + 1 \in Int /\ Len(s) \in Int
        BY <1>1
    <2>3. /\ b \in Seq(S) /\ Len(b) = IF i + 1 <= Len(s) THEN Len(s) - (i + 1) + 1 ELSE 0
          /\ \A n \in 1 .. (Len(s) - (i + 1) + 1) : b[n] = s[(i + 1) + n - 1]
        BY <2>1, <2>2, SubSeqProperties
    <2>4. Len(s) - (i + 1) + 1 = Len(s) - i /\ \A n \in Nat : (i + 1) + n - 1 = i + n
        BY <1>1
    <2>5. \A n \in 1 .. (Len(s) - i) : b[n] = s[i + n]
        BY <1>1, <2>3, <2>4
    <2>6. Len(b) = Len(s) - i
        <3>1. \A l, j \in Nat : j <= l => (IF j + 1 <= l THEN l - (j + 1) + 1 ELSE 0) = l - j
            OBVIOUS
        <3>2. i <= Len(s)
            BY <1>1
        <3> HIDE DEF b
        <3>3. (IF i + 1 <= Len(s) THEN Len(s) - (i + 1) + 1 ELSE 0) = Len(s) - i
            BY <1>1, <3>1, <3>2, Zenon
        <3> QED
            BY <2>3, <3>3
    <2> QED
        BY <2>3, <2>5, <2>6
<1> HIDE DEF a, b
<1>4. /\ a \o b \in Seq(S) /\ Len(a \o b) = Len(s) - 1
      /\ \A n \in 1 .. (Len(s) - 1) :
            (a \o b)[n] = IF n <= i - 1 THEN a[n] ELSE b[n - (i - 1)]
    <2>1. Len(a) + Len(b) = Len(s) - 1
        BY <1>1, <1>2, <1>3
    <2>2. /\ a \o b \in Seq(S) /\ Len(a \o b) = Len(a) + Len(b)
          /\ \A n \in 1 .. (Len(a) + Len(b)) :
                (a \o b)[n] = IF n <= Len(a) THEN a[n] ELSE b[n - Len(a)]
        BY <1>2, <1>3, ConcatProperties
    <2> QED
        BY <1>2, <2>1, <2>2
<1>5. ASSUME NEW n \in 1 .. (Len(s) - 1)
      PROVE  (a \o b)[n] = IF n < i THEN s[n] ELSE s[n + 1]
    <2>1. CASE n < i
        BY <1>1, <1>2, <1>4, <2>1
    <2>2. CASE ~(n < i)
        <3>1. n - (i - 1) \in 1 .. (Len(s) - i) /\ i + (n - (i - 1)) = n + 1
            BY <1>1, <2>2
        <3> QED
            BY <1>1, <1>3, <1>4, <2>2, <3>1
    <2> QED
        BY <2>1, <2>2
<1> QED
    BY <1>4, <1>5 DEF RemoveAt, a, b
-----------------------------------------------------------------------------
(***************************************************************************)
(* Selected.                                                               *)
(***************************************************************************)

\* The recursive function that Selected applies: what is selected of the last
\* n elements.
Selecting(s, S, f) ==
    f = [n \in 0 .. Len(s) |->
            IF n = 0 THEN <<>>
            ELSE LET x == s[Len(s) - n + 1]
                 IN  IF x \in S THEN <<x>> \o f[n - 1] ELSE f[n - 1]]

\* There is such a function: it is extended from the last n elements to one
\* more.
LEMMA SelectingExists ==
    ASSUME NEW E, NEW s \in Seq(E), NEW S
    PROVE  \E f : Selecting(s, S, f) /\ Selected(s, S) = f[Len(s)]
<1> DEFINE Step(n, rest) == LET x == s[Len(s) - n + 1]
                            IN  IF x \in S THEN <<x>> \o rest ELSE rest
           Upto(m, f) == f = [n \in 0 .. m |-> IF n = 0 THEN <<>> ELSE Step(n, f[n - 1])]
           Has == {m \in Nat : \E f : Upto(m, f)}
<1> HIDE DEF Step
<1>1. 0 \in Has
    <2> DEFINE f == [n \in 0 .. 0 |-> <<>>]
    <2>1. f = [n \in 0 .. 0 |-> IF n = 0 THEN <<>> ELSE Step(n, f[n - 1])]
        OBVIOUS
    <2> QED
        BY <2>1
<1>2. ASSUME NEW m \in Nat, m \in Has
      PROVE  m + 1 \in Has
    <2>1. PICK f : f = [n \in 0 .. m |-> IF n = 0 THEN <<>> ELSE Step(n, f[n - 1])]
        BY <1>2
    <2> DEFINE g == [n \in 0 .. (m + 1) |-> IF n = m + 1 THEN Step(m + 1, f[m]) ELSE f[n]]
    <2>2. ASSUME NEW n \in 0 .. (m + 1)
          PROVE  g[n] = IF n = 0 THEN <<>> ELSE Step(n, g[n - 1])
        <3>1. CASE n = 0
            BY <2>1, <3>1
        <3>2. CASE n = m + 1
            <4>1. n - 1 = m /\ m \in 0 .. (m + 1) /\ m # m + 1 /\ n # 0
                BY <3>2
            <4>2. g[m] = f[m] /\ g[n] = Step(m + 1, f[m])
                BY <3>2, <4>1
            <4> QED
                BY <3>2, <4>1, <4>2
        <3>3. CASE n # 0 /\ n # m + 1
            <4>1. n \in 0 .. m /\ n - 1 \in 0 .. m /\ n - 1 \in 0 .. (m + 1) /\ n - 1 # m + 1
                BY <3>3
            <4>2. g[n] = f[n] /\ g[n - 1] = f[n - 1]
                BY <3>3, <4>1
            <4>3. f[n] = Step(n, f[n - 1])
                BY <2>1, <3>3, <4>1
            <4> QED
                BY <3>3, <4>2, <4>3
        <3> QED
            BY <3>1, <3>2, <3>3
    <2>3. g = [n \in 0 .. (m + 1) |-> IF n = 0 THEN <<>> ELSE Step(n, g[n - 1])]
        BY <2>2
    <2> HIDE DEF g
    <2> QED
        BY <2>3
<1>3. Nat \subseteq Has
    <2> HIDE DEF Has
    <2> QED
        BY <1>1, <1>2, Induction
<1>4. Len(s) \in Has
    BY <1>3
<1>5. PICK f : Upto(Len(s), f)
    BY <1>4
<1>6. \E g : Selecting(s, S, g)
    BY <1>5 DEF Selecting, Step
<1>7. Selecting(s, S, CHOOSE g : Selecting(s, S, g))
    BY <1>6
<1>8. Selected(s, S) = (CHOOSE g : Selecting(s, S, g))[Len(s)]
    BY DEF Selected, Selecting
<1> QED
    BY <1>7, <1>8

\* Selected by the first element and the rest.
LEMMA SelectedUnfolds ==
    ASSUME NEW E, NEW s \in Seq(E), NEW S
    PROVE  Selected(s, S) = IF s = <<>> THEN <<>>
                            ELSE IF Head(s) \in S THEN <<Head(s)>> \o Selected(Tail(s), S)
                            ELSE Selected(Tail(s), S)
<1>1. PICK f : Selecting(s, S, f) /\ Selected(s, S) = f[Len(s)]
    BY SelectingExists
<1>2. CASE s = <<>>
    BY <1>1, <1>2 DEF Selecting
<1>3. CASE s # <<>>
    <2> DEFINE t == Tail(s)
    <2>1. t \in Seq(E) /\ Len(t) \in Nat /\ Len(t) = Len(s) - 1 /\ Head(s) = s[1]
        BY <1>3
    <2>2. \A n \in 1 .. Len(t) : t[Len(t) - n + 1] = s[Len(s) - n + 1]
        BY <1>3, <2>1
    <2>3. PICK g : Selecting(t, S, g) /\ Selected(t, S) = g[Len(t)]
        BY <2>1, SelectingExists
    <2> HIDE DEF t
    <2> DEFINE Agree == {n \in Nat : n <= Len(t) => g[n] = f[n]}
    <2>4. 0 \in Agree
        BY <1>1, <2>1, <2>3 DEF Selecting
    <2>5. ASSUME NEW n \in Nat, n \in Agree
          PROVE  n + 1 \in Agree
        <3>1. SUFFICES ASSUME n + 1 <= Len(t) PROVE g[n + 1] = f[n + 1]
            OBVIOUS
        <3>2. n + 1 \in 1 .. Len(t) /\ n + 1 \in 0 .. Len(t) /\ n + 1 \in 0 .. Len(s)
              /\ (n + 1) - 1 = n /\ n <= Len(t) /\ n + 1 # 0
            BY <2>1, <3>1
        <3>3. g[n] = f[n]
            BY <2>5, <3>2
        <3>4. t[Len(t) - (n + 1) + 1] = s[Len(s) - (n + 1) + 1]
            BY <2>2, <3>2
        <3>5. g[n + 1] = LET x == t[Len(t) - (n + 1) + 1]
                         IN  IF x \in S THEN <<x>> \o g[n] ELSE g[n]
            BY <2>3, <3>2 DEF Selecting
        <3>6. f[n + 1] = LET x == s[Len(s) - (n + 1) + 1]
                         IN  IF x \in S THEN <<x>> \o f[n] ELSE f[n]
            BY <1>1, <3>2 DEF Selecting
        <3> QED
            BY <3>3, <3>4, <3>5, <3>6
    <2>6. Nat \subseteq Agree
        <3> HIDE DEF Agree
        <3> QED
            BY <2>4, <2>5, Induction
    <2>7. g[Len(t)] = f[Len(s) - 1]
        BY <2>1, <2>6
    <2>8. Len(s) \in 0 .. Len(s) /\ Len(s) # 0 /\ Len(s) - Len(s) + 1 = 1
        BY <2>1
    <2>9. f[Len(s)] = LET x == s[Len(s) - Len(s) + 1]
                      IN  IF x \in S THEN <<x>> \o f[Len(s) - 1] ELSE f[Len(s) - 1]
        BY <1>1, <2>8 DEF Selecting
    <2> QED
        BY <1>1, <1>3, <2>1, <2>3, <2>7, <2>8, <2>9 DEF t
<1> QED
    BY <1>2, <1>3

\* What is selected are elements of the sequence and of the set.
LEMMA SelectedIn ==
    ASSUME NEW E, NEW s \in Seq(E), NEW S
    PROVE  Selected(s, S) \in Seq(E \cap S)
<1> DEFINE Good == {n \in Nat : \A t \in Seq(E) : Len(t) = n => Selected(t, S) \in Seq(E \cap S)}
<1>1. 0 \in Good
    <2>1. SUFFICES ASSUME NEW t \in Seq(E), Len(t) = 0
                   PROVE  Selected(t, S) \in Seq(E \cap S)
        OBVIOUS
    <2>2. t = <<>> /\ <<>> \in Seq(E \cap S)
        BY <2>1
    <2>3. Selected(t, S) = <<>>
        BY <2>2, SelectedUnfolds
    <2> QED
        BY <2>2, <2>3
<1>2. ASSUME NEW n \in Nat, n \in Good
      PROVE  n + 1 \in Good
    <2>1. SUFFICES ASSUME NEW t \in Seq(E), Len(t) = n + 1
                   PROVE  Selected(t, S) \in Seq(E \cap S)
        OBVIOUS
    <2>2. t # <<>> /\ Tail(t) \in Seq(E) /\ Len(Tail(t)) = n /\ Head(t) \in E
        BY <2>1
    <2>3. Selected(Tail(t), S) \in Seq(E \cap S)
        BY <1>2, <2>2
    <2>4. Selected(t, S) = IF Head(t) \in S THEN <<Head(t)>> \o Selected(Tail(t), S)
                           ELSE Selected(Tail(t), S)
        BY <2>2, SelectedUnfolds
    <2>5. Head(t) \in S => <<Head(t)>> \in Seq(E \cap S)
        BY <2>2
    <2> QED
        BY <2>3, <2>4, <2>5, ConcatProperties
<1>3. Nat \subseteq Good
    <2> HIDE DEF Good
    <2> QED
        BY <1>1, <1>2, Induction
<1> QED
    BY <1>3

\* In which order two sets are selected by does not matter.
LEMMA SelectedTwice ==
    ASSUME NEW E, NEW s \in Seq(E), NEW S, NEW T
    PROVE  Selected(Selected(s, S), T) = Selected(Selected(s, T), S)
<1> DEFINE Same(t) == Selected(Selected(t, S), T) = Selected(Selected(t, T), S)
           Good == {n \in Nat : \A t \in Seq(E) : Len(t) = n => Same(t)}
<1>1. 0 \in Good
    <2>1. Selected(<<>>, S) = <<>> /\ Selected(<<>>, T) = <<>>
        <3>1. <<>> \in Seq(E)
            OBVIOUS
        <3> QED
            BY <3>1, SelectedUnfolds
    <2>2. \A t \in Seq(E) : Len(t) = 0 => t = <<>>
        OBVIOUS
    <2> QED
        BY <2>1, <2>2
<1>2. ASSUME NEW n \in Nat, n \in Good
      PROVE  n + 1 \in Good
    <2>1. SUFFICES ASSUME NEW t \in Seq(E), Len(t) = n + 1
                   PROVE  Same(t)
        OBVIOUS
    <2> DEFINE h == Head(t)
               u == Tail(t)
    <2>2. t # <<>> /\ u \in Seq(E) /\ Len(u) = n /\ h \in E
        BY <2>1
    <2>3. Same(u)
        BY <1>2, <2>2
    <2>4. \A U : Selected(t, U) = IF h \in U THEN <<h>> \o Selected(u, U) ELSE Selected(u, U)
        BY <2>2, SelectedUnfolds
    <2>5. \A r \in Seq(E) : \A U :
            Selected(<<h>> \o r, U) = IF h \in U THEN <<h>> \o Selected(r, U) ELSE Selected(r, U)
        <3>1. SUFFICES ASSUME NEW r \in Seq(E), NEW U
                       PROVE  Selected(<<h>> \o r, U) =
                                IF h \in U THEN <<h>> \o Selected(r, U) ELSE Selected(r, U)
            OBVIOUS
        <3>2. <<h>> \o r \in Seq(E) /\ <<h>> \o r # <<>> /\ Head(<<h>> \o r) = h /\ Tail(<<h>> \o r) = r
            BY <2>2, <3>1
        <3> QED
            BY <3>2, SelectedUnfolds
    <2>6. \A U : Selected(u, U) \in Seq(E)
        <3>1. SUFFICES ASSUME NEW U PROVE Selected(u, U) \in Seq(E)
            OBVIOUS
        <3>2. Selected(u, U) \in Seq(E \cap U)
            BY <2>2, SelectedIn
        <3> QED
            BY <3>2
    <2> HIDE DEF h, u
    <2>7. Selected(Selected(t, S), T) =
            IF h \in S /\ h \in T THEN <<h>> \o Selected(Selected(u, S), T)
            ELSE Selected(Selected(u, S), T)
        <3>1. CASE h \in S
            <4>1. Selected(u, S) \in Seq(E) /\ Selected(t, S) = <<h>> \o Selected(u, S)
                BY <2>4, <2>6, <3>1
            <4>2. Selected(<<h>> \o Selected(u, S), T) =
                    IF h \in T THEN <<h>> \o Selected(Selected(u, S), T)
                    ELSE Selected(Selected(u, S), T)
                BY <2>5, <4>1
            <4> QED
                BY <3>1, <4>1, <4>2
        <3>2. CASE h \notin S
            BY <2>4, <3>2
        <3> QED
            BY <3>1, <3>2
    <2>8. Selected(Selected(t, T), S) =
            IF h \in S /\ h \in T THEN <<h>> \o Selected(Selected(u, T), S)
            ELSE Selected(Selected(u, T), S)
        <3>1. CASE h \in T
            <4>1. Selected(u, T) \in Seq(E) /\ Selected(t, T) = <<h>> \o Selected(u, T)
                BY <2>4, <2>6, <3>1
            <4>2. Selected(<<h>> \o Selected(u, T), S) =
                    IF h \in S THEN <<h>> \o Selected(Selected(u, T), S)
                    ELSE Selected(Selected(u, T), S)
                BY <2>5, <4>1
            <4> QED
                BY <3>1, <4>1, <4>2
        <3>2. CASE h \notin T
            BY <2>4, <3>2
        <3> QED
            BY <3>1, <3>2
    <2> QED
        BY <2>3, <2>7, <2>8
<1>3. Nat \subseteq Good
    <2> HIDE DEF Good
    <2> QED
        BY <1>1, <1>2, Induction
<1> QED
    BY <1>3

\* Selecting from a sequence that has no element twice gives another such.
LEMMA SelectedOnce ==
    ASSUME NEW E, NEW s \in Seq(E), NEW S, \A j, k \in DOMAIN s : s[j] = s[k] => j = k
    PROVE  \A j, k \in DOMAIN Selected(s, S) : Selected(s, S)[j] = Selected(s, S)[k] => j = k
<1> DEFINE Once(t) == \A j, k \in 1 .. Len(t) : t[j] = t[k] => j = k
           Good == {n \in Nat : \A D : \A t \in Seq(D) : Len(t) = n /\ Once(t) => Once(Selected(t, S))}
<1>1. 0 \in Good
    <2>1. SUFFICES ASSUME NEW D, NEW t \in Seq(D), Len(t) = 0
                   PROVE  Once(Selected(t, S))
        OBVIOUS
    <2>2. t = <<>>
        BY <2>1
    <2>3. Selected(t, S) = <<>>
        BY <2>2, SelectedUnfolds
    <2> QED
        BY <2>3
<1>2. ASSUME NEW n \in Nat, n \in Good
      PROVE  n + 1 \in Good
    <2>1. SUFFICES ASSUME NEW D, NEW t \in Seq(D), Len(t) = n + 1, Once(t)
                   PROVE  Once(Selected(t, S))
        OBVIOUS
    <2> DEFINE h == Head(t)
               u == Tail(t)
               C == D \ {h}
    <2>2. t # <<>> /\ u \in Seq(D) /\ Len(u) = n /\ h = t[1] /\ \A k \in 1 .. Len(u) : u[k] = t[k + 1]
        BY <2>1
    <2>3. \A k \in 1 .. Len(u) : k + 1 \in 1 .. Len(t) /\ k + 1 # 1 /\ 1 \in 1 .. Len(t)
        BY <2>1, <2>2
    <2>4. \A k \in 1 .. Len(u) : u[k] \in C
        <3>1. SUFFICES ASSUME NEW k \in 1 .. Len(u) PROVE u[k] \in C
            OBVIOUS
        <3>2. u[k] \in D /\ u[k] = t[k + 1] /\ t[k + 1] # t[1]
            BY <2>1, <2>2, <2>3
        <3> QED
            BY <2>2, <3>2
    <2>5. Once(u)
        <3>1. SUFFICES ASSUME NEW j \in 1 .. Len(u), NEW k \in 1 .. Len(u), u[j] = u[k]
                       PROVE  j = k
            OBVIOUS
        <3>2. t[j + 1] = t[k + 1] /\ j + 1 \in 1 .. Len(t) /\ k + 1 \in 1 .. Len(t)
            BY <2>2, <2>3, <3>1
        <3>3. j + 1 = k + 1
            BY <2>1, <3>2
        <3> QED
            BY <3>3
    <2>6. u \in Seq(C)
        <3> HIDE DEF u, C
        <3>1. u = [k \in 1 .. Len(u) |-> u[k]] /\ Len(u) \in Nat
            BY <2>2
        <3> QED
            BY <2>4, <3>1
    <2>7. Once(Selected(u, S))
        BY <1>2, <2>2, <2>5
    <2>8. Selected(u, S) \in Seq(C)
        <3>1. Selected(u, S) \in Seq(C \cap S)
            BY <2>6, SelectedIn
        <3> QED
            BY <3>1
    <2>9. Selected(t, S) = IF h \in S THEN <<h>> \o Selected(u, S) ELSE Selected(u, S)
        BY <2>1, <2>2, SelectedUnfolds
    <2> DEFINE r == Selected(u, S)
    <2>10. h \notin C /\ h \in D
        BY <2>1, <2>2
    <2> HIDE DEF h, u, r, C
    <2>11. ASSUME NEW j \in 1 .. Len(<<h>> \o r), NEW k \in 1 .. Len(<<h>> \o r),
                  (<<h>> \o r)[j] = (<<h>> \o r)[k]
           PROVE  j = k
        <3>1. r \in Seq(C) /\ Len(r) \in Nat /\ Len(<<h>> \o r) = Len(r) + 1
            BY <2>8 DEF r
        <3>2. \A m \in 1 .. (Len(r) + 1) :
                (<<h>> \o r)[m] = (IF m = 1 THEN h ELSE r[m - 1]) /\ (m # 1 => m - 1 \in 1 .. Len(r))
            BY <3>1
        <3>3. \A m \in 1 .. Len(r) : r[m] \in C
            BY <3>1
        <3>4. CASE j = 1 \/ k = 1
            BY <2>10, <2>11, <3>1, <3>2, <3>3, <3>4
        <3>5. CASE j # 1 /\ k # 1
            <4>1. r[j - 1] = r[k - 1] /\ j - 1 \in 1 .. Len(r) /\ k - 1 \in 1 .. Len(r)
                BY <2>11, <3>1, <3>2, <3>5
            <4>2. j - 1 = k - 1
                BY <2>7, <4>1 DEF r
            <4> QED
                BY <3>1, <4>2
        <3> QED
            BY <3>4, <3>5
    <2> QED
        BY <2>7, <2>9, <2>11 DEF r
<1>3. Nat \subseteq Good
    <2> HIDE DEF Good
    <2> QED
        BY <1>1, <1>2, Induction
<1>4. Selected(s, S) \in Seq(E \cap S)
    BY SelectedIn
<1>5. Len(s) \in Good /\ Once(s) /\ DOMAIN Selected(s, S) = 1 .. Len(Selected(s, S))
    BY <1>3, <1>4
<1> QED
    BY <1>5

\* Induction over sequences, by their first elements.
LEMMA SeqInduction ==
    ASSUME NEW E, NEW G, <<>> \in G,
           \A h \in E : \A r \in Seq(E) : r \in G => <<h>> \o r \in G
    PROVE  Seq(E) \subseteq G
<1> DEFINE Good == {n \in Nat : \A t \in Seq(E) : Len(t) = n => t \in G}
<1>1. 0 \in Good
    <2>1. \A t \in Seq(E) : Len(t) = 0 => t = <<>>
        OBVIOUS
    <2> QED
        BY <2>1
<1>2. ASSUME NEW n \in Nat, n \in Good
      PROVE  n + 1 \in Good
    <2>1. SUFFICES ASSUME NEW t \in Seq(E), Len(t) = n + 1
                   PROVE  t \in G
        OBVIOUS
    <2>2. /\ Tail(t) \in Seq(E) /\ Len(Tail(t)) = n /\ Head(t) \in E
          /\ t = <<Head(t)>> \o Tail(t)
        BY <2>1
    <2> QED
        BY <1>2, <2>2
<1>3. Nat \subseteq Good
    <2> HIDE DEF Good
    <2> QED
        BY <1>1, <1>2, Induction
<1> QED
    BY <1>3

\* Selected from no elements, and from one more element in front.
LEMMA SelectedEmpty == \A S : Selected(<<>>, S) = <<>>
<1>1. SUFFICES ASSUME NEW S PROVE Selected(<<>>, S) = <<>>
    OBVIOUS
<1>2. <<>> \in Seq({})
    OBVIOUS
<1> QED
    BY <1>2, SelectedUnfolds

LEMMA SelectedPush ==
    ASSUME NEW E, NEW h \in E, NEW r \in Seq(E)
    PROVE  \A S : Selected(<<h>> \o r, S) = IF h \in S THEN <<h>> \o Selected(r, S) ELSE Selected(r, S)
<1>1. SUFFICES ASSUME NEW S
               PROVE  Selected(<<h>> \o r, S) = IF h \in S THEN <<h>> \o Selected(r, S) ELSE Selected(r, S)
    OBVIOUS
<1> DEFINE t == <<h>> \o r
<1>2. t \in Seq(E) /\ t # <<>> /\ Head(t) = h /\ Tail(t) = r
    OBVIOUS
<1> HIDE DEF t
<1>3. Selected(t, S) = IF Head(t) \in S THEN <<Head(t)>> \o Selected(Tail(t), S) ELSE Selected(Tail(t), S)
    BY <1>2, SelectedUnfolds
<1> QED
    BY <1>2, <1>3 DEF t

\* What is selected are elements of the set of which the sequence is.
LEMMA SelectedType ==
    ASSUME NEW E, NEW s \in Seq(E), NEW S
    PROVE  Selected(s, S) \in Seq(E)
<1>1. Selected(s, S) \in Seq(E \cap S)
    BY SelectedIn
<1> QED
    BY <1>1

\* Only the elements of the sequence matter of the set.
LEMMA SelectedSame ==
    ASSUME NEW E, NEW s \in Seq(E), NEW S, NEW T, \A i \in DOMAIN s : s[i] \in S <=> s[i] \in T
    PROVE  Selected(s, S) = Selected(s, T)
<1> DEFINE D == {e \in E : e \in S <=> e \in T}
           G == {t \in Seq(D) : Selected(t, S) = Selected(t, T)}
<1>1. <<>> \in G
    <2>1. <<>> \in Seq(D)
        OBVIOUS
    <2> QED
        BY <2>1, SelectedEmpty
<1>2. ASSUME NEW h \in D, NEW r \in Seq(D), r \in G
      PROVE  <<h>> \o r \in G
    <2>1. <<h>> \o r \in Seq(D)
        OBVIOUS
    <2>2. \A U : Selected(<<h>> \o r, U) = IF h \in U THEN <<h>> \o Selected(r, U) ELSE Selected(r, U)
        <3> HIDE DEF D
        <3> QED
            BY SelectedPush
    <2> QED
        BY <1>2, <2>1, <2>2
<1>3. s \in Seq(D)
    <2>1. s = [i \in 1 .. Len(s) |-> s[i]] /\ Len(s) \in Nat /\ \A i \in 1 .. Len(s) : s[i] \in D
        OBVIOUS
    <2> HIDE DEF D
    <2> QED
        BY <2>1
<1> HIDE DEF D, G
<1>4. s \in G
    BY <1>1, <1>2, <1>3, SeqInduction
<1> QED
    BY <1>4 DEF G

\* All or nothing.
LEMMA SelectedAll ==
    ASSUME NEW E, NEW s \in Seq(E), NEW S, \A i \in DOMAIN s : s[i] \in S
    PROVE  Selected(s, S) = s
<1> DEFINE G == {t \in Seq(E) : Selected(t, E) = t}
<1>1. <<>> \in G
    <2>1. <<>> \in Seq(E)
        OBVIOUS
    <2> QED
        BY <2>1, SelectedEmpty
<1>2. ASSUME NEW h \in E, NEW r \in Seq(E), r \in G
      PROVE  <<h>> \o r \in G
    <2>1. <<h>> \o r \in Seq(E)
        OBVIOUS
    <2>2. \A U : Selected(<<h>> \o r, U) = IF h \in U THEN <<h>> \o Selected(r, U) ELSE Selected(r, U)
        BY SelectedPush
    <2>3. Selected(<<h>> \o r, E) = <<h>> \o Selected(r, E)
        BY <2>2
    <2> QED
        BY <1>2, <2>1, <2>3
<1> HIDE DEF G
<1>3. s \in G
    BY <1>1, <1>2, SeqInduction
<1>4. \A i \in DOMAIN s : s[i] \in E
    OBVIOUS
<1>5. Selected(s, S) = Selected(s, E)
    BY <1>4, SelectedSame
<1> QED
    BY <1>3, <1>5 DEF G

LEMMA SelectedNone ==
    ASSUME NEW E, NEW s \in Seq(E)
    PROVE  Selected(s, {}) = <<>>
<1>1. Selected(s, {}) \in Seq(E \cap {})
    BY SelectedIn
<1>2. \A t \in Seq(E \cap {}) : t = <<>>
    <2>1. ASSUME NEW t \in Seq(E \cap {}), t # <<>>
          PROVE  FALSE
        <3>1. Head(t) \in E \cap {}
            BY <2>1
        <3> QED
            BY <3>1
    <2> QED
        BY <2>1
<1> QED
    BY <1>1, <1>2

\* To select from two sequences is to select from each.
LEMMA SelectedConcat ==
    ASSUME NEW E, NEW s \in Seq(E), NEW t \in Seq(E), NEW S
    PROVE  Selected(s \o t, S) = Selected(s, S) \o Selected(t, S)
<1> DEFINE G == {u \in Seq(E) : Selected(u \o t, S) = Selected(u, S) \o Selected(t, S)}
<1>0. Selected(t, S) \in Seq(E)
    BY SelectedType
<1>1. <<>> \in G
    <2>1. <<>> \o t = t /\ <<>> \in Seq(E)
        OBVIOUS
    <2>2. Selected(<<>>, S) = <<>>
        BY SelectedEmpty
    <2> QED
        BY <1>0, <2>1, <2>2
<1>2. ASSUME NEW h \in E, NEW r \in Seq(E), r \in G
      PROVE  <<h>> \o r \in G
    <2>1. /\ <<h>> \o r \in Seq(E) /\ r \o t \in Seq(E)
          /\ (<<h>> \o r) \o t = <<h>> \o (r \o t)
        BY <1>2
    <2>2. Selected(r, S) \in Seq(E)
        BY SelectedType
    <2>3. Selected(<<h>> \o (r \o t), S) = IF h \in S THEN <<h>> \o Selected(r \o t, S) ELSE Selected(r \o t, S)
        <3> DEFINE u == r \o t
        <3>1. u \in Seq(E)
            BY <2>1
        <3> HIDE DEF u
        <3>2. Selected(<<h>> \o u, S) = IF h \in S THEN <<h>> \o Selected(u, S) ELSE Selected(u, S)
            BY <3>1, SelectedPush
        <3> QED
            BY <3>2 DEF u
    <2>4. Selected(<<h>> \o r, S) = IF h \in S THEN <<h>> \o Selected(r, S) ELSE Selected(r, S)
        BY SelectedPush
    <2>5. (<<h>> \o Selected(r, S)) \o Selected(t, S) = <<h>> \o (Selected(r, S) \o Selected(t, S))
        BY <1>0, <2>2
    <2> QED
        BY <1>2, <2>1, <2>3, <2>4, <2>5
<1> HIDE DEF G
<1>3. s \in G
    BY <1>1, <1>2, SeqInduction
<1> QED
    BY <1>3 DEF G

\* To select twice is to select by both sets.
LEMMA SelectedBoth ==
    ASSUME NEW E, NEW s \in Seq(E), NEW S, NEW T
    PROVE  Selected(Selected(s, S), T) = Selected(s, S \cap T)
<1> DEFINE G == {u \in Seq(E) : Selected(Selected(u, S), T) = Selected(u, S \cap T)}
<1>1. <<>> \in G
    <2>1. <<>> \in Seq(E)
        OBVIOUS
    <2> QED
        BY <2>1, SelectedEmpty
<1>2. ASSUME NEW h \in E, NEW r \in Seq(E), r \in G
      PROVE  <<h>> \o r \in G
    <2>1. <<h>> \o r \in Seq(E) /\ Selected(r, S) \in Seq(E)
        BY SelectedType
    <2>2. Selected(<<h>> \o r, S) = IF h \in S THEN <<h>> \o Selected(r, S) ELSE Selected(r, S)
        BY SelectedPush
    <2>3. Selected(<<h>> \o r, S \cap T) =
            IF h \in S /\ h \in T THEN <<h>> \o Selected(r, S \cap T) ELSE Selected(r, S \cap T)
        <3>1. Selected(<<h>> \o r, S \cap T) =
                IF h \in S \cap T THEN <<h>> \o Selected(r, S \cap T) ELSE Selected(r, S \cap T)
            BY SelectedPush
        <3> QED
            BY <3>1
    <2>4. Selected(<<h>> \o Selected(r, S), T) =
            IF h \in T THEN <<h>> \o Selected(Selected(r, S), T) ELSE Selected(Selected(r, S), T)
        BY <2>1, SelectedPush
    <2>5. Selected(Selected(r, S), T) = Selected(r, S \cap T)
        BY <1>2
    <2>6. Selected(Selected(<<h>> \o r, S), T) = Selected(<<h>> \o r, S \cap T)
        <3>1. CASE h \in S
            <4>1. Selected(Selected(<<h>> \o r, S), T) = Selected(<<h>> \o Selected(r, S), T)
                BY <2>2, <3>1
            <4> QED
                BY <2>3, <2>4, <2>5, <3>1, <4>1
        <3>2. CASE h \notin S
            BY <2>2, <2>3, <2>5, <3>2
        <3> QED
            BY <3>1, <3>2
    <2> QED
        BY <2>1, <2>6
<1> HIDE DEF G
<1>3. s \in G
    BY <1>1, <1>2, SeqInduction
<1> QED
    BY <1>3 DEF G

\* What is selected is what is in both.
LEMMA SelectedElements ==
    ASSUME NEW E, NEW s \in Seq(E), NEW S
    PROVE  ToSet(Selected(s, S)) = ToSet(s) \cap S
<1> DEFINE G == {u \in Seq(E) : ToSet(Selected(u, S)) = ToSet(u) \cap S}
<1>0. ToSet(<<>>) = {}
    BY DEF ToSet
<1>1. <<>> \in G
    <2>1. <<>> \in Seq(E)
        OBVIOUS
    <2> QED
        BY <1>0, <2>1, SelectedEmpty
<1>2. ASSUME NEW h \in E, NEW r \in Seq(E), r \in G
      PROVE  <<h>> \o r \in G
    <2>1. <<h>> \o r \in Seq(E)
        OBVIOUS
    <2>2. Selected(<<h>> \o r, S) = IF h \in S THEN <<h>> \o Selected(r, S) ELSE Selected(r, S)
        BY SelectedPush
    <2>3. ASSUME NEW u \in Seq(E)
          PROVE  ToSet(<<h>> \o u) = {h} \cup ToSet(u)
        <3> DEFINE t == <<h>> \o u
        <3>1. /\ Len(u) \in Nat /\ DOMAIN u = 1 .. Len(u) /\ DOMAIN t = 1 .. (Len(u) + 1)
              /\ \A i \in 1 .. (Len(u) + 1) : t[i] = IF i = 1 THEN h ELSE u[i - 1]
            BY <2>3
        <3> HIDE DEF t
        <3>2. ToSet(t) \subseteq {h} \cup ToSet(u)
            <4>1. ASSUME NEW i \in DOMAIN t
                  PROVE  t[i] \in {h} \cup ToSet(u)
                <5>1. i = 1 \/ i - 1 \in 1 .. Len(u)
                    BY <3>1
                <5> QED
                    BY <3>1, <5>1 DEF ToSet
            <4> QED
                BY <4>1 DEF ToSet
        <3>3. {h} \cup ToSet(u) \subseteq ToSet(t)
            <4>1. 1 \in DOMAIN t /\ t[1] = h
                BY <3>1
            <4>2. ASSUME NEW i \in DOMAIN u
                  PROVE  i + 1 \in DOMAIN t /\ t[i + 1] = u[i]
                BY <3>1
            <4> QED
                BY <4>1, <4>2 DEF ToSet
        <3> QED
            BY <3>2, <3>3 DEF t
    <2>4. Selected(r, S) \in Seq(E)
        BY SelectedType
    <2>5. ToSet(Selected(r, S)) = ToSet(r) \cap S
        BY <1>2
    <2> QED
        BY <2>1, <2>2, <2>3, <2>4, <2>5
<1> HIDE DEF G
<1>3. s \in G
    BY <1>1, <1>2, SeqInduction
<1> QED
    BY <1>3 DEF G

\* A function applied to every element of a sequence.
Mapped(f, s) == [i \in DOMAIN s |-> f[s[i]]]

LEMMA MappedEmpty == \A f : Mapped(f, <<>>) = <<>>
<1>1. SUFFICES ASSUME NEW f PROVE Mapped(f, <<>>) = <<>>
    OBVIOUS
<1>2. DOMAIN <<>> = {} /\ Mapped(f, <<>>) = [i \in {} |-> f[<<>>[i]]]
    BY DEF Mapped
<1> QED
    BY <1>2

LEMMA MappedType ==
    ASSUME NEW E, NEW F, NEW f \in [E -> F], NEW s \in Seq(E)
    PROVE  Mapped(f, s) \in Seq(F)
BY DEF Mapped

LEMMA MappedLen ==
    ASSUME NEW E, NEW s \in Seq(E), NEW f
    PROVE  DOMAIN Mapped(f, s) = DOMAIN s /\ Len(Mapped(f, s)) = Len(s)
BY DEF Mapped

LEMMA MappedConcat ==
    ASSUME NEW E, NEW s \in Seq(E), NEW t \in Seq(E), NEW f
    PROVE  Mapped(f, s \o t) = Mapped(f, s) \o Mapped(f, t)
<1>1. /\ s \o t \in Seq(E) /\ Len(s \o t) = Len(s) + Len(t) /\ Len(s) \in Nat /\ Len(t) \in Nat
      /\ \A i \in 1 .. (Len(s) + Len(t)) :
            (s \o t)[i] = IF i <= Len(s) THEN s[i] ELSE t[i - Len(s)]
    OBVIOUS
<1> DEFINE F == {f[e] : e \in E}
           a == Mapped(f, s)
           b == Mapped(f, t)
           c == Mapped(f, s \o t)
<1>2. /\ a \in Seq(F) /\ b \in Seq(F) /\ c \in Seq(F)
      /\ Len(a) = Len(s) /\ Len(b) = Len(t) /\ Len(c) = Len(s) + Len(t)
    <2>1. \A u \in Seq(E) : Mapped(f, u) \in Seq(F) /\ Len(Mapped(f, u)) = Len(u)
        <3>1. SUFFICES ASSUME NEW u \in Seq(E)
                       PROVE  Mapped(f, u) \in Seq(F) /\ Len(Mapped(f, u)) = Len(u)
            OBVIOUS
        <3>2. \A i \in 1 .. Len(u) : f[u[i]] \in F
            BY <3>1
        <3> HIDE DEF F
        <3> QED
            BY <3>2 DEF Mapped
    <2> HIDE DEF F
    <2> QED
        BY <1>1, <2>1
<1>3. /\ \A i \in 1 .. Len(s) : a[i] = f[s[i]]
      /\ \A i \in 1 .. Len(t) : b[i] = f[t[i]]
      /\ \A i \in 1 .. (Len(s) + Len(t)) : c[i] = f[(s \o t)[i]]
    BY <1>1 DEF Mapped
<1> HIDE DEF F, a, b, c
<1>4. a \o b \in Seq(F) /\ Len(a \o b) = Len(s) + Len(t)
      /\ \A i \in 1 .. (Len(s) + Len(t)) :
            (a \o b)[i] = IF i <= Len(s) THEN a[i] ELSE b[i - Len(s)]
    <2>1. a \in Seq(F) /\ b \in Seq(F)
        BY <1>2
    <2>2. /\ a \o b \in Seq(F) /\ Len(a \o b) = Len(a) + Len(b)
          /\ \A i \in 1 .. (Len(a) + Len(b)) :
                (a \o b)[i] = IF i <= Len(a) THEN a[i] ELSE b[i - Len(a)]
        BY <2>1, ConcatProperties
    <2> QED
        BY <1>2, <2>2
<1>5. ASSUME NEW i \in 1 .. (Len(s) + Len(t))
      PROVE  c[i] = (a \o b)[i]
    <2>1. CASE i <= Len(s)
        <3>1. i \in 1 .. Len(s)
            BY <1>1, <2>1
        <3>2. (s \o t)[i] = s[i] /\ (a \o b)[i] = a[i]
            BY <1>1, <1>4, <2>1
        <3> QED
            BY <1>3, <3>1, <3>2
    <2>2. CASE ~(i <= Len(s))
        <3>1. i - Len(s) \in 1 .. Len(t)
            BY <1>1, <2>2
        <3> QED
            BY <1>1, <1>3, <1>4, <2>2, <3>1
    <2> QED
        BY <2>1, <2>2
<1>6. c = a \o b
    <2> DEFINE d == a \o b
               N == Len(s) + Len(t)
    <2>1. c \in Seq(F) /\ Len(c) = N /\ d \in Seq(F) /\ Len(d) = N /\ \A i \in 1 .. N : c[i] = d[i]
        BY <1>2, <1>4, <1>5
    <2> HIDE DEF d, N
    <2>2. c = [i \in 1 .. N |-> c[i]] /\ d = [i \in 1 .. N |-> d[i]]
        BY <2>1
    <2>3. c = d
        BY <2>1, <2>2
    <2> QED
        BY <2>3 DEF d
<1> QED
    BY <1>6 DEF a, b, c

\* To apply a function before selecting is to do so afterwards.
LEMMA SelectedMapped ==
    ASSUME NEW E, NEW F, NEW f \in [E -> F], NEW s \in Seq(E), NEW S
    PROVE  Selected(Mapped(f, s), S) = Mapped(f, Selected(s, {e \in E : f[e] \in S}))
<1> DEFINE T == {e \in E : f[e] \in S}
           G == {u \in Seq(E) : Selected(Mapped(f, u), S) = Mapped(f, Selected(u, T))}
<1>1. <<>> \in G
    <2>1. <<>> \in Seq(E)
        OBVIOUS
    <2> QED
        BY <2>1, SelectedEmpty, MappedEmpty
<1>2. ASSUME NEW h \in E, NEW r \in Seq(E), r \in G
      PROVE  <<h>> \o r \in G
    <2>1. /\ <<h>> \in Seq(E) /\ <<h>> \o r \in Seq(E) /\ f[h] \in F
          /\ Mapped(f, r) \in Seq(F) /\ Mapped(f, <<h>> \o r) = Mapped(f, <<h>>) \o Mapped(f, r)
        <3>1. <<h>> \in Seq(E) /\ <<h>> \o r \in Seq(E) /\ f[h] \in F
            BY <1>2
        <3>2. Mapped(f, r) \in Seq(F)
            BY MappedType
        <3>3. Mapped(f, <<h>> \o r) = Mapped(f, <<h>>) \o Mapped(f, r)
            <4> DEFINE one == <<h>>
            <4>1. one \in Seq(E)
                BY <3>1
            <4> HIDE DEF one
            <4>2. Mapped(f, one \o r) = Mapped(f, one) \o Mapped(f, r)
                BY <4>1, MappedConcat
            <4> QED
                BY <4>2 DEF one
        <3> QED
            BY <3>1, <3>2, <3>3
    <2>2. Mapped(f, <<h>>) = <<f[h]>>
        BY DEF Mapped
    <2>3. Selected(r, T) \in Seq(E)
        BY SelectedType
    <2>4. Mapped(f, <<h>> \o Selected(r, T)) = <<f[h]>> \o Mapped(f, Selected(r, T))
        <3> DEFINE one == <<h>>
                   u == Selected(r, T)
        <3>1. one \in Seq(E) /\ u \in Seq(E)
            BY <2>1, <2>3
        <3> HIDE DEF one, u
        <3>2. Mapped(f, one \o u) = Mapped(f, one) \o Mapped(f, u)
            BY <3>1, MappedConcat
        <3> QED
            BY <2>2, <3>2 DEF one, u
    <2>5. Selected(<<f[h]>> \o Mapped(f, r), S) =
            IF f[h] \in S THEN <<f[h]>> \o Selected(Mapped(f, r), S) ELSE Selected(Mapped(f, r), S)
        BY <2>1, SelectedPush
    <2>6. Selected(<<h>> \o r, T) = IF h \in T THEN <<h>> \o Selected(r, T) ELSE Selected(r, T)
        BY SelectedPush
    <2>7. h \in T <=> f[h] \in S
        OBVIOUS
    <2>8. r \in G => Selected(Mapped(f, r), S) = Mapped(f, Selected(r, T))
        OBVIOUS
    <2>9. Selected(Mapped(f, <<h>> \o r), S) = Mapped(f, Selected(<<h>> \o r, T))
        <3> HIDE DEF T, G
        <3> QED
            BY <1>2, <2>1, <2>2, <2>4, <2>5, <2>6, <2>7, <2>8
    <2> QED
        BY <2>1, <2>9
<1> HIDE DEF G
<1>3. s \in G
    BY <1>1, <1>2, SeqInduction
<1> QED
    BY <1>3 DEF G

-----------------------------------------------------------------------------
(***************************************************************************)
(* Sums over finite sets.                                                  *)
(***************************************************************************)

\* A family of subsets of a finite set that has each of them whose proper subsets
\* it has, has them all.
LEMMA SubsetInduction ==
    ASSUME NEW S, IsFiniteSet(S), NEW G,
           \A s \in SUBSET S : (\A t \in SUBSET s : t # s => t \in G) => s \in G
    PROVE  SUBSET S \subseteq G
<1> DEFINE Good == {n \in Nat : \A s \in SUBSET S : Cardinality(s) < n => s \in G}
<1>1. \A s \in SUBSET S : IsFiniteSet(s) /\ Cardinality(s) \in Nat
    BY FS_Subset, FS_CardinalityType
<1>2. \A s \in SUBSET S : \A t \in SUBSET s : t # s => Cardinality(t) < Cardinality(s)
    BY <1>1, FS_Subset, FS_CardinalityType
<1>3. 0 \in Good
    BY <1>1
<1>4. ASSUME NEW n \in Nat, n \in Good
      PROVE  n + 1 \in Good
    <2>1. SUFFICES ASSUME NEW s \in SUBSET S, Cardinality(s) < n + 1
                   PROVE  s \in G
        OBVIOUS
    <2>2. ASSUME NEW t \in SUBSET s, t # s
          PROVE  t \in G
        <3>1. t \in SUBSET S /\ Cardinality(t) < Cardinality(s)
            BY <1>2, <2>2
        <3>2. Cardinality(t) < n
            BY <1>1, <2>1, <3>1
        <3> QED
            BY <1>4, <3>1, <3>2
    <2> QED
        BY <2>2
<1>5. Nat \subseteq Good
    <2> HIDE DEF Good
    <2> QED
        BY <1>3, <1>4, Induction
<1>6. \A s \in SUBSET S : Cardinality(s) + 1 \in Good /\ Cardinality(s) < Cardinality(s) + 1
    BY <1>1, <1>5
<1> QED
    BY <1>6

\* The recursive function that a sum applies.
Adding(S, f, h) ==
    h = [s \in SUBSET S |->
            IF s = {} THEN 0
            ELSE LET x == CHOOSE y \in s : TRUE IN f[x] + h[s \ {x}]]

\* There is such a function: it is extended from the subsets of at most n
\* elements to those of one more.
LEMMA AddingExists ==
    ASSUME NEW S, IsFiniteSet(S), NEW f
    PROVE  \E h : Adding(S, f, h) /\ SumFunctionOnSet(f, S) = h[S]
<1> DEFINE D(m) == {s \in SUBSET S : Cardinality(s) <= m}
           One(s) == CHOOSE y \in s : TRUE
           Step(s, h) == IF s = {} THEN 0 ELSE f[One(s)] + h[s \ {One(s)}]
           Upto(m, h) == h = [s \in D(m) |-> Step(s, h)]
           Has == {m \in Nat : \E h : Upto(m, h)}
<1>1. \A s \in SUBSET S : IsFiniteSet(s) /\ Cardinality(s) \in Nat
    BY FS_Subset, FS_CardinalityType
<1>2. \A s \in SUBSET S : s # {} =>
        One(s) \in s /\ s \ {One(s)} \in SUBSET S /\ Cardinality(s \ {One(s)}) = Cardinality(s) - 1
    <2>1. SUFFICES ASSUME NEW s \in SUBSET S, s # {}
                   PROVE  One(s) \in s /\ s \ {One(s)} \in SUBSET S
                          /\ Cardinality(s \ {One(s)}) = Cardinality(s) - 1
        OBVIOUS
    <2>2. One(s) \in s
        BY <2>1
    <2> HIDE DEF One
    <2> QED
        BY <1>1, <2>2, FS_RemoveElement
<1> HIDE DEF One
<1>3. 0 \in Has
    <2> DEFINE h == [s \in D(0) |-> 0]
    <2>1. \A s \in D(0) : s = {}
        BY <1>1, FS_EmptySet
    <2>2. h = [s \in D(0) |-> Step(s, h)]
        BY <2>1
    <2> QED
        BY <2>2
<1>4. ASSUME NEW m \in Nat, m \in Has
      PROVE  m + 1 \in Has
    <2>1. PICK h : h = [s \in D(m) |-> Step(s, h)]
        BY <1>4
    <2> DEFINE g == [s \in D(m + 1) |-> Step(s, h)]
    <2>2. ASSUME NEW s \in D(m + 1)
          PROVE  Step(s, h) = Step(s, g)
        <3>1. CASE s = {}
            BY <3>1
        <3>2. CASE s # {}
            <4> DEFINE t == s \ {One(s)}
            <4>1. t \in D(m) /\ t \in D(m + 1)
                BY <1>1, <1>2, <3>2
            <4>2. g[t] = Step(t, h) /\ h[t] = Step(t, h)
                BY <2>1, <4>1
            <4> QED
                BY <3>2, <4>2
        <3> QED
            BY <3>1, <3>2
    <2>3. Upto(m + 1, g)
        BY <2>2
    <2> HIDE DEF Upto
    <2> QED
        BY <2>3
<1>5. Nat \subseteq Has
    <2> HIDE DEF Has
    <2> QED
        BY <1>3, <1>4, Induction
<1>6. PICK h : Upto(Cardinality(S), h)
    BY <1>1, <1>5, FS_CardinalityType
<1>7. D(Cardinality(S)) = SUBSET S
    BY <1>1, FS_Subset
<1>8. \E g : Adding(S, f, g)
    <2> HIDE DEF D
    <2> QED
        BY <1>6, <1>7 DEF Adding, One
<1>9. Adding(S, f, CHOOSE g : Adding(S, f, g))
    BY <1>8
<1>10. SumFunctionOnSet(f, S) = (CHOOSE g : Adding(S, f, g))[S]
    BY DEF SumFunctionOnSet, FoldFunctionOnSet, MapThenFoldSet, Adding
<1> QED
    BY <1>9, <1>10

\* It has the sums of all subsets: whichever element is taken out.
LEMMA AddingSplits ==
    ASSUME NEW S, IsFiniteSet(S), NEW f, \A x \in S : f[x] \in Nat, NEW h, Adding(S, f, h)
    PROVE  /\ h[{}] = 0
           /\ \A s \in SUBSET S : h[s] \in Nat
           /\ \A s \in SUBSET S : \A x \in s : h[s] = f[x] + h[s \ {x}]
<1> DEFINE One(s) == CHOOSE y \in s : TRUE
           G == {s \in SUBSET S : h[s] \in Nat /\ \A x \in s : h[s] = f[x] + h[s \ {x}]}
<1>1. \A s \in SUBSET S : s # {} => One(s) \in s /\ h[s] = f[One(s)] + h[s \ {One(s)}]
    BY DEF Adding
<1>2. h[{}] = 0
    BY DEF Adding
<1> HIDE DEF One
<1>3. ASSUME NEW s \in SUBSET S, \A t \in SUBSET s : t # s => t \in G, s # {}
      PROVE  s \in G
    <2> DEFINE o == One(s)
               r == s \ {o}
    <2>1. o \in s /\ h[s] = f[o] + h[r] /\ r \in SUBSET s /\ r # s
        BY <1>1, <1>3
    <2>2. r \in G /\ f[o] \in Nat
        BY <1>3, <2>1
    <2>3. h[r] \in Nat /\ h[s] \in Nat
        BY <2>1, <2>2
    <2>4. ASSUME NEW x \in s
          PROVE  h[s] = f[x] + h[s \ {x}]
        <3>1. CASE x = o
            BY <2>1, <3>1
        <3>2. CASE x # o
            <4> DEFINE q == s \ {x}
                       b == r \ {x}
            <4>1. x \in r /\ o \in q /\ q \in SUBSET s /\ q # s /\ q \ {o} = b
                BY <2>1, <3>2
            <4>2. q \in G /\ h[r] = f[x] + h[b]
                BY <1>3, <2>2, <4>1
            <4>3. h[q] = f[o] + h[b]
                BY <4>1, <4>2
            <4>4. b \in SUBSET s /\ b # s
                BY <4>1
            <4>5. h[b] \in Nat /\ f[x] \in Nat
                BY <1>3, <4>4
            <4> HIDE DEF q, b, r, o
            <4>6. h[s] = f[x] + h[q]
                BY <2>1, <2>2, <4>2, <4>3, <4>5
            <4> QED
                BY <4>6 DEF q
        <3> QED
            BY <3>1, <3>2
    <2> QED
        BY <2>3, <2>4
<1>4. {} \in G
    BY <1>2
<1>5. SUBSET S \subseteq G
    <2>1. \A s \in SUBSET S : (\A t \in SUBSET s : t # s => t \in G) => s \in G
        <3> HIDE DEF G
        <3> QED
            BY <1>3, <1>4
    <2> HIDE DEF G
    <2> QED
        BY <2>1, SubsetInduction
<1> QED
    BY <1>2, <1>5

\* The sum over a set, by any of its elements and the rest.
LEMMA SumSplits ==
    ASSUME NEW S, IsFiniteSet(S), NEW f, \A x \in S : f[x] \in Nat
    PROVE  /\ SumFunctionOnSet(f, {}) = 0
           /\ SumFunctionOnSet(f, S) \in Nat
           /\ \A x \in S : SumFunctionOnSet(f, S) = f[x] + SumFunctionOnSet(f, S \ {x})
<1>1. ASSUME NEW T \in SUBSET S
      PROVE  \E h : Adding(T, f, h) /\ SumFunctionOnSet(f, T) = h[T]
    BY FS_Subset, AddingExists
<1>2. PICK h : Adding(S, f, h) /\ SumFunctionOnSet(f, S) = h[S]
    BY <1>1
<1>3. ASSUME NEW T \in SUBSET S
      PROVE  SumFunctionOnSet(f, T) = h[T]
    <2>1. PICK k : Adding(T, f, k) /\ SumFunctionOnSet(f, T) = k[T]
        BY <1>1
    <2> DEFINE G == {s \in SUBSET T : k[s] = h[s]}
    <2>2. ASSUME NEW s \in SUBSET T, \A t \in SUBSET s : t # s => t \in G
          PROVE  s \in G
        <3> DEFINE o == CHOOSE y \in s : TRUE
        <3>1. CASE s = {}
            BY <1>2, <2>1, <3>1 DEF Adding
        <3>2. CASE s # {}
            <4>1. o \in s
                BY <3>2
            <4>2. k[s] = f[o] + k[s \ {o}] /\ h[s] = f[o] + h[s \ {o}]
                BY <1>2, <2>1, <3>2 DEF Adding
            <4> HIDE DEF o
            <4>3. s \ {o} \in G
                BY <2>2, <4>1
            <4> QED
                BY <4>2, <4>3
        <3> QED
            BY <3>1, <3>2
    <2>3. SUBSET T \subseteq G
        <3>1. IsFiniteSet(T)
            BY FS_Subset
        <3> HIDE DEF G
        <3> QED
            BY <2>2, <3>1, SubsetInduction
    <2> QED
        BY <2>1, <2>3
<1>4. /\ h[{}] = 0
      /\ \A s \in SUBSET S : h[s] \in Nat
      /\ \A s \in SUBSET S : \A x \in s : h[s] = f[x] + h[s \ {x}]
    <2>1. Adding(S, f, h) /\ \A x \in S : f[x] \in Nat
        BY <1>2
    <2> QED
        <3>1. h[{}] = 0
            BY <2>1, AddingSplits
        <3>2. \A s \in SUBSET S : h[s] \in Nat
            BY <2>1, AddingSplits
        <3>3. ASSUME NEW s \in SUBSET S, NEW x \in s
              PROVE  h[s] = f[x] + h[s \ {x}]
            BY <2>1, AddingSplits
        <3> QED
            BY <3>1, <3>2, <3>3
<1> QED
    BY <1>3, <1>4

\* A sum counts only what is not 0, and sees only the values.
LEMMA SumSame ==
    ASSUME NEW S, IsFiniteSet(S), NEW f, NEW g, NEW T \in SUBSET S,
           \A x \in T : f[x] \in Nat /\ g[x] = f[x],
           \A x \in S \ T : g[x] = 0
    PROVE  SumFunctionOnSet(f, T) = SumFunctionOnSet(g, S)
<1> DEFINE F(s) == SumFunctionOnSet(f, s)
           H(s) == SumFunctionOnSet(g, s)
           G == {s \in SUBSET S : F(s \cap T) = H(s)}
<1>1. ASSUME NEW s \in SUBSET S
      PROVE  /\ H({}) = 0 /\ \A x \in s : H(s) = g[x] + H(s \ {x})
             /\ F({}) = 0 /\ \A x \in s \cap T : F(s \cap T) = f[x] + F((s \cap T) \ {x})
             /\ H(s) \in Nat
    <2>1. IsFiniteSet(s) /\ IsFiniteSet(s \cap T)
        BY FS_Subset
    <2>2. \A x \in s : g[x] \in Nat
        OBVIOUS
    <2>3. \A x \in s \cap T : f[x] \in Nat
        OBVIOUS
    <2>4. H({}) = 0 /\ H(s) \in Nat /\ \A x \in s : H(s) = g[x] + H(s \ {x})
        BY <2>1, <2>2, SumSplits, Zenon
    <2>5. F({}) = 0 /\ \A x \in s \cap T : F(s \cap T) = f[x] + F((s \cap T) \ {x})
        BY <2>1, <2>3, SumSplits, Zenon
    <2> QED
        BY <2>4, <2>5
<1> HIDE DEF F, H
<1>2. ASSUME NEW s \in SUBSET S, \A t \in SUBSET s : t # s => t \in G
      PROVE  s \in G
    <2>1. CASE s = {}
        <3>1. s \cap T = {}
            BY <2>1
        <3> QED
            BY <1>1, <2>1, <3>1
    <2>2. CASE s # {}
        <3>1. PICK x \in s : TRUE
            BY <2>2
        <3> DEFINE t == s \ {x}
        <3>2. t \in G /\ t \in SUBSET S
            BY <1>2, <3>1
        <3>3. H(s) = g[x] + H(t) /\ H(t) \in Nat
            BY <1>1, <3>1, <3>2
        <3>4. CASE x \in T
            <4>1. (s \cap T) \ {x} = t \cap T
                OBVIOUS
            <4>2. F(s \cap T) = f[x] + F(t \cap T)
                BY <1>1, <3>1, <3>4, <4>1
            <4> QED
                BY <3>2, <3>3, <3>4, <4>2
        <3>5. CASE x \notin T
            <4>1. s \cap T = t \cap T
                BY <3>5
            <4>2. g[x] = 0
                BY <3>1, <3>5
            <4>3. F(s \cap T) = F(t \cap T)
                BY <4>1, Zenon
            <4>4. F(t \cap T) = H(t)
                BY <3>2
            <4>5. H(s) = H(t)
                BY <3>3, <4>2
            <4> QED
                BY <4>3, <4>4, <4>5, Zenon
        <3> QED
            BY <3>4, <3>5
    <2> QED
        BY <2>1, <2>2
<1>3. SUBSET S \subseteq G
    <2> HIDE DEF G
    <2> QED
        BY <1>2, SubsetInduction
<1>4. S \cap T = T
    OBVIOUS
<1> QED
    BY <1>3, <1>4 DEF F, H

\* One value is changed.
LEMMA SumChanged ==
    ASSUME NEW S, IsFiniteSet(S), NEW f, NEW g, NEW x \in S,
           \A y \in S : f[y] \in Nat /\ g[y] \in Nat /\ (y # x => g[y] = f[y])
    PROVE  SumFunctionOnSet(g, S) + f[x] = SumFunctionOnSet(f, S) + g[x]
<1> DEFINE r == S \ {x}
           F == SumFunctionOnSet(f, r)
           G == SumFunctionOnSet(g, r)
<1>1. IsFiniteSet(r)
    BY FS_Subset
<1>2. /\ SumFunctionOnSet(f, S) = f[x] + F /\ F \in Nat
      /\ SumFunctionOnSet(g, S) = g[x] + G
    BY <1>1, SumSplits
<1>3. F = G
    <2>1. r \in SUBSET r /\ \A y \in r : f[y] \in Nat /\ g[y] = f[y]
        OBVIOUS
    <2>2. r \ r = {}
        OBVIOUS
    <2> HIDE DEF r
    <2> QED
        BY <1>1, <2>1, <2>2, SumSame
<1> HIDE DEF F, G
<1> QED
    BY <1>2, <1>3

=============================================================================
