------------------------ MODULE ResourceView_proofs -------------------------
(***************************************************************************)
(* What a client of the watch API shows, for every set of kinds, every     *)
(* bound on the changes and the faults, and a client that gives no         *)
(* versions or gives them as the handler reads them: no object twice, and, *)
(* of the kinds whose version a page keeps, the cluster as it was at that  *)
(* version -- until a goroutine of an earlier request writes to the        *)
(* client's stream.                                                        *)
(*                                                                         *)
(* The log and the store are lists that the lemmas have as parameters;     *)
(* what they say is then used before and after a step.                     *)
(***************************************************************************)
EXTENDS ResourceView, SequenceLemmas

-----------------------------------------------------------------------------
(***************************************************************************)
(* The log.                                                                *)
(***************************************************************************)

\* The definitions of EventLog and LogIsReadable, of a log that is a parameter.
Readable(L) ==
    \A i \in 1..Len(L) :
        /\ L[i].uid \in 1..i /\ L[L[i].uid].kind = L[i].kind /\ L[L[i].uid].type = "ADDED"
        /\ L[i].type = "ADDED" <=> L[i].uid = i
        /\ \A j \in 1..(i - 1) : L[j].uid = L[i].uid => L[j].type # "DELETED"

Alive(L, k, rv) ==
    {u \in 1..rv : L[u].kind = k /\ L[u].type = "ADDED"
                   /\ ~\E i \in u..rv : L[i].uid = u /\ L[i].type = "DELETED"}
Latest(L, u, rv) == CHOOSE i \in u..rv :
                     L[i].uid = u /\ \A j \in (i + 1)..rv : L[j].uid # u
View(L, k, rv) == {[uid |-> u, rv |-> Latest(L, u, rv)] : u \in Alive(L, k, rv)}

\* They are the same.
LEMMA OfTheLog ==
    /\ LogIsReadable <=> Readable(log)
    /\ LogIsReadable' <=> Readable(log')
    /\ \A k, rv : Uids(k, rv) = Alive(log, k, rv)
    /\ \A k, rv : AsOf(k, rv) = View(log, k, rv)
    /\ \A k, rv : AsOf(k, rv)' = View(log', k, rv)
<1>1. (LogIsReadable <=> Readable(log)) /\ (LogIsReadable' <=> Readable(log'))
    BY DEF LogIsReadable, Readable, IsEvent
<1>2. \A k, rv : Uids(k, rv) = Alive(log, k, rv)
    BY DEF Uids, Alive, IsEvent
<1>3. \A k, rv : AsOf(k, rv) = View(log, k, rv)
    BY DEF AsOf, View, LastChange, Latest, Uids, Alive, IsEvent
<1>4. \A k, rv : AsOf(k, rv)' = View(log', k, rv)
    BY DEF AsOf, View, LastChange, Latest, Uids, Alive, IsEvent
<1> QED
    BY <1>1, <1>2, <1>3, <1>4

\* The last change of an object is the last event that has its uid, and the only one
\* that is.
LEMMA LatestIs ==
    ASSUME NEW L, NEW u \in Nat, NEW rv \in Nat, u <= rv, L[u].uid = u
    PROVE  /\ Latest(L, u, rv) \in u..rv
           /\ L[Latest(L, u, rv)].uid = u
           /\ \A j \in (Latest(L, u, rv) + 1)..rv : L[j].uid # u
           /\ \A i \in u..rv : L[i].uid = u /\ (\A j \in (i + 1)..rv : L[j].uid # u)
                                 => Latest(L, u, rv) = i
<1> DEFINE T == {i \in u..rv : L[i].uid = u}
<1>1. T \in SUBSET Nat /\ u \in T /\ \A i \in T : i <= rv
    OBVIOUS
<1>2. PICK m \in T : \A i \in T : i <= m
    BY <1>1, GreatestNatural
<1>3. m \in u..rv /\ L[m].uid = u /\ \A j \in (m + 1)..rv : L[j].uid # u
    <2>1. ASSUME NEW j \in (m + 1)..rv, L[j].uid = u
          PROVE  FALSE
        <3>1. j \in T /\ m \in Nat
            BY <2>1, <1>1
        <3> QED
            BY <1>2, <3>1
    <2> QED
        BY <1>2, <2>1
<1>4. /\ Latest(L, u, rv) \in u..rv
      /\ L[Latest(L, u, rv)].uid = u
      /\ \A j \in (Latest(L, u, rv) + 1)..rv : L[j].uid # u
    BY <1>3 DEF Latest
<1>5. ASSUME NEW i \in u..rv, L[i].uid = u, \A j \in (i + 1)..rv : L[j].uid # u
      PROVE  Latest(L, u, rv) = i
    BY <1>4, <1>5
<1> QED
    BY <1>4, <1>5

\* An object that is there has its uid.
LEMMA AliveIs ==
    ASSUME NEW L, NEW k, NEW rv \in Nat, rv <= Len(L), Len(L) \in Nat, Readable(L),
           NEW u \in Alive(L, k, rv)
    PROVE  /\ u \in 1..rv /\ L[u].kind = k /\ L[u].uid = u /\ L[u].type = "ADDED"
           /\ \A i \in u..rv : L[i].uid = u => L[i].type # "DELETED"
<1>1. u \in 1..rv /\ L[u].kind = k /\ L[u].type = "ADDED"
      /\ \A i \in u..rv : L[i].uid = u => L[i].type # "DELETED"
    BY DEF Alive
<1>2. u \in 1..Len(L)
    BY <1>1
<1> QED
    BY <1>1, <1>2 DEF Readable

\* What is shown of an object that is there is its last change, and an object is
\* shown once.
LEMMA ViewIs ==
    ASSUME NEW L, NEW k, NEW rv \in Nat, rv <= Len(L), Len(L) \in Nat, Readable(L),
           NEW x \in View(L, k, rv)
    PROVE  /\ x.uid \in Alive(L, k, rv) /\ x.rv = Latest(L, x.uid, rv)
           /\ x = [uid |-> x.uid, rv |-> x.rv]
           /\ x.uid \in 1..rv /\ x.rv \in 1..rv
           /\ \A y \in View(L, k, rv) : y.uid = x.uid => y = x
<1>1. \A y \in View(L, k, rv) :
        /\ y.uid \in Alive(L, k, rv) /\ y.rv = Latest(L, y.uid, rv)
        /\ y = [uid |-> y.uid, rv |-> Latest(L, y.uid, rv)]
    BY DEF View
<1>2. x.uid \in 1..rv /\ L[x.uid].uid = x.uid
    BY <1>1, AliveIs
<1>3. x.rv \in x.uid..rv
    BY <1>1, <1>2, LatestIs
<1> QED
    BY <1>1, <1>2, <1>3

\* The view as of a version depends on the log up to there.
LEMMA ViewOfPrefix ==
    ASSUME NEW L, NEW M, NEW k, NEW rv \in Nat, rv <= Len(L), Len(L) \in Nat, Readable(L),
           \A i \in 1..rv : M[i] = L[i]
    PROVE  View(M, k, rv) = View(L, k, rv)
<1>1. Alive(M, k, rv) = Alive(L, k, rv)
    BY DEF Alive
<1>2. ASSUME NEW u \in Alive(L, k, rv)
      PROVE  Latest(M, u, rv) = Latest(L, u, rv)
    <2>1. u \in 1..rv /\ L[u].uid = u
        BY AliveIs
    <2>2. M[u].uid = u
        BY <2>1
    <2>3. /\ Latest(L, u, rv) \in u..rv
          /\ L[Latest(L, u, rv)].uid = u
          /\ \A j \in (Latest(L, u, rv) + 1)..rv : L[j].uid # u
        <3>1. u \in Nat /\ rv \in Nat /\ u <= rv /\ L[u].uid = u
            BY <2>1
        <3> QED
            BY <3>1, LatestIs
    <2>4. /\ M[Latest(L, u, rv)].uid = u
          /\ \A j \in (Latest(L, u, rv) + 1)..rv : M[j].uid # u
        BY <2>1, <2>3
    <2>5. \A i \in u..rv : M[i].uid = u /\ (\A j \in (i + 1)..rv : M[j].uid # u)
                             => Latest(M, u, rv) = i
        BY <2>1, <2>2, LatestIs
    <2> QED
        BY <2>3, <2>4, <2>5
<1> QED
    BY <1>1, <1>2 DEF View

\* What an event changes in the view of its kind, when it is the next one of the kind:
\* a new object is added, a change replaces what was shown of the object, and a
\* deletion takes it out.
LEMMA EventShown ==
    ASSUME NEW L, Len(L) \in Nat, Readable(L), NEW k,
           NEW a \in Nat, NEW b \in 1..Len(L), a < b, L[b].kind = k,
           \A i \in (a + 1)..(b - 1) : L[i].kind # k
    PROVE  LET u == L[b].uid
               Others == {x \in View(L, k, a) : x.uid # u}
           IN  /\ L[b].type = "ADDED" =>
                    u = b /\ View(L, k, b) = View(L, k, a) \cup {[uid |-> b, rv |-> b]}
               /\ L[b].type = "MODIFIED" =>
                    /\ \E x \in View(L, k, a) : x.uid = u
                    /\ View(L, k, b) = Others \cup {[uid |-> u, rv |-> b]}
               /\ L[b].type = "DELETED" => View(L, k, b) = Others
<1> DEFINE u == L[b].uid
           Others == {x \in View(L, k, a) : x.uid # u}
<1>1. /\ a <= Len(L) /\ b <= Len(L) /\ a \in Nat /\ b \in Nat
      /\ u \in 1..b /\ L[u].kind = k /\ L[u].type = "ADDED"
      /\ L[b].type = "ADDED" <=> u = b
      /\ \A j \in 1..(b - 1) : L[j].uid = u => L[j].type # "DELETED"
    BY DEF Readable
<1>2. \A v \in Alive(L, k, a) :
        /\ v \in 1..a /\ L[v].kind = k /\ L[v].uid = v /\ L[v].type = "ADDED"
        /\ \A i \in v..a : L[i].uid = v => L[i].type # "DELETED"
    BY <1>1, AliveIs
<1>3. \A v \in Alive(L, k, b) :
        /\ v \in 1..b /\ L[v].kind = k /\ L[v].uid = v /\ L[v].type = "ADDED"
        /\ \A i \in v..b : L[i].uid = v => L[i].type # "DELETED"
    BY <1>1, AliveIs
<1>4. ASSUME NEW v, L[v].kind = k, NEW i \in (a + 1)..(b - 1)
      PROVE  L[i].uid # v
    <2>1. i \in 1..Len(L) /\ L[i].kind # k
        BY <1>1
    <2> QED
        BY <1>4, <2>1 DEF Readable
<1>5. ASSUME NEW v \in Alive(L, k, a), v # u
      PROVE  v \in Alive(L, k, b) /\ Latest(L, v, b) = Latest(L, v, a)
    <2> DEFINE l == Latest(L, v, a)
    <2>1. v \in 1..a /\ L[v].kind = k /\ L[v].uid = v /\ L[v].type = "ADDED"
          /\ \A i \in v..a : L[i].uid = v => L[i].type # "DELETED"
        BY <1>2
    <2>2. \A i \in (a + 1)..b : L[i].uid # v
        BY <1>1, <1>4, <1>5, <2>1
    <2>3. v \in Alive(L, k, b)
        BY <1>1, <2>1, <2>2 DEF Alive
    <2>4. l \in v..a /\ L[l].uid = v /\ \A j \in (l + 1)..a : L[j].uid # v
        BY <2>1, LatestIs
    <2>5. l \in v..b /\ \A j \in (l + 1)..b : L[j].uid # v
        <3> HIDE DEF l
        <3> QED
            BY <1>1, <2>1, <2>2, <2>4
    <2>6. \A i \in v..b : L[i].uid = v /\ (\A j \in (i + 1)..b : L[j].uid # v)
                            => Latest(L, v, b) = i
        <3>1. v \in Nat /\ b \in Nat /\ v <= b /\ L[v].uid = v
            BY <1>1, <2>1
        <3> QED
            BY <3>1, LatestIs
    <2> QED
        BY <2>3, <2>4, <2>5, <2>6
<1>6. ASSUME NEW v \in Alive(L, k, b), v # b
      PROVE  v \in Alive(L, k, a)
    <2>1. v \in 1..b /\ L[v].kind = k /\ L[v].type = "ADDED"
          /\ \A i \in v..b : L[i].uid = v => L[i].type # "DELETED"
        BY <1>3
    <2>2. v \in 1..a
        BY <1>1, <1>6, <2>1
    <2> QED
        BY <1>1, <2>1, <2>2 DEF Alive
<1>7. CASE L[b].type = "ADDED"
    <2>1. u = b /\ b \in Alive(L, k, b)
        BY <1>1, <1>7 DEF Alive
    <2>2. b \notin Alive(L, k, a)
        BY <1>1, <1>2
    <2>3. Latest(L, b, b) = b
        BY <1>1, <2>1, LatestIs
    <2>4. Alive(L, k, b) = Alive(L, k, a) \cup {b}
        BY <1>5, <1>6, <2>1, <2>2
    <2>5. \A v \in Alive(L, k, a) : Latest(L, v, b) = Latest(L, v, a)
        BY <1>5, <2>1, <2>2
    <2>6. View(L, k, b) = View(L, k, a) \cup {[uid |-> b, rv |-> b]}
        BY <2>3, <2>4, <2>5 DEF View
    <2> QED
        BY <1>7, <2>1, <2>6
<1>8. CASE L[b].type # "ADDED"
    <2>1. u # b /\ u \in 1..(b - 1)
        BY <1>1, <1>8
    <2>2. u \in 1..a
        BY <1>1, <2>1
    <2>3. u \in Alive(L, k, a)
        BY <1>1, <2>2 DEF Alive
    <2>4. \E x \in View(L, k, a) : x.uid = u
        <3>1. [uid |-> u, rv |-> Latest(L, u, a)] \in View(L, k, a)
            BY <2>3 DEF View
        <3> QED
            BY <3>1
    <2>5. b \notin Alive(L, k, b)
        BY <1>3, <1>8
    <2>6. Alive(L, k, a) \ {u} = Alive(L, k, b) \ {u}
        BY <1>5, <1>6, <2>5
    <2>7. \A v \in Alive(L, k, a) \ {u} : Latest(L, v, b) = Latest(L, v, a)
        BY <1>5
    <2>8. Others = {[uid |-> v, rv |-> Latest(L, v, b)] : v \in Alive(L, k, b) \ {u}}
        <3>1. Others = {[uid |-> v, rv |-> Latest(L, v, a)] : v \in Alive(L, k, a) \ {u}}
            BY DEF View
        <3> QED
            BY <2>6, <2>7, <3>1
    <2>9. CASE L[b].type = "MODIFIED"
        <3>1. u \in Alive(L, k, b)
            <4>1. \A j \in u..b : j = b \/ j \in 1..(b - 1)
                BY <1>1
            <4>2. \A j \in u..b : L[j].uid = u => L[j].type # "DELETED"
                BY <1>1, <2>9, <4>1
            <4> QED
                BY <1>1, <4>2 DEF Alive
        <3>2. Latest(L, u, b) = b
            BY <1>1, <1>3, <3>1, LatestIs
        <3>3. Alive(L, k, b) = (Alive(L, k, b) \ {u}) \cup {u}
            BY <3>1
        <3>4. View(L, k, b) = Others \cup {[uid |-> u, rv |-> b]}
            BY <2>8, <3>2, <3>3 DEF View
        <3> QED
            BY <2>4, <2>9, <3>4
    <2>10. CASE L[b].type = "DELETED"
        <3>1. u \notin Alive(L, k, b)
            BY <1>1, <1>3, <2>10
        <3>2. Alive(L, k, b) \ {u} = Alive(L, k, b)
            BY <3>1
        <3> QED
            BY <2>8, <2>10, <3>2 DEF View
    <2> QED
        BY <1>8, <2>9, <2>10
<1> QED
    BY <1>7, <1>8

-----------------------------------------------------------------------------
(***************************************************************************)
(* The store of a kind.                                                    *)
(***************************************************************************)

\* No two of the items are of one object.
Distinct(s) == \A i, j \in DOMAIN s : s[i].uid = s[j].uid => i = j

\* IndexOf finds an item of the object, if there is one.
LEMMA IndexIs ==
    ASSUME NEW s \in Seq(Item), NEW u
    PROVE  \/ IndexOf(s, u) = 0 /\ \A j \in 1..Len(s) : s[j].uid # u
           \/ IndexOf(s, u) \in 1..Len(s) /\ s[IndexOf(s, u)].uid = u
<1> DEFINE I == {i \in 1..Len(s) : s[i].uid = u}
<1>1. IndexOf(s, u) = IF I # {} THEN CHOOSE x \in I : \A y \in I : x <= y ELSE 0
    BY DEF IndexOf, SelectInSeq, Min
<1>2. CASE I = {}
    BY <1>1, <1>2
<1>3. CASE I # {}
    <2>1. PICK x \in I : \A y \in I : x <= y
        <3>1. I \in SUBSET Nat
            OBVIOUS
        <3> HIDE DEF I
        <3> QED
            BY <1>3, <3>1, LeastNatural
    <2>2. IndexOf(s, u) \in I
        <3> HIDE DEF I
        <3> QED
            BY <1>1, <1>3, <2>1
    <2> QED
        BY <2>2
<1> QED
    BY <1>2, <1>3

\* The items' objects, by their places and by the items.
LEMMA ItemsIs ==
    ASSUME NEW s \in Seq(Item)
    PROVE  /\ DOMAIN s = 1..Len(s) /\ Len(s) \in Nat
           /\ \A y : y \in ToSet(s) <=> \E j \in 1..Len(s) : s[j] = y
           /\ \A y \in ToSet(s) : y \in Item
           /\ \A u : (\E y \in ToSet(s) : y.uid = u) <=> \E j \in 1..Len(s) : s[j].uid = u
<1>1. DOMAIN s = 1..Len(s) /\ Len(s) \in Nat
    OBVIOUS
<1>2. \A y : y \in ToSet(s) <=> \E j \in 1..Len(s) : s[j] = y
    BY <1>1 DEF ToSet
<1>3. \A j \in 1..Len(s) : s[j] \in Item
    BY <1>1
<1> QED
    BY <1>1, <1>2, <1>3

\* An item of an object that is not shown.
LEMMA AddedIs ==
    ASSUME NEW s \in Seq(Item), Distinct(s), NEW x \in Item,
           \A j \in 1..Len(s) : s[j].uid # x.uid
    PROVE  /\ Added(s, x) \in Seq(Item) /\ Distinct(Added(s, x))
           /\ ToSet(Added(s, x)) = ToSet(s) \cup {x}
<1> DEFINE t == Append(s, x)
<1>1. /\ t \in Seq(Item) /\ Len(t) = Len(s) + 1
      /\ \A i \in 1..Len(s) : t[i] = s[i]
      /\ t[Len(s) + 1] = x
    BY AppendProperties
<1>2. Len(s) \in Nat /\ DOMAIN s = 1..Len(s) /\ DOMAIN t = 1..(Len(s) + 1)
    BY <1>1, ItemsIs
<1> HIDE DEF t
<1>3. Distinct(t)
    BY <1>1, <1>2 DEF Distinct
<1>4. ToSet(t) = ToSet(s) \cup {x}
    <2>1. \A y \in ToSet(t) : y \in ToSet(s) \cup {x}
        BY <1>1, <1>2 DEF ToSet
    <2>2. x \in ToSet(t)
        BY <1>1, <1>2 DEF ToSet
    <2>3. ASSUME NEW y \in ToSet(s)
          PROVE  y \in ToSet(t)
        <3>1. PICK j \in 1..Len(s) : s[j] = y
            BY <1>2 DEF ToSet
        <3>2. j \in DOMAIN t /\ t[j] = y
            BY <1>1, <1>2, <3>1
        <3> QED
            BY <3>2 DEF ToSet
    <2> QED
        BY <2>1, <2>2, <2>3
<1> QED
    BY <1>1, <1>3, <1>4 DEF t, Added

\* The item of an object taken out.
LEMMA RemovedIs ==
    ASSUME NEW s \in Seq(Item), Distinct(s), NEW i \in 1..Len(s)
    PROVE  /\ RemoveAt(s, i) \in Seq(Item) /\ Distinct(RemoveAt(s, i))
           /\ ToSet(RemoveAt(s, i)) = {y \in ToSet(s) : y.uid # s[i].uid}
<1> DEFINE t == RemoveAt(s, i)
<1>1. /\ t \in Seq(Item) /\ Len(t) = Len(s) - 1
      /\ \A n \in 1..(Len(s) - 1) : t[n] = IF n < i THEN s[n] ELSE s[n + 1]
    BY ElementRemoved
<1>2. /\ Len(s) \in Nat /\ DOMAIN s = 1..Len(s) /\ DOMAIN t = 1..(Len(s) - 1)
      /\ i \in Nat /\ i <= Len(s)
    <2>1. Len(s) \in Nat /\ DOMAIN s = 1..Len(s)
        BY ItemsIs
    <2>2. DOMAIN t = 1..Len(t)
        <3> HIDE DEF t
        <3> QED
            BY <1>1, ItemsIs
    <2> QED
        BY <1>1, <2>1, <2>2
<1> HIDE DEF t
<1>3. Distinct(t)
    <2> DEFINE f == [n \in 1..(Len(s) - 1) |-> IF n < i THEN n ELSE n + 1]
    <2>1. \A n \in 1..(Len(s) - 1) : f[n] \in 1..Len(s) /\ t[n] = s[f[n]]
        BY <1>1, <1>2
    <2>2. \A m, n \in 1..(Len(s) - 1) : f[m] = f[n] => m = n
        BY <1>2
    <2> HIDE DEF f
    <2> QED
        BY <1>2, <2>1, <2>2 DEF Distinct
<1>4. ASSUME NEW y \in ToSet(t)
      PROVE  y \in ToSet(s) /\ y.uid # s[i].uid
    <2>1. PICK n \in 1..(Len(s) - 1) : y = t[n]
        BY <1>2 DEF ToSet
    <2>2. PICK m \in 1..Len(s) : y = s[m] /\ m # i
        BY <1>1, <1>2, <2>1
    <2> QED
        BY <1>2, <2>2 DEF ToSet, Distinct
<1>5. ASSUME NEW y \in ToSet(s), y.uid # s[i].uid
      PROVE  y \in ToSet(t)
    <2>1. PICK m \in 1..Len(s) : y = s[m]
        BY <1>2 DEF ToSet
    <2>2. m # i
        BY <1>5, <2>1
    <2>3. CASE m < i
        <3>1. m \in 1..(Len(s) - 1) /\ t[m] = s[m]
            BY <1>1, <1>2, <2>3
        <3> QED
            BY <1>2, <2>1, <3>1 DEF ToSet
    <2>4. CASE m > i
        <3>1. m - 1 \in 1..(Len(s) - 1) /\ t[m - 1] = s[m]
            BY <1>1, <1>2, <2>4
        <3> QED
            BY <1>2, <2>1, <3>1 DEF ToSet
    <2> QED
        BY <1>2, <2>2, <2>3, <2>4
<1> QED
    BY <1>1, <1>3, <1>4, <1>5 DEF t

\* A change replaces the item, or adds it where there is none.
LEMMA ModifiedIs ==
    ASSUME NEW s \in Seq(Item), Distinct(s), NEW x \in Item
    PROVE  /\ Modified(s, x) \in Seq(Item) /\ Distinct(Modified(s, x))
           /\ ToSet(Modified(s, x)) = {y \in ToSet(s) : y.uid # x.uid} \cup {x}
<1>1. CASE IndexOf(s, x.uid) = 0 /\ \A j \in 1..Len(s) : s[j].uid # x.uid
    <2>1. Modified(s, x) = Added(s, x)
        BY <1>1 DEF Modified
    <2>2. {y \in ToSet(s) : y.uid # x.uid} = ToSet(s)
        BY <1>1, ItemsIs
    <2> QED
        BY <1>1, <2>1, <2>2, AddedIs
<1>2. CASE IndexOf(s, x.uid) \in 1..Len(s) /\ s[IndexOf(s, x.uid)].uid = x.uid
    <2> DEFINE i == IndexOf(s, x.uid)
               t == RemoveAt(s, i)
    <2>1. i # 0
        BY <1>2
    <2>2. Modified(s, x) = Added(t, x)
        BY <2>1 DEF Modified
    <2>3. t \in Seq(Item) /\ Distinct(t) /\ ToSet(t) = {y \in ToSet(s) : y.uid # x.uid}
        BY <1>2, RemovedIs
    <2> HIDE DEF t, i
    <2>4. \A j \in 1..Len(t) : t[j].uid # x.uid
        BY <2>3, ItemsIs
    <2> QED
        BY <2>2, <2>3, <2>4, AddedIs
<1> QED
    BY <1>1, <1>2, IndexIs

\* A deletion takes the item out, if there is one.
LEMMA DeletedIs ==
    ASSUME NEW s \in Seq(Item), Distinct(s), NEW x \in Item
    PROVE  /\ Deleted(s, x) \in Seq(Item) /\ Distinct(Deleted(s, x))
           /\ ToSet(Deleted(s, x)) = {y \in ToSet(s) : y.uid # x.uid}
<1>1. CASE IndexOf(s, x.uid) = 0 /\ \A j \in 1..Len(s) : s[j].uid # x.uid
    <2>1. Deleted(s, x) = s
        BY <1>1 DEF Deleted
    <2>2. {y \in ToSet(s) : y.uid # x.uid} = ToSet(s)
        BY <1>1, ItemsIs
    <2> QED
        BY <2>1, <2>2
<1>2. CASE IndexOf(s, x.uid) \in 1..Len(s) /\ s[IndexOf(s, x.uid)].uid = x.uid
    <2>1. IndexOf(s, x.uid) # 0
        BY <1>2
    <2>2. Deleted(s, x) = RemoveAt(s, IndexOf(s, x.uid))
        BY <2>1 DEF Deleted
    <2> QED
        BY <1>2, <2>2, RemovedIs
<1> QED
    BY <1>1, <1>2, IndexIs

\* Whatever is shown, an event makes a list of items of it.
LEMMA StoreTypes ==
    ASSUME NEW s \in Seq(Item), NEW x \in Item
    PROVE  Added(s, x) \in Seq(Item) /\ Modified(s, x) \in Seq(Item) /\ Deleted(s, x) \in Seq(Item)
<1>1. \A r \in Seq(Item) : Added(r, x) \in Seq(Item)
    BY AppendProperties DEF Added
<1>2. CASE IndexOf(s, x.uid) = 0
    BY <1>1, <1>2 DEF Modified, Deleted
<1>3. CASE IndexOf(s, x.uid) \in 1..Len(s)
    <2> DEFINE i == IndexOf(s, x.uid)
    <2>1. RemoveAt(s, i) \in Seq(Item)
        BY <1>3, ElementRemoved
    <2>2. i # 0
        BY <1>3
    <2>3. Deleted(s, x) = RemoveAt(s, i) /\ Modified(s, x) = Added(RemoveAt(s, i), x)
        BY <2>2 DEF Modified, Deleted
    <2> HIDE DEF i
    <2> QED
        BY <1>1, <2>1, <2>3
<1> QED
    BY <1>2, <1>3, IndexIs

-----------------------------------------------------------------------------
(***************************************************************************)
(* Lists and types.                                                        *)
(***************************************************************************)

\* What the invariant says of the log.
LEMMA LogIs ==
    ASSUME IInv
    PROVE  /\ Readable(log) /\ Len(log) \in Nat /\ Len(log) <= MaxRv /\ MaxRv \in Nat
           /\ DOMAIN log = 1..Len(log)
           /\ \A i \in 1..Len(log) : log[i] \in Event
<1>1. log \in Seq(Event) /\ Len(log) <= MaxRv /\ LogIsReadable
    BY DEF IInv, TypeOK
<1>2. /\ Len(log) \in Nat /\ DOMAIN log = 1..Len(log)
      /\ \A i \in 1..Len(log) : log[i] \in Event
    BY <1>1
<1> QED
    BY <1>1, <1>2, OfTheLog, ViewAssumption

\* A view is finite: a version has at most as many objects.
LEMMA ViewIsFinite ==
    ASSUME NEW L, NEW k, NEW rv \in Nat, rv <= Len(L), Len(L) \in Nat, Readable(L)
    PROVE  IsFiniteSet(View(L, k, rv))
<1> DEFINE V == View(L, k, rv)
           f == [x \in V |-> x.uid]
<1>1. \A x \in V : x.uid \in 1..rv /\ \A y \in V : y.uid = x.uid => y = x
    BY ViewIs
<1> HIDE DEF V
<1>2. f \in Injection(V, 1..rv)
    BY <1>1 DEF Injection, IsInjective
<1>3. IsFiniteSet(1..rv)
    BY FS_Interval
<1> HIDE DEF f
<1> QED
    BY <1>2, <1>3, FS_Injection DEF V

\* A list response has every object that there is, once.
LEMMA ListingIs ==
    ASSUME IInv, NEW k \in Kinds, NEW items \in Listings(k)
    PROVE  /\ items \in Seq(Item) /\ Distinct(items)
           /\ ToSet(items) = View(log, k, Len(log))
           /\ \A j \in 1..Len(items) : items[j].uid <= Len(log)
<1> DEFINE V == View(log, k, Len(log))
<1>1. items \in SetToSeqs(V)
    BY OfTheLog DEF Listings, Now
<1>2. Len(log) \in Nat /\ Readable(log) /\ Len(log) <= MaxRv /\ MaxRv \in Nat
    BY LogIs
<1>3. IsFiniteSet(V)
    BY <1>2, ViewIsFinite
<1>4. \A x \in V : /\ x = [uid |-> x.uid, rv |-> x.rv]
                   /\ x.uid \in 1..Len(log) /\ x.rv \in 1..Len(log)
                   /\ \A y \in V : y.uid = x.uid => y = x
    BY <1>2, ViewIs
<1> HIDE DEF V
<1>5. V \subseteq Item
    <2>1. \A x \in V : x.uid \in 1..MaxRv /\ x.rv \in 1..MaxRv
        BY <1>2, <1>4
    <2> QED
        BY <1>4, <2>1 DEF Item
<1>6. /\ DOMAIN items = 1..Len(items) /\ Len(items) \in Nat /\ items \in Seq(V)
      /\ \A x \in V : \E i \in DOMAIN items : items[i] = x
      /\ \A i, j \in DOMAIN items : items[i] = items[j] => i = j
    BY <1>1, <1>3, Orderings
<1>7. items \in Seq(Item)
    BY <1>5, <1>6
<1>8. \A i \in DOMAIN items : items[i] \in V
    BY <1>6
<1>9. ToSet(items) = V
    BY <1>6, <1>8 DEF ToSet
<1>10. Distinct(items)
    BY <1>4, <1>6, <1>8 DEF Distinct
<1> QED
    BY <1>2, <1>4, <1>6, <1>7, <1>8, <1>9, <1>10 DEF V

\* What is written to a stream is an event.
LEMMA WrittenTypes ==
    ASSUME wire \in Seq(WireEvent), NEW e \in WireEvent, Written(e)
    PROVE  wire' \in Seq(WireEvent)
BY AppendProperties DEF Written

\* The types, and the bounds.
LEMMA TypesAre ==
    ASSUME IInv
    PROVE  /\ TypeOK /\ proxy \in [Kinds -> Proxy]
           /\ wire \in Seq(WireEvent) /\ stop \in BOOLEAN /\ <<>> \in Seq(Item)
           /\ store \in [Kinds -> Seq(Item)] /\ lrv \in [Kinds -> Version]
           /\ MaxFaults \in Nat /\ faults \in 0..MaxFaults
           /\ MaxRv \in Nat /\ Len(log) \in 0..MaxRv
           /\ \A k \in Kinds : proxy[k] \in Proxy /\ ProxyInStep(k)
<1>1. TypeOK /\ \A k \in Kinds : ProxyInStep(k)
    BY DEF IInv
<1>2. /\ proxy \in [Kinds -> Proxy] /\ wire \in Seq(WireEvent) /\ stop \in BOOLEAN
      /\ store \in [Kinds -> Seq(Item)] /\ lrv \in [Kinds -> Version]
      /\ faults \in 0..MaxFaults
    BY <1>1 DEF TypeOK
<1>3. MaxFaults \in Nat /\ MaxRv \in Nat /\ Len(log) \in 0..MaxRv
    BY LogIs, ViewAssumption
<1>4. <<>> \in Seq(Item)
    OBVIOUS
<1> QED
    BY <1>1, <1>2, <1>3, <1>4

\* A step of a goroutine keeps the types if it keeps those of what it changes.
LEMMA ProxyTypesAre ==
    ASSUME IInv, UNCHANGED pageVars, UNCHANGED logVars, UNCHANGED <<handler, hungUp>>,
           UNCHANGED poolVars, mixed' = mixed,
           proxy' \in [Kinds -> Proxy], faults' \in 0..MaxFaults,
           wire' \in Seq(WireEvent), stop' \in BOOLEAN
    PROVE  TypeOK'
<1>1. TypeOK
    BY TypesAre
<1> QED
    BY <1>1 DEF TypeOK, pageVars, logVars, poolVars

\* The goroutines keep their types.
LEMMA ProxyTypes ==
    ASSUME IInv, NEW k \in Kinds, ProxyStep(k) \/ WatchCloses(k), UNCHANGED pageVars
    PROVE  TypeOK'
<1>1. /\ proxy \in [Kinds -> Proxy] /\ proxy[k] \in Proxy /\ ProxyInStep(k)
      /\ wire \in Seq(WireEvent) /\ stop \in BOOLEAN /\ <<>> \in Seq(Item)
      /\ MaxRv \in Nat /\ Len(log) \in 0..MaxRv /\ faults \in 0..MaxFaults
    BY TypesAre
<1>2. Fault => faults' \in 0..MaxFaults
    BY <1>1, TypesAre DEF Fault
<1>3. ASSUME NEW p \in Proxy, proxy' = [proxy EXCEPT ![k] = p]
      PROVE  proxy' \in [Kinds -> Proxy]
    BY <1>1, <1>3
<1>4. ASSUME Ends(k)
      PROVE  proxy' \in [Kinds -> Proxy] /\ stop' \in BOOLEAN /\ UNCHANGED <<handler, hungUp, poolVars>>
    <2>1. [proxy[k] EXCEPT !.pc = "ended", !.items = <<>>, !.held = Nothing] \in Proxy
        BY <1>1 DEF Proxy
    <2>2. proxy' \in [Kinds -> Proxy]
        BY <1>1, <1>4, <2>1 DEF Ends
    <2> QED
        BY <1>4, <2>2 DEF Ends
<1>5. ASSUME NEW pc \in {"connect", "watch"}, Goes(k, pc)
      PROVE  proxy' \in [Kinds -> Proxy] /\ stop' \in BOOLEAN /\ UNCHANGED <<handler, hungUp, poolVars>>
    <2>1. [proxy[k] EXCEPT !.pc = pc] \in Proxy
        BY <1>1 DEF Proxy
    <2>2. proxy' \in [Kinds -> Proxy]
        BY <1>1, <1>5, <2>1 DEF Goes
    <2> QED
        BY <1>1, <1>5, <2>2 DEF Goes
<1>6. CASE DoListAndWatch(k)
    <2>1. UNCHANGED logVars /\ mixed' = mixed /\ wire' \in Seq(WireEvent) /\ faults' \in 0..MaxFaults
        BY <1>1, <1>2, <1>6 DEF DoListAndWatch
    <2>2. ASSUME NEW items \in Listings(k),
                 proxy' = [proxy EXCEPT ![k].pc = "list", ![k].items = items,
                                        ![k].listed = Len(log)]
          PROVE  proxy' \in [Kinds -> Proxy]
        <3>1. items \in Seq(Item)
            BY ListingIs
        <3>2. [proxy[k] EXCEPT !.pc = "list", !.items = items, !.listed = Len(log)] \in Proxy
            BY <1>1, <3>1 DEF Proxy
        <3> QED
            BY <1>1, <2>2, <3>2
    <2>3. /\ proxy' \in [Kinds -> Proxy] /\ stop' \in BOOLEAN /\ UNCHANGED <<handler, hungUp, poolVars>>
        BY <1>1, <1>4, <1>5, <1>6, <2>2 DEF DoListAndWatch
    <2> QED
        BY <2>1, <2>3, ProxyTypesAre
<1>7. CASE SendListedItem(k)
    <2>1. UNCHANGED logVars /\ mixed' = mixed /\ faults' \in 0..MaxFaults
        BY <1>1, <1>7 DEF SendListedItem
    <2>2. proxy[k].items \in Seq(Item) /\ proxy[k].items # <<>>
        BY <1>1, <1>7 DEF SendListedItem, Proxy
    <2>3. Head(proxy[k].items) \in Item /\ Tail(proxy[k].items) \in Seq(Item)
        BY <2>2, HeadTailProperties
    <2>4. [kind |-> k, type |-> "ADDED", uid |-> Head(proxy[k].items).uid,
           rv |-> Head(proxy[k].items).rv] \in WireEvent
        BY <2>3 DEF Item, WireEvent
    <2>5. CASE WriteFails(k)
        <3>1. /\ proxy' \in [Kinds -> Proxy] /\ stop' \in BOOLEAN
              /\ UNCHANGED <<handler, hungUp, poolVars>> /\ wire' \in Seq(WireEvent)
            BY <1>1, <1>4, <2>5 DEF WriteFails
        <3> QED
            BY <2>1, <3>1, ProxyTypesAre
    <2>6. CASE ~WriteFails(k)
        <3>1. wire' \in Seq(WireEvent)
            BY <1>1, <1>7, <2>4, <2>6, WrittenTypes DEF SendListedItem
        <3>2. [proxy[k] EXCEPT !.items = Tail(@)] \in Proxy
            BY <1>1, <2>3 DEF Proxy
        <3>3. proxy' = [proxy EXCEPT ![k].items = Tail(@)] /\ UNCHANGED <<handler, hungUp, stop, poolVars>>
            BY <1>7, <2>6 DEF SendListedItem
        <3>4. proxy' \in [Kinds -> Proxy] /\ stop' \in BOOLEAN
            BY <1>1, <3>2, <3>3
        <3> QED
            BY <2>1, <3>1, <3>3, <3>4, ProxyTypesAre
    <2> QED
        BY <2>5, <2>6
<1>8. CASE ListSent(k)
    <2>1. [proxy[k] EXCEPT !.pc = "connect", !.lrv = proxy[k].listed, !.listed = 0] \in Proxy
        <3>1. proxy[k].listed \in 0..MaxRv
            BY <1>1 DEF Proxy
        <3>2. proxy[k].listed \in Version /\ 0 \in 0..MaxRv
            BY <1>1, <3>1 DEF Version
        <3> QED
            BY <1>1, <3>2 DEF Proxy
    <2>2. proxy' \in [Kinds -> Proxy]
        BY <1>1, <1>8, <2>1 DEF ListSent
    <2> QED
        BY <1>1, <1>8, <2>2, ProxyTypesAre DEF ListSent
<1>9. CASE Connect(k)
    <2>1. /\ proxy' \in [Kinds -> Proxy] /\ stop' \in BOOLEAN /\ UNCHANGED <<handler, hungUp, poolVars>>
        BY <1>4, <1>5, <1>9 DEF Connect
    <2> QED
        BY <1>1, <1>9, <2>1, ProxyTypesAre DEF Connect
<1>10. CASE Receive(k)
    <2> DEFINE P == Pending(k, proxy[k].lrv)
               i == NextEvent(k, proxy[k].lrv)
    <2>1. P # {} /\ proxy[k].lrv \in 0..Len(log)
        BY <1>1, <1>10 DEF Receive, ProxyInStep
    <2>2. P \subseteq 1..MaxRv
        BY <1>1, <2>1 DEF Pending
    <2>3. PICK m \in P : \A j \in P : m <= j
        <3> HIDE DEF P
        <3> QED
            BY <1>1, <2>1, <2>2, LeastNatural
    <2>4. i \in P
        BY <2>3 DEF NextEvent
    <2>5. i \in 1..MaxRv
        BY <2>2, <2>4
    <2> HIDE DEF P, i
    <2>6. [proxy[k] EXCEPT !.held = i] \in Proxy
        BY <1>1, <2>5 DEF Proxy
    <2>7. proxy' \in [Kinds -> Proxy]
        BY <1>1, <1>10, <2>6 DEF Receive, i
    <2> QED
        BY <1>1, <1>10, <2>7, ProxyTypesAre DEF Receive
<1>11. CASE StopCh(k)
    <2>1. /\ proxy' \in [Kinds -> Proxy] /\ stop' \in BOOLEAN /\ UNCHANGED <<handler, hungUp, poolVars>>
        BY <1>4, <1>11 DEF StopCh
    <2> QED
        BY <1>1, <1>11, <2>1, ProxyTypesAre DEF StopCh
<1>12. CASE WriteEvent(k)
    <2> DEFINE i == proxy[k].held
    <2>1. UNCHANGED logVars /\ mixed' = mixed /\ faults' \in 0..MaxFaults
        BY <1>1, <1>12 DEF WriteEvent
    <2>2. i \in 1..Len(log) /\ i \in 1..MaxRv
        <3>1. i # Nothing /\ i \in Pending(k, proxy[k].lrv) /\ proxy[k].lrv \in 0..Len(log)
            BY <1>1, <1>12 DEF WriteEvent, ProxyInStep
        <3> QED
            BY <1>1, <3>1 DEF Pending
    <2>3. log[i] \in Event
        BY <2>2, LogIs
    <2> HIDE DEF i
    <2>4. [kind |-> k, type |-> log[i].type, uid |-> log[i].uid, rv |-> i] \in WireEvent
        BY <2>2, <2>3 DEF Event, WireEvent
    <2>5. CASE WriteFails(k)
        <3>1. /\ proxy' \in [Kinds -> Proxy] /\ stop' \in BOOLEAN
              /\ UNCHANGED <<handler, hungUp, poolVars>> /\ wire' \in Seq(WireEvent)
            BY <1>1, <1>4, <2>5 DEF WriteFails
        <3> QED
            BY <2>1, <3>1, ProxyTypesAre
    <2>6. CASE ~WriteFails(k)
        <3>1. /\ Written([kind |-> k, type |-> log[i].type, uid |-> log[i].uid, rv |-> i])
              /\ proxy' = [proxy EXCEPT ![k].held = Nothing, ![k].lrv = i]
              /\ UNCHANGED <<handler, hungUp, stop, poolVars>>
            BY <1>12, <2>6 DEF WriteEvent, i
        <3>2. wire' \in Seq(WireEvent)
            BY <1>1, <2>4, <3>1, WrittenTypes
        <3>3. [proxy[k] EXCEPT !.held = Nothing, !.lrv = i] \in Proxy
            <4>1. i \in Version
                BY <1>1, <2>2 DEF Version
            <4> QED
                BY <1>1, <4>1 DEF Proxy
        <3>4. proxy' \in [Kinds -> Proxy] /\ stop' \in BOOLEAN
            BY <1>1, <3>1, <3>3
        <3> QED
            BY <2>1, <3>1, <3>2, <3>4, ProxyTypesAre
    <2> QED
        BY <2>5, <2>6
<1>13. CASE WatchCloses(k)
    <2>1. /\ proxy' \in [Kinds -> Proxy] /\ stop' \in BOOLEAN /\ UNCHANGED <<handler, hungUp, poolVars>>
        BY <1>5, <1>13 DEF WatchCloses
    <2> QED
        BY <1>1, <1>2, <1>13, <2>1, ProxyTypesAre DEF WatchCloses
<1> QED
    BY <1>6, <1>7, <1>8, <1>9, <1>10, <1>11, <1>12, <1>13 DEF ProxyStep

\* A change is one more event, and the log can be read as before.
LEMMA LogGrows ==
    ASSUME IInv, NEW k \in Kinds, Change(k), UNCHANGED <<serverVars, wire, mixed, faults, pageVars>>
    PROVE  /\ TypeOK' /\ LogIsReadable'
           /\ Len(log') = Len(log) + 1 /\ \A i \in 1..Len(log) : log'[i] = log[i]
<1>1. /\ Readable(log) /\ Len(log) \in Nat /\ MaxRv \in Nat /\ Len(log) < MaxRv
      /\ \A i \in 1..Len(log) : log[i] \in Event
      /\ log \in Seq(Event) /\ TypeOK
    BY LogIs DEF IInv, TypeOK, Change
<1>2. PICK e : /\ log' = Append(log, e)
               /\ \/ e = [kind |-> k, type |-> "ADDED", uid |-> Len(log) + 1]
                  \/ \E u \in Alive(log, k, Len(log)), type \in {"MODIFIED", "DELETED"} :
                        e = [kind |-> k, type |-> type, uid |-> u]
    BY OfTheLog DEF Change
<1>3. \/ e.type = "ADDED" /\ e.uid = Len(log) + 1
      \/ e.type \in {"MODIFIED", "DELETED"} /\ e.uid \in Alive(log, k, Len(log))
    BY <1>2
<1>4. \A u \in Alive(log, k, Len(log)) :
        /\ u \in 1..Len(log) /\ log[u].kind = k /\ log[u].uid = u /\ log[u].type = "ADDED"
        /\ \A i \in u..Len(log) : log[i].uid = u => log[i].type # "DELETED"
    BY <1>1, AliveIs
<1>5. e \in Event /\ e.kind = k
    <2>1. e.uid \in 1..MaxRv
        BY <1>1, <1>3, <1>4
    <2> QED
        BY <1>2, <2>1 DEF Event
<1>6. /\ log' \in Seq(Event) /\ Len(log') = Len(log) + 1
      /\ \A i \in 1..Len(log) : log'[i] = log[i]
      /\ log'[Len(log) + 1] = e
    BY <1>1, <1>2, <1>5, AppendProperties
<1>7. TypeOK'
    <2>1. UNCHANGED <<floor, serverVars, wire, mixed, faults, pageVars>>
        BY DEF Change
    <2>2. Len(log') <= MaxRv /\ floor \in 0..Len(log')
        BY <1>1, <1>6 DEF TypeOK
    <2> QED
        BY <1>1, <1>6, <2>1, <2>2 DEF TypeOK, serverVars, poolVars, pageVars
<1>8. Readable(log')
    <2>1. ASSUME NEW i \in 1..Len(log)
          PROVE  /\ log'[i].uid \in 1..i /\ log'[log'[i].uid].kind = log'[i].kind
                 /\ log'[log'[i].uid].type = "ADDED"
                 /\ log'[i].type = "ADDED" <=> log'[i].uid = i
                 /\ \A j \in 1..(i - 1) : log'[j].uid = log'[i].uid => log'[j].type # "DELETED"
        <3>1. /\ log[i].uid \in 1..i /\ log[log[i].uid].kind = log[i].kind
              /\ log[log[i].uid].type = "ADDED"
              /\ log[i].type = "ADDED" <=> log[i].uid = i
              /\ \A j \in 1..(i - 1) : log[j].uid = log[i].uid => log[j].type # "DELETED"
            BY <1>1 DEF Readable
        <3>2. \A j \in 1..i : log'[j] = log[j]
            BY <1>1, <1>6
        <3> QED
            BY <3>1, <3>2
    <2>2. \A j \in 1..Len(log) : log[j].uid \in 1..j
        BY <1>1 DEF Readable
    <2>3. CASE e.type = "ADDED" /\ e.uid = Len(log) + 1
        BY <1>1, <1>6, <2>1, <2>2, <2>3 DEF Readable
    <2>4. CASE e.type \in {"MODIFIED", "DELETED"} /\ e.uid \in Alive(log, k, Len(log))
        <3>1. /\ e.uid \in 1..Len(log) /\ log'[e.uid].kind = k /\ log'[e.uid].type = "ADDED"
              /\ \A j \in e.uid..Len(log) : log[j].uid = e.uid => log[j].type # "DELETED"
            BY <1>4, <1>6, <2>4
        <3>2. \A j \in 1..Len(log) : log'[j].uid = e.uid => log'[j].type # "DELETED"
            BY <1>1, <1>6, <2>2, <3>1
        <3> QED
            BY <1>1, <1>5, <1>6, <2>1, <2>4, <3>1, <3>2 DEF Readable
    <2> QED
        BY <1>3, <2>3, <2>4
<1> QED
    BY <1>6, <1>7, <1>8, OfTheLog

\* What an earlier request's goroutine is.
Leftovers == [request : Nat, kind : Kinds, since : Version, items : Seq(Item)]

\* One sends an item of a list or an event, and is one after that.
LEMMA LeftoverTypes ==
    ASSUME IInv, NEW l \in left, LeftoverItem(l) \/ LeftoverEvent(l)
    PROVE  wire' \in Seq(WireEvent) /\ left' \subseteq Leftovers
<1>1. /\ left \subseteq Leftovers /\ l \in Leftovers /\ wire \in Seq(WireEvent)
      /\ MaxRv \in Nat /\ Len(log) \in 0..MaxRv
    BY TypesAre DEF TypeOK, Leftovers
<1>2. ASSUME NEW e \in WireEvent, NEW since \in Version, NEW items \in Seq(Item),
             Sends(l, e, since, items)
      PROVE  wire' \in Seq(WireEvent) /\ left' \subseteq Leftovers
    <2>1. [l EXCEPT !.since = since, !.items = items] \in Leftovers
        BY <1>1 DEF Leftovers
    <2> QED
        BY <1>1, <1>2, <2>1, AppendProperties DEF Sends
<1>3. CASE LeftoverItem(l)
    <2>1. PICK items \in IF l.since = NoVersion THEN Listings(l.kind) ELSE {l.items} :
            /\ items # <<>>
            /\ Sends(l, [kind |-> l.kind, type |-> "ADDED", uid |-> Head(items).uid,
                         rv |-> Head(items).rv],
                     IF l.since = NoVersion THEN Len(log) ELSE l.since, Tail(items))
        BY <1>3 DEF LeftoverItem
    <2>2. l.kind \in Kinds /\ l.since \in Version /\ l.items \in Seq(Item)
        BY <1>1 DEF Leftovers
    <2>3. items \in Seq(Item)
        BY <2>1, <2>2, ListingIs
    <2>4. Head(items) \in Item /\ Tail(items) \in Seq(Item)
        BY <2>1, <2>3, HeadTailProperties
    <2>5. [kind |-> l.kind, type |-> "ADDED", uid |-> Head(items).uid, rv |-> Head(items).rv]
            \in WireEvent
        BY <2>2, <2>4 DEF Item, WireEvent
    <2>6. (IF l.since = NoVersion THEN Len(log) ELSE l.since) \in Version
        BY <1>1, <2>2 DEF Version
    <2> QED
        BY <1>2, <2>1, <2>4, <2>5, <2>6
<1>4. CASE LeftoverEvent(l)
    <2>1. PICK i \in Pending(l.kind, l.since) :
            Sends(l, [kind |-> l.kind, type |-> log[i].type, uid |-> log[i].uid, rv |-> i], i, <<>>)
        BY <1>4 DEF LeftoverEvent
    <2>2. i \in 1..Len(log) /\ i \in 1..MaxRv /\ l.kind \in Kinds
        <3>1. l.since # NoVersion /\ l.since \in Version /\ l.kind \in Kinds
            BY <1>1, <1>4 DEF Leftovers, LeftoverEvent
        <3>2. l.since \in Nat
            BY <1>1, <3>1 DEF Version
        <3> QED
            BY <1>1, <3>1, <3>2 DEF Pending
    <2>3. log[i] \in Event
        BY <2>2, LogIs
    <2>4. /\ [kind |-> l.kind, type |-> log[i].type, uid |-> log[i].uid, rv |-> i] \in WireEvent
          /\ i \in Version /\ <<>> \in Seq(Item)
        BY <1>1, <2>2, <2>3 DEF Event, WireEvent, Version
    <2> QED
        BY <1>2, <2>1, <2>4
<1> QED
    BY <1>3, <1>4

\* The steps of the client, and of the handler, keep the types.
LEMMA PageTypes ==
    ASSUME IInv,
           \/ Compact /\ UNCHANGED <<serverVars, wire, mixed, faults, pageVars>>
           \/ (ListWatchReturns \/ FormerReturns \/ LeftoverWrites) /\ UNCHANGED pageVars
           \/ PageStep \/ Breaks \/ Reload
    PROVE  TypeOK'
<1>1. /\ TypeOK /\ wire \in Seq(WireEvent) /\ stop \in BOOLEAN /\ <<>> \in Seq(Item)
      /\ store \in [Kinds -> Seq(Item)] /\ lrv \in [Kinds -> Version]
      /\ MaxRv \in Nat /\ Len(log) \in 0..MaxRv
      /\ page \in [pc : {"init", "fetch", "read", "terminated"}, at : 0..Len(KindOrder)]
    BY TypesAre DEF TypeOK
<1>2. /\ KindOrder \in Seq(Kinds) /\ Len(KindOrder) \in Nat /\ Len(KindOrder) > 0
      /\ \A i \in 1..Len(KindOrder) : KindOrder[i] \in Kinds
    <2>1. KindOrder \in Seq(Kinds) /\ KindOrder # <<>>
        BY ViewAssumption
    <2> QED
        BY <2>1
<1>3. Fault => faults' \in 0..MaxFaults
    BY TypesAre DEF Fault
<1>4. <<>> \in Seq(WireEvent) /\ NoVersion \in Version
    BY DEF Version
<1>5. ASSUME NEW m, Fresh(m)
      PROVE  /\ page' \in [pc : {"init", "fetch", "read", "terminated"}, at : 0..Len(KindOrder)]
             /\ store' \in [Kinds -> Seq(Item)] /\ lrv' \in [Kinds -> Version]
             /\ mode' = mode /\ mixed' = FALSE
    <2>1. page' \in [pc : {"init", "fetch", "read", "terminated"}, at : 0..Len(KindOrder)]
        BY <1>2, <1>5 DEF Fresh, Begin
    <2> QED
        BY <1>1, <1>4, <1>5, <2>1 DEF Fresh
<1>6. CASE Compact /\ UNCHANGED <<serverVars, wire, mixed, faults, pageVars>>
    BY <1>1, <1>6 DEF Compact, TypeOK, serverVars, poolVars, pageVars
<1>7. CASE ListWatchReturns /\ UNCHANGED pageVars
    <2>1. Last(context) \in Nat
        <3>1. context \in Seq(Nat) /\ context # <<>>
            BY <1>1, <1>7 DEF ListWatchReturns, TypeOK
        <3> QED
            BY <3>1 DEF Last
    <2> QED
        BY <1>1, <1>7, <2>1 DEF ListWatchReturns, TypeOK, logVars, pageVars
<1>14. CASE FormerReturns /\ UNCHANGED pageVars
    <2>1. \A c \in ToSet(context) : c \in Nat
        BY <1>1 DEF TypeOK, ToSet
    <2>2. pooled' \subseteq Nat
        BY <1>1, <1>14, <2>1 DEF FormerReturns, TypeOK
    <2> QED
        BY <1>1, <1>14, <2>2 DEF FormerReturns, TypeOK, logVars, pageVars
<1>15. CASE LeftoverWrites /\ UNCHANGED pageVars
    <2>1. PICK l \in left : LeftoverItem(l) \/ LeftoverEvent(l)
        BY <1>15 DEF LeftoverWrites
    <2>2. wire' \in Seq(WireEvent) /\ left' \subseteq Leftovers
        BY <1>15, <2>1, LeftoverTypes
    <2>3. /\ mixed' = TRUE
          /\ UNCHANGED <<handler, hungUp, stop, proxy, context, pooled, faults, logVars>>
        BY <2>1 DEF LeftoverItem, LeftoverEvent, Sends
    <2> QED
        BY <1>1, <1>15, <2>2, <2>3 DEF TypeOK, Leftovers, logVars, pageVars
<1>8. CASE InitList
    <2>1. /\ page.pc = "init" /\ mode' = mode
          /\ UNCHANGED <<serverVars, wire, mixed, faults, logVars>>
        BY <1>8 DEF InitList
    <2>2. page.at \in 1..Len(KindOrder)
        <3>1. page.at > 0
            BY <2>1 DEF IInv, PageInStep
        <3> QED
            BY <1>1, <1>2, <3>1
    <2> DEFINE k == KindOrder[page.at]
    <2>3. PICK items \in Listings(k) :
                store' = [store EXCEPT ![k] = items] /\ lrv' = [lrv EXCEPT ![k] = Len(log)]
        BY <1>8 DEF InitList
    <2>9. k \in Kinds
        BY <1>2, <2>2
    <2> HIDE DEF k
    <2>4. items \in Seq(Item) /\ Len(log) \in Version
        BY <1>1, <2>9, ListingIs DEF Version
    <2>5. store' \in [Kinds -> Seq(Item)] /\ lrv' \in [Kinds -> Version]
        BY <1>1, <2>3, <2>4, <2>9
    <2>6. page' \in [pc : {"init", "fetch", "read", "terminated"}, at : 0..Len(KindOrder)]
        <3>1. CASE page.at = Len(KindOrder)
            BY <1>2, <1>8, <3>1 DEF InitList
        <3>2. CASE page.at # Len(KindOrder)
            <4>1. page' = [page EXCEPT !.at = @ + 1]
                BY <1>8, <3>2 DEF InitList
            <4>2. page.at + 1 \in 0..Len(KindOrder)
                BY <1>2, <2>2, <3>2
            <4> QED
                BY <1>1, <4>1, <4>2
        <3> QED
            BY <3>1, <3>2
    <2> QED
        BY <1>1, <2>1, <2>5, <2>6 DEF TypeOK, serverVars, poolVars, logVars
<1>9. CASE WatchResources
    <2>1. /\ ListWatch(LastResourceVersions) /\ wire' = <<>> /\ page' = [page EXCEPT !.pc = "read"]
          /\ UNCHANGED <<mode, store, lrv, mixed, faults, logVars>>
        BY <1>9 DEF WatchResources
    <2>2. page' \in [pc : {"init", "fetch", "read", "terminated"}, at : 0..Len(KindOrder)]
        BY <1>1, <2>1
    <2>3. \A k \in Kinds : NewEventProxy(LastResourceVersions[k]) \in Proxy
        BY <1>1, <1>4 DEF NewEventProxy, Proxy, LastResourceVersions
    <2>4. proxy' \in [Kinds -> Proxy] /\ handler' = "open" /\ hungUp' = FALSE /\ stop' = FALSE
        BY <2>1, <2>3 DEF ListWatch
    <2>5. context \in Seq(Nat) /\ Len(context) \in Nat /\ pooled \subseteq Nat
        BY <1>1 DEF TypeOK
    <2>6. /\ context' \in Seq(Nat) /\ pooled' \subseteq Nat /\ context' # <<>>
        <3>1. PICK c \in pooled \cup {Len(context) + 1} :
                    context' = Append(context, c) /\ pooled' = pooled \ {c}
            BY <2>1 DEF ListWatch
        <3>2. c \in Nat
            BY <2>5, <3>1
        <3>3. context' \in Seq(Nat) /\ Len(context') = Len(context) + 1
            BY <2>5, <3>1, <3>2, AppendProperties
        <3> QED
            BY <2>5, <3>1, <3>3
    <2>7. left' \subseteq Leftovers
        <3>1. left \subseteq Leftovers
            BY <1>1 DEF TypeOK, Leftovers
        <3>2. \A k \in Kinds : Leftover(Len(context), k, proxy[k]) \in Leftovers
            <4>1. TAKE k \in Kinds
            <4>2. /\ proxy[k] \in Proxy /\ MaxRv \in Nat
                BY TypesAre
            <4>3. proxy[k].listed \in Version /\ proxy[k].lrv \in Version
                  /\ proxy[k].items \in Seq(Item)
                BY <4>2 DEF Proxy, Version
            <4> QED
                BY <1>1, <2>5, <4>3 DEF Leftover, Leftovers
        <3> QED
            BY <2>1, <3>1, <3>2 DEF ListWatch
    <2> QED
        BY <1>1, <1>4, <2>1, <2>2, <2>4, <2>6, <2>7 DEF TypeOK, Leftovers, logVars
<1>10. CASE ProcessText
    <2>1. /\ Handle(Head(wire)) /\ wire' = Tail(wire) /\ wire # <<>>
          /\ UNCHANGED <<mode, page, serverVars, mixed, faults, logVars>>
        BY <1>10 DEF ProcessText
    <2>2. Head(wire) \in WireEvent /\ Tail(wire) \in Seq(WireEvent)
        BY <1>1, <2>1, HeadTailProperties
    <2> DEFINE e == Head(wire)
               x == [uid |-> e.uid, rv |-> e.rv]
               s == store[e.kind]
    <2>3. e.kind \in Kinds /\ x \in Item /\ e.rv \in Version /\ s \in Seq(Item)
        <3>1. e.kind \in Kinds /\ e.uid \in 1..MaxRv /\ e.rv \in 1..MaxRv
            BY <2>2 DEF WireEvent
        <3>2. e.rv \in Version
            BY <1>1, <3>1 DEF Version
        <3>3. x \in Item
            BY <3>1 DEF Item
        <3>4. s \in Seq(Item)
            BY <1>1, <3>1
        <3> QED
            BY <3>1, <3>2, <3>3, <3>4
    <2> HIDE DEF e, x, s
    <2>5. /\ Added(s, x) \in Seq(Item) /\ Modified(s, x) \in Seq(Item)
          /\ Deleted(s, x) \in Seq(Item)
        BY <2>3, StoreTypes
    <2>6. e.type \in {"ADDED", "MODIFIED", "DELETED"}
        BY <2>2 DEF e, WireEvent
    <2>7. store' \in [Kinds -> Seq(Item)] /\ lrv' \in [Kinds -> Version]
        BY <1>1, <2>1, <2>3, <2>5, <2>6 DEF Handle, e, x, s
    <2> QED
        BY <1>1, <2>1, <2>2, <2>7 DEF TypeOK, serverVars, poolVars, logVars
<1>11. CASE Done
    <2>1. page' \in [pc : {"init", "fetch", "read", "terminated"}, at : 0..Len(KindOrder)]
        BY <1>1, <1>11 DEF Done
    <2> QED
        BY <1>1, <1>11, <2>1 DEF Done, TypeOK, serverVars, poolVars, logVars
<1>12. CASE Breaks
    <2>1. /\ page' \in [pc : {"init", "fetch", "read", "terminated"}, at : 0..Len(KindOrder)]
          /\ store' \in [Kinds -> Seq(Item)] /\ lrv' \in [Kinds -> Version] /\ mode' = mode
          /\ mixed' \in BOOLEAN
        BY <1>1, <1>5, <1>12 DEF Breaks, TypeOK
    <2> QED
        BY <1>1, <1>3, <1>4, <1>12, <2>1 DEF Breaks, TypeOK, poolVars, logVars
<1>13. CASE Reload
    <2>1. Fresh(mode) /\ Fault /\ wire' = <<>> /\ UNCHANGED <<serverVars, logVars>>
        BY <1>13 DEF Reload
    <2> QED
        BY <1>1, <1>3, <1>4, <1>5, <2>1 DEF TypeOK, serverVars, poolVars, logVars
<1> QED
    BY <1>6, <1>7, <1>8, <1>9, <1>10, <1>11, <1>12, <1>13, <1>14, <1>15 DEF PageStep

-----------------------------------------------------------------------------
(***************************************************************************)
(* The cluster changes.                                                    *)
(***************************************************************************)

\* What the invariant says of one kind.
KindInStep(k) ==
    /\ ProxyInStep(k) /\ FirstSent(k) /\ NewToClient(k)
    /\ mode = "page" /\ page.pc = "read" /\ ~mixed => Streamed(k) /\ StreamedUpToProxy(k)

\* And of what was written, or may be by goroutines of earlier requests.
OnlyOfTheLog == WrittenOfLog /\ \A l \in left : LeftoverInStep(l)

LEMMA InvariantIs ==
    /\ IInv <=> /\ TypeOK /\ LogIsReadable /\ PageInStep /\ OnlyOfTheLog /\ ShowsAPast
                /\ \A k \in Kinds : KindInStep(k)
    /\ IInv' <=> /\ TypeOK' /\ LogIsReadable' /\ PageInStep' /\ OnlyOfTheLog' /\ ShowsAPast'
                 /\ \A k \in Kinds : KindInStep(k)'
BY DEF IInv, KindInStep, OnlyOfTheLog

\* The log, if it is not written to.
LEMMA LogInStep ==
    ASSUME IInv, log' = log
    PROVE  LogIsReadable' /\ \A k, rv : AsOf(k, rv)' = AsOf(k, rv)
BY OfTheLog, InvariantIs

\* A client that is between two versions does not see a change.
LEMMA ChangeInv ==
    ASSUME IInv, NEW c \in Kinds, Change(c), UNCHANGED <<serverVars, wire, mixed, faults, pageVars>>
    PROVE  IInv'
<1>1. /\ TypeOK' /\ LogIsReadable' /\ Len(log') = Len(log) + 1
      /\ \A i \in 1..Len(log) : log'[i] = log[i]
    BY LogGrows
<1>2. /\ Readable(log) /\ Len(log) \in Nat /\ NoVersion \notin Nat
      /\ PageInStep /\ OnlyOfTheLog /\ ShowsAPast /\ TypeOK /\ \A k \in Kinds : KindInStep(k)
    BY LogIs, InvariantIs, ViewAssumption
<1>3. /\ UNCHANGED <<handler, hungUp, stop, proxy, left, wire, mixed, mode, page, store, lrv>>
      /\ Live' = Live /\ Undisturbed' = Undisturbed
    BY DEF serverVars, poolVars, pageVars, Live, Undisturbed
<1>4. PageInStep'
    BY <1>1, <1>2, <1>3, TypesAre DEF PageInStep, Version
<1>7. OnlyOfTheLog'
    <2>1. ASSUME mode = "page", NEW n \in 1..Len(wire)
          PROVE  wire[n].rv <= Len(log')
        <3>1. wire[n] \in WireEvent
            BY TypesAre
        <3>2. wire[n].rv \in 1..MaxRv /\ MaxRv \in Nat
            BY <3>1, LogIs DEF WireEvent
        <3> QED
            BY <1>1, <1>2, <2>1, <3>2 DEF OnlyOfTheLog, WrittenOfLog
    <2> QED
        BY <1>2, <1>3, <2>1 DEF OnlyOfTheLog, WrittenOfLog, LeftoverInStep
<1>5. ShowsAPast'
    <2>1. ASSUME NEW k \in Kinds, mode = "page", lrv[k] # NoVersion
          PROVE  AsOf(k, lrv[k])' = AsOf(k, lrv[k])
        <3>1. lrv[k] \in Nat /\ lrv[k] <= Len(log)
            BY <1>2, <2>1, TypesAre DEF PageInStep, Version
        <3>2. View(log', k, lrv[k]) = View(log, k, lrv[k])
            BY <1>1, <1>2, <3>1, ViewOfPrefix
        <3> QED
            BY <1>3, <3>2, OfTheLog
    <2> QED
        BY <1>2, <1>3, <2>1 DEF ShowsAPast, Undisturbed
<1>6. ASSUME NEW k \in Kinds
      PROVE  KindInStep(k)'
    <2>1. ProxyInStep(k)'
        <3> DEFINE p == proxy[k]
        <3>1. /\ p.lrv \in 0..Len(log) \cup {NoVersion} /\ p.listed <= Len(log)
              /\ p.pc \in {"connect", "watch"} => p.lrv # NoVersion
              /\ p.pc = "list" => p.lrv = NoVersion
              /\ mode = "page" /\ p.pc # "ended" => p.lrv # NoVersion
              /\ p \in Proxy
            BY <1>2, TypesAre DEF KindInStep, ProxyInStep
        <3>2. ASSUME p.held # Nothing
              PROVE  /\ p.pc = "watch" /\ p.held \in Pending(k, p.lrv)'
                     /\ \A j \in Pending(k, p.lrv)' : p.held <= j
            <4>1. /\ p.pc = "watch" /\ p.held \in Pending(k, p.lrv) /\ p.lrv \in Nat
                  /\ \A j \in Pending(k, p.lrv) : p.held <= j
                BY <1>2, <3>1, <3>2 DEF KindInStep, ProxyInStep
            <4>2. Pending(k, p.lrv)' \subseteq Pending(k, p.lrv) \cup {Len(log) + 1}
                BY <1>1, <1>2, <1>3, <4>1 DEF Pending, IsEvent
            <4>3. p.held \in Pending(k, p.lrv)' /\ p.held <= Len(log)
                BY <1>1, <1>2, <1>3, <4>1 DEF Pending, IsEvent
            <4>4. \A j \in Pending(k, p.lrv)' : p.held <= j
                BY <1>2, <4>1, <4>2, <4>3 DEF Pending
            <4> QED
                BY <4>1, <4>3, <4>4
        <3>3. p.lrv \in 0..Len(log') \cup {NoVersion} /\ p.listed <= Len(log')
            BY <1>1, <1>2, <3>1 DEF Proxy
        <3> QED
            BY <1>3, <3>1, <3>2, <3>3 DEF ProxyInStep
    <2>2. FirstSent(k)'
        BY <1>2, <1>3 DEF KindInStep, FirstSent, Undisturbed
    <2>3. NewToClient(k)'
        <3>1. Told(k)' = Told(k)
            BY <1>3 DEF Told
        <3> QED
            BY <1>2, <1>3, <3>1 DEF KindInStep, NewToClient, Undisturbed
    <2>4. ASSUME mode = "page", page.pc = "read", ~mixed
          PROVE  Streamed(k)' /\ StreamedUpToProxy(k)'
        <3>1. Streamed(k) /\ StreamedUpToProxy(k) /\ lrv[k] \in Nat
            BY <1>2, <2>4, TypesAre DEF KindInStep, PageInStep, Version
        <3>2. /\ Sent(k)' = Sent(k)
              /\ \A i \in 1..Len(log) : i \in After(k)' <=> i \in After(k)
              /\ \A i \in After(k)' : i \in After(k) \/ i = Len(log) + 1
              /\ \A i \in After(k) : i \in 1..Len(log)
            BY <1>1, <1>2, <1>3 DEF Sent, After, IsEvent
        <3>3. Streamed(k)'
            BY <1>1, <1>2, <1>3, <3>1, <3>2 DEF Streamed
        <3>4. Live /\ proxy[k].pc # "ended" => proxy[k].lrv \in 0..Len(log)
            BY <1>2, <2>4 DEF KindInStep, ProxyInStep
        <3>5. StreamedUpToProxy(k)'
            BY <1>1, <1>2, <1>3, <3>1, <3>2, <3>4 DEF StreamedUpToProxy
        <3> QED
            BY <3>3, <3>5
    <2> QED
        BY <1>3, <2>1, <2>2, <2>3, <2>4 DEF KindInStep
<1> QED
    BY <1>1, <1>4, <1>5, <1>6, <1>7, InvariantIs

-----------------------------------------------------------------------------
(***************************************************************************)
(* What a step leaves alone.                                               *)
(***************************************************************************)

\* Neither the log nor what the client keeps has changed.
Unchanged == UNCHANGED <<log, mode, page, store, lrv, mixed, left>>

\* The parts that are not about one kind.
LEMMA SharedInStep ==
    ASSUME IInv, Unchanged, Live' => Live, page.pc # "read" => wire' = wire,
           mode = "page" => wire' = wire \/ \A n \in 1..Len(wire') : wire'[n].rv <= Len(log)
    PROVE  LogIsReadable' /\ PageInStep' /\ OnlyOfTheLog' /\ ShowsAPast'
<1>1. UNCHANGED <<log, mode, page, store, lrv, mixed>>
    BY DEF Unchanged
<1>2. PageInStep /\ OnlyOfTheLog /\ ShowsAPast /\ LogIsReadable
    BY InvariantIs
<1>3. LogIsReadable'
    BY <1>1, <1>2 DEF LogIsReadable, IsEvent
<1>4. PageInStep'
    BY <1>1, <1>2 DEF PageInStep
<1>5. \A k, rv : AsOf(k, rv)' = AsOf(k, rv)
    BY <1>1, OfTheLog
<1>6. ShowsAPast'
    BY <1>1, <1>2, <1>5 DEF ShowsAPast, Undisturbed
<1>7. OnlyOfTheLog'
    BY <1>1, <1>2 DEF Unchanged, OnlyOfTheLog, WrittenOfLog, LeftoverInStep
<1> QED
    BY <1>3, <1>4, <1>6, <1>7

\* The stream, to a client of a kind that nothing was written of.
LEMMA StreamInStep ==
    ASSUME IInv, Unchanged, NEW k \in Kinds, wire' \in Seq(WireEvent),
           Len(wire') >= Len(wire), \A n \in 1..Len(wire) : wire'[n] = wire[n],
           \A n \in (Len(wire) + 1)..Len(wire') : wire'[n].kind # k
    PROVE  /\ FirstSent(k)' /\ Told(k)' = Told(k)
           /\ Sent(k)' = Sent(k) /\ After(k)' = After(k)
           /\ Sent(k) \subseteq 1..Len(wire)
           /\ mode = "page" /\ page.pc = "read" /\ ~mixed => Streamed(k)'
<1>1. UNCHANGED <<log, mode, page, store, lrv, mixed>>
    BY DEF Unchanged
<1>2. KindInStep(k) /\ Len(wire) \in Nat /\ Len(wire') \in Nat
    BY InvariantIs, TypesAre
<1>3. \A n \in 1..Len(wire') : wire'[n].kind = k => n \in 1..Len(wire) /\ wire'[n] = wire[n]
    BY <1>2
<1>4. Sent(k)' = Sent(k) /\ Sent(k) \subseteq 1..Len(wire)
    BY <1>2, <1>3 DEF Sent
<1>5. After(k)' = After(k)
    BY <1>1 DEF After, IsEvent
<1>6. Told(k)' = Told(k)
    <2> DEFINE W == {m \in 1..Len(wire) : wire[m].kind = k}
               V == {m \in 1..Len(wire') : wire'[m].kind = k}
    <2>1. W = V /\ \A m \in W : wire'[m].uid = wire[m].uid
        BY <1>2, <1>3
    <2>2. {wire[n].uid : n \in W} = {wire'[n].uid : n \in V}
        BY <2>1
    <2> QED
        BY <1>1, <2>2 DEF Told
<1>7. FirstSent(k)'
    <2>1. FirstSent(k)
        BY <1>2 DEF KindInStep
    <2> QED
        BY <1>1, <1>2, <1>3, <2>1 DEF FirstSent, Undisturbed
<1>8. ASSUME mode = "page", page.pc = "read", ~mixed
      PROVE  Streamed(k)'
    <2>1. Streamed(k)
        BY <1>2, <1>8 DEF KindInStep
    <2>2. \A n \in Sent(k) : wire'[n] = wire[n]
        BY <1>4
    <2> QED
        BY <1>1, <1>4, <1>5, <2>1, <2>2 DEF Streamed
<1> QED
    BY <1>4, <1>5, <1>6, <1>7, <1>8

\* A kind whose goroutine did nothing.
LEMMA OtherKindInStep ==
    ASSUME IInv, Unchanged, Live' => Live, NEW k \in Kinds, proxy'[k] = proxy[k],
           wire' \in Seq(WireEvent),
           Len(wire') >= Len(wire), \A n \in 1..Len(wire) : wire'[n] = wire[n],
           \A n \in (Len(wire) + 1)..Len(wire') : wire'[n].kind # k
    PROVE  KindInStep(k)'
<1>1. UNCHANGED <<log, mode, page, store, lrv, mixed>>
    BY DEF Unchanged
<1>2. KindInStep(k)
    BY InvariantIs
<1>3. /\ FirstSent(k)' /\ Told(k)' = Told(k)
      /\ Sent(k)' = Sent(k) /\ After(k)' = After(k)
      /\ Sent(k) \subseteq 1..Len(wire)
      /\ mode = "page" /\ page.pc = "read" /\ ~mixed => Streamed(k)'
    BY StreamInStep
<1>4. ProxyInStep(k)'
    <2>1. \A rv : Pending(k, rv)' = Pending(k, rv)
        BY <1>1 DEF Pending, IsEvent
    <2>2. ProxyInStep(k)
        BY <1>2 DEF KindInStep
    <2> QED
        BY <1>1, <2>1, <2>2 DEF ProxyInStep
<1>5. NewToClient(k)'
    <2>1. NewToClient(k)
        BY <1>2 DEF KindInStep
    <2> QED
        BY <1>1, <1>3, <2>1 DEF NewToClient, Undisturbed
<1>6. ASSUME mode = "page", page.pc = "read", ~mixed
      PROVE  StreamedUpToProxy(k)'
    <2>1. StreamedUpToProxy(k)
        BY <1>2, <1>6 DEF KindInStep
    <2>2. \A n \in Sent(k) : wire'[n] = wire[n]
        BY <1>3
    <2> QED
        BY <1>1, <1>3, <2>1, <2>2 DEF StreamedUpToProxy
<1> QED
    BY <1>1, <1>3, <1>4, <1>5, <1>6 DEF KindInStep

\* Compaction takes no event out of the log that a view is made of.
LEMMA CompactInv ==
    ASSUME IInv, Compact, UNCHANGED <<serverVars, wire, mixed, faults, pageVars>>
    PROVE  IInv'
<1>1. Unchanged /\ Live' = Live /\ UNCHANGED <<proxy, wire>>
    BY DEF Compact, serverVars, poolVars, pageVars, Unchanged, Live
<1>2. TypeOK' /\ wire \in Seq(WireEvent)
    BY PageTypes, TypesAre
<1>3. LogIsReadable' /\ PageInStep' /\ OnlyOfTheLog' /\ ShowsAPast'
    BY <1>1, SharedInStep
<1>4. \A k \in Kinds : KindInStep(k)'
    <2>1. Len(wire) \in Nat
        BY <1>2
    <2> QED
        BY <1>1, <1>2, <2>1, OtherKindInStep
<1> QED
    BY <1>2, <1>3, <1>4, InvariantIs

\* A handler returns: if it is the client's, nothing more reaches it.
LEMMA ReturnInv ==
    ASSUME IInv, ListWatchReturns \/ FormerReturns, UNCHANGED pageVars
    PROVE  IInv'
<1>1. Unchanged /\ (Live' => Live) /\ UNCHANGED <<proxy, wire>>
    BY DEF ListWatchReturns, FormerReturns, pageVars, logVars, Unchanged, Live
<1>2. TypeOK' /\ wire \in Seq(WireEvent)
    BY PageTypes, TypesAre
<1>3. LogIsReadable' /\ PageInStep' /\ OnlyOfTheLog' /\ ShowsAPast'
    BY <1>1, SharedInStep
<1>4. \A k \in Kinds : KindInStep(k)'
    <2>1. Len(wire) \in Nat
        BY <1>2
    <2> QED
        BY <1>1, <1>2, <2>1, OtherKindInStep
<1> QED
    BY <1>2, <1>3, <1>4, InvariantIs

\* A goroutine of an earlier request writes: it is of nothing that is not in the log, and
\* more is not said of a client that was written to by it.
LEMMA LeftoverInv ==
    ASSUME IInv, LeftoverWrites, UNCHANGED pageVars
    PROVE  IInv'
<1>1. PICK l \in left : LeftoverItem(l) \/ LeftoverEvent(l)
    BY DEF LeftoverWrites
<1>2. /\ Live /\ mixed' = TRUE /\ UNCHANGED <<handler, hungUp, proxy, log>>
      /\ UNCHANGED <<mode, page, store, lrv>> /\ ~Undisturbed'
    BY <1>1 DEF LeftoverItem, LeftoverEvent, Sends, logVars, pageVars, Undisturbed
<1>3. /\ PageInStep /\ OnlyOfTheLog /\ ShowsAPast /\ LogIsReadable /\ TypeOK
      /\ Len(log) \in Nat /\ wire \in Seq(WireEvent) /\ NoVersion \notin Nat
    BY InvariantIs, TypesAre, LogIs, ViewAssumption
<1>4. TypeOK' /\ LogIsReadable' /\ page.pc = "read"
    BY <1>2, <1>3, PageTypes, LogInStep DEF PageInStep
<1>5. PageInStep'
    BY <1>2, <1>3, <1>4 DEF PageInStep
<1>6. ShowsAPast' /\ \A k \in Kinds : KindInStep(k)'
    <2>1. ASSUME NEW k \in Kinds
          PROVE  ProxyInStep(k)'
        <3>1. ProxyInStep(k) /\ \A rv : Pending(k, rv)' = Pending(k, rv)
            BY <1>2, TypesAre DEF Pending, IsEvent
        <3> QED
            BY <1>2, <3>1 DEF ProxyInStep
    <2> QED
        BY <1>2, <2>1 DEF KindInStep, FirstSent, NewToClient, ShowsAPast
<1>7. OnlyOfTheLog'
    <2>1. mode # "page" => OnlyOfTheLog'
        BY <1>2 DEF OnlyOfTheLog, WrittenOfLog, LeftoverInStep
    <2>2. ASSUME mode = "page"
          PROVE  OnlyOfTheLog'
        <3>1. l.since # NoVersion /\ l.items = <<>>
            BY <1>3, <2>2 DEF OnlyOfTheLog, LeftoverInStep
        <3>2. PICK i \in Pending(l.kind, l.since) :
                Sends(l, [kind |-> l.kind, type |-> log[i].type, uid |-> log[i].uid, rv |-> i],
                      i, <<>>)
            BY <1>1, <3>1 DEF LeftoverItem, LeftoverEvent
        <3>3. i \in Nat /\ i <= Len(log)
            <4>1. l.since \in Nat
                BY <1>3, <3>1 DEF TypeOK, Version
            <4> QED
                BY <1>3, <4>1 DEF Pending
        <3>4. /\ Len(wire') = Len(wire) + 1 /\ Len(wire) \in Nat
              /\ \A n \in 1..Len(wire) : wire'[n] = wire[n]
              /\ wire'[Len(wire) + 1].rv = i
            <4> DEFINE e == [kind |-> l.kind, type |-> log[i].type, uid |-> log[i].uid, rv |-> i]
            <4>1. wire' = Append(wire, e) /\ e.rv = i
                BY <3>2 DEF Sends
            <4> HIDE DEF e
            <4> QED
                BY <1>3, <4>1
        <3>5. WrittenOfLog'
            BY <1>2, <1>3, <3>3, <3>4 DEF OnlyOfTheLog, WrittenOfLog
        <3>6. left' = (left \ {l}) \cup {[l EXCEPT !.since = i, !.items = <<>>]}
            BY <3>2 DEF Sends
        <3>7. LET m == [l EXCEPT !.since = i, !.items = <<>>]
              IN  m.since # NoVersion /\ m.items = <<>>
            <4>1. l \in Leftovers
                BY <1>3 DEF TypeOK, Leftovers
            <4> QED
                BY <1>3, <3>3, <4>1 DEF Leftovers
        <3>8. \A m \in left' : LeftoverInStep(m)'
            BY <1>2, <1>3, <3>6, <3>7 DEF OnlyOfTheLog, LeftoverInStep
        <3> QED
            BY <3>5, <3>8 DEF OnlyOfTheLog
    <2> QED
        BY <2>1, <2>2
<1> QED
    BY <1>4, <1>5, <1>6, <1>7, InvariantIs

-----------------------------------------------------------------------------
(***************************************************************************)
(* The goroutines.                                                         *)
(***************************************************************************)

\* What no step of a goroutine changes.
LEMMA GoroutineLeaves ==
    ASSUME NEW k, ProxyStep(k) \/ WatchCloses(k), UNCHANGED pageVars
    PROVE  Unchanged
BY DEF ProxyStep, DoListAndWatch, SendListedItem, ListSent, Connect, Receive, StopCh, WriteEvent,
       WatchCloses, WriteFails, Ends, Goes, Unchanged, poolVars, logVars, pageVars

\* A goroutine that writes nothing concerns its own kind.
LEMMA GoroutineInStep ==
    ASSUME IInv, Unchanged, Live' => Live, wire' = wire, TypeOK', NEW k \in Kinds,
           \A j \in Kinds : j # k => proxy'[j] = proxy[j],
           ProxyInStep(k)',
           Live => /\ Told(k)' = Told(k) => NewToClient(k)'
                   /\ mode = "page" /\ page.pc = "read" /\ ~mixed /\ Sent(k)' = Sent(k) /\ After(k)' = After(k)
                         => StreamedUpToProxy(k)'
    PROVE  IInv'
<1>1. LogIsReadable' /\ PageInStep' /\ OnlyOfTheLog' /\ ShowsAPast'
    BY SharedInStep
<1>2. wire \in Seq(WireEvent) /\ wire' \in Seq(WireEvent) /\ Len(wire) \in Nat
      /\ Len(wire') >= Len(wire)
    BY TypesAre
<1>3. \A j \in Kinds : j # k => KindInStep(j)'
    BY <1>2, OtherKindInStep
<1>4. /\ FirstSent(k)' /\ Told(k)' = Told(k) /\ Sent(k)' = Sent(k) /\ After(k)' = After(k)
      /\ mode = "page" /\ page.pc = "read" /\ ~mixed => Streamed(k)'
    BY <1>2, StreamInStep
<1>5. mode' = mode /\ page' = page /\ mixed' = mixed
    BY DEF Unchanged
<1>6. KindInStep(k)'
    <2>1. CASE Live'
        BY <1>4, <1>5, <2>1 DEF KindInStep
    <2>2. CASE ~Live'
        <3>1. NewToClient(k)' /\ StreamedUpToProxy(k)'
            BY <2>2 DEF NewToClient, StreamedUpToProxy, Undisturbed
        <3> QED
            BY <1>4, <1>5, <3>1 DEF KindInStep
    <2> QED
        BY <2>1, <2>2
<1> QED
    BY <1>1, <1>3, <1>6, InvariantIs

\* A goroutine that ends says nothing more.
LEMMA EndsInStep ==
    ASSUME IInv, Unchanged, TypeOK', wire' = wire, NEW k \in Kinds, Ends(k)
    PROVE  IInv'
<1>1. /\ proxy' = [proxy EXCEPT ![k].pc = "ended", ![k].items = <<>>, ![k].held = Nothing]
      /\ Live' = Live
    BY DEF Ends, Live
<1>2. /\ proxy \in [Kinds -> Proxy] /\ proxy[k] \in Proxy /\ ProxyInStep(k)
    BY TypesAre
<1>3. /\ proxy'[k].pc = "ended" /\ proxy'[k].held = Nothing
      /\ proxy'[k].lrv = proxy[k].lrv /\ proxy'[k].listed = proxy[k].listed
      /\ \A j \in Kinds : j # k => proxy'[j] = proxy[j]
    BY <1>1, <1>2 DEF Proxy
<1>4. log' = log /\ mode' = mode
    BY DEF Unchanged
<1>5. ProxyInStep(k)'
    BY <1>1, <1>2, <1>3, <1>4 DEF ProxyInStep
<1>6. NewToClient(k)' /\ StreamedUpToProxy(k)'
    BY <1>3 DEF NewToClient, StreamedUpToProxy, Undisturbed
<1> QED
    BY <1>1, <1>3, <1>5, <1>6, GoroutineInStep

\* One that goes on to watch, with its version, is as far as it was.
LEMMA GoesInStep ==
    ASSUME IInv, Unchanged, TypeOK', wire' = wire, NEW k \in Kinds, NEW pc \in {"connect", "watch"},
           Goes(k, pc), proxy[k].pc \in {"start", "connect", "watch"},
           proxy[k].lrv # NoVersion, proxy[k].held = Nothing
    PROVE  IInv'
<1>1. proxy' = [proxy EXCEPT ![k].pc = pc] /\ Live' = Live
    BY DEF Goes, Live
<1>2. /\ proxy \in [Kinds -> Proxy] /\ proxy[k] \in Proxy /\ ProxyInStep(k) /\ KindInStep(k)
    BY TypesAre, InvariantIs
<1>3. /\ proxy'[k].pc = pc /\ proxy'[k].held = Nothing /\ proxy'[k].items = proxy[k].items
      /\ proxy'[k].lrv = proxy[k].lrv /\ proxy'[k].listed = proxy[k].listed
      /\ \A j \in Kinds : j # k => proxy'[j] = proxy[j]
    BY <1>1, <1>2 DEF Proxy
<1>4. UNCHANGED <<log, mode, page, store, lrv, mixed>>
    BY DEF Unchanged
<1>5. ProxyInStep(k)'
    BY <1>1, <1>2, <1>3, <1>4 DEF ProxyInStep
<1>6. Told(k)' = Told(k) => NewToClient(k)'
    BY <1>1, <1>2, <1>3, <1>4 DEF KindInStep, NewToClient, Undisturbed
<1>7. mode = "page" /\ page.pc = "read" /\ ~mixed /\ Sent(k)' = Sent(k) /\ After(k)' = After(k)
        => StreamedUpToProxy(k)'
    BY <1>1, <1>2, <1>3, <1>4 DEF KindInStep, StreamedUpToProxy
<1> QED
    BY <1>1, <1>3, <1>5, <1>6, <1>7, GoroutineInStep

\* A list is of the objects that there are, and the client was told of none.
LEMMA DoListAndWatchInv ==
    ASSUME IInv, NEW k \in Kinds, DoListAndWatch(k), UNCHANGED pageVars
    PROVE  IInv'
<1>1. TypeOK' /\ Unchanged /\ wire' = wire /\ proxy[k].pc = "start"
    BY ProxyTypes, GoroutineLeaves DEF ProxyStep, DoListAndWatch
<1>2. /\ proxy \in [Kinds -> Proxy] /\ proxy[k] \in Proxy /\ ProxyInStep(k) /\ KindInStep(k)
      /\ Len(log) \in 0..MaxRv
    BY TypesAre, InvariantIs
<1>3. proxy[k].held = Nothing
    BY <1>1, <1>2 DEF ProxyInStep
<1>4. CASE Ends(k)
    BY <1>1, <1>4, EndsInStep
<1>5. CASE Goes(k, "connect") /\ proxy[k].lrv # NoVersion
    BY <1>1, <1>3, <1>5, GoesInStep
<1>6. ASSUME proxy[k].lrv = NoVersion, NEW items \in Listings(k),
             proxy' = [proxy EXCEPT ![k].pc = "list", ![k].items = items,
                                    ![k].listed = Len(log)],
             UNCHANGED <<handler, hungUp>>
      PROVE  IInv'
    <2>1. /\ proxy'[k].pc = "list" /\ proxy'[k].held = Nothing /\ proxy'[k].items = items
          /\ proxy'[k].lrv = NoVersion /\ proxy'[k].listed = Len(log)
          /\ \A j \in Kinds : j # k => proxy'[j] = proxy[j]
        BY <1>2, <1>3, <1>6 DEF Proxy
    <2>2. UNCHANGED <<log, mode, page, store, lrv, mixed>> /\ Live' = Live
        BY <1>1, <1>6 DEF Unchanged, Live
    <2>3. ProxyInStep(k)'
        BY <1>1, <1>2, <1>6, <2>1, <2>2 DEF ProxyInStep
    <2>4. /\ items \in Seq(Item) /\ Distinct(items)
          /\ \A j \in 1..Len(items) : items[j].uid <= Len(log)
        BY ListingIs
    <2>5. \A i, j \in 1..Len(items) : items[i].uid = items[j].uid => i = j
        BY <2>4, ItemsIs DEF Distinct
    <2>6. Live /\ Undisturbed => Told(k) = {}
        BY <1>1, <1>2, <1>6 DEF KindInStep, NewToClient, Undisturbed
    <2>8. Live /\ Told(k)' = Told(k) => NewToClient(k)'
        BY <2>1, <2>2, <2>4, <2>5, <2>6 DEF NewToClient, Undisturbed
    <2>9. mode # "page"
        BY <1>1, <1>2, <1>6 DEF ProxyInStep
    <2> QED
        BY <1>1, <2>1, <2>2, <2>3, <2>8, <2>9, GoroutineInStep
<1> QED
    BY <1>4, <1>5, <1>6 DEF DoListAndWatch

\* The list is out: all that the client was told of is of its version or before.
LEMMA ListSentInv ==
    ASSUME IInv, NEW k \in Kinds, ListSent(k), UNCHANGED pageVars
    PROVE  IInv'
<1>1. TypeOK' /\ Unchanged /\ wire' = wire /\ proxy[k].pc = "list" /\ Live' = Live
    BY ProxyTypes, GoroutineLeaves DEF ProxyStep, ListSent, Live
<1>2. /\ proxy \in [Kinds -> Proxy] /\ proxy[k] \in Proxy /\ ProxyInStep(k) /\ KindInStep(k)
      /\ Len(log) \in 0..MaxRv
    BY TypesAre, InvariantIs
<1>3. proxy[k].held = Nothing /\ proxy[k].lrv = NoVersion
    BY <1>1, <1>2 DEF ProxyInStep
<1>4. /\ proxy'[k].pc = "connect" /\ proxy'[k].held = Nothing
      /\ proxy'[k].lrv = proxy[k].listed /\ proxy'[k].listed = 0
      /\ \A j \in Kinds : j # k => proxy'[j] = proxy[j]
    BY <1>2, <1>3 DEF ListSent, Proxy
<1>5. proxy[k].listed \in 0..Len(log)
    BY <1>2 DEF ProxyInStep, Proxy
<1>6. UNCHANGED <<log, mode, page, store, lrv, mixed>>
    BY <1>1 DEF Unchanged
<1>7. proxy[k].listed # NoVersion
    BY <1>2, <1>5, ViewAssumption
<1>8. ProxyInStep(k)'
    BY <1>2, <1>4, <1>5, <1>6, <1>7 DEF ProxyInStep
<1>9. Live /\ Told(k)' = Told(k) => NewToClient(k)'
    BY <1>1, <1>2, <1>4, <1>6, <1>7 DEF KindInStep, NewToClient, Undisturbed
<1>10. mode # "page"
    BY <1>1, <1>2, <1>3 DEF ProxyInStep
<1> QED
    BY <1>1, <1>4, <1>8, <1>9, <1>10, GoroutineInStep

\* Connecting, a closed watch, and the end.
LEMMA ConnectInv ==
    ASSUME IInv, NEW k \in Kinds, Connect(k) \/ WatchCloses(k) \/ StopCh(k), UNCHANGED pageVars
    PROVE  IInv'
<1>1. TypeOK' /\ Unchanged /\ wire' = wire
    BY ProxyTypes, GoroutineLeaves DEF ProxyStep, Connect, WatchCloses, StopCh
<1>2. /\ proxy \in [Kinds -> Proxy] /\ proxy[k] \in Proxy /\ ProxyInStep(k)
    BY TypesAre
<1>3. CASE Ends(k)
    BY <1>1, <1>3, EndsInStep
<1>4. CASE Connect(k) /\ Goes(k, "watch")
    <2>1. proxy[k].pc = "connect" /\ proxy[k].lrv # NoVersion /\ proxy[k].held = Nothing
        BY <1>2, <1>4 DEF Connect, ProxyInStep
    <2> QED
        BY <1>1, <1>4, <2>1, GoesInStep
<1>5. CASE WatchCloses(k)
    <2>1. proxy[k].pc = "watch" /\ proxy[k].lrv # NoVersion /\ proxy[k].held = Nothing
          /\ Goes(k, "connect")
        BY <1>2, <1>5 DEF WatchCloses, ProxyInStep
    <2> QED
        BY <1>1, <2>1, GoesInStep
<1> QED
    BY <1>3, <1>4, <1>5 DEF Connect, StopCh

\* The watch delivers the next event of its kind.
LEMMA ReceiveInv ==
    ASSUME IInv, NEW k \in Kinds, Receive(k), UNCHANGED pageVars
    PROVE  IInv'
<1> DEFINE P == Pending(k, proxy[k].lrv)
           i == NextEvent(k, proxy[k].lrv)
<1>1. TypeOK' /\ Unchanged /\ wire' = wire /\ proxy[k].pc = "watch" /\ Live' = Live
      /\ proxy[k].held = Nothing /\ P # {}
    BY ProxyTypes, GoroutineLeaves DEF ProxyStep, Receive, Live
<1>2. /\ proxy \in [Kinds -> Proxy] /\ proxy[k] \in Proxy /\ ProxyInStep(k) /\ KindInStep(k)
      /\ Len(log) \in 0..MaxRv /\ MaxRv \in Nat
    BY TypesAre, InvariantIs
<1>3. proxy[k].lrv \in 0..Len(log)
    BY <1>1, <1>2 DEF ProxyInStep
<1>4. i \in P /\ \A j \in P : i <= j
    <2>1. P \in SUBSET Nat
        BY <1>2, <1>3 DEF Pending
    <2>2. PICK m \in P : \A j \in P : m <= j
        <3> HIDE DEF P
        <3> QED
            BY <1>1, <2>1, LeastNatural
    <2> QED
        BY <2>2 DEF NextEvent
<1>5. proxy' = [proxy EXCEPT ![k].held = i]
    BY DEF Receive
<1> HIDE DEF i
<1>6. /\ proxy'[k].pc = "watch" /\ proxy'[k].held = i /\ proxy'[k].items = proxy[k].items
      /\ proxy'[k].lrv = proxy[k].lrv /\ proxy'[k].listed = proxy[k].listed
      /\ \A j \in Kinds : j # k => proxy'[j] = proxy[j]
    BY <1>1, <1>2, <1>5 DEF Proxy
<1>7. UNCHANGED <<log, mode, page, store, lrv, mixed>>
    BY <1>1 DEF Unchanged
<1>8. ProxyInStep(k)'
    <2>1. Pending(k, proxy[k].lrv)' = Pending(k, proxy'[k].lrv)
        BY <1>6, <1>7 DEF Pending, IsEvent
    <2>2. Pending(k, proxy'[k].lrv) = P
        BY <1>6
    <2> HIDE DEF P
    <2> QED
        BY <1>1, <1>2, <1>4, <1>6, <1>7, <2>1, <2>2 DEF ProxyInStep
<1>9. Told(k)' = Told(k) => NewToClient(k)'
    BY <1>1, <1>2, <1>6, <1>7 DEF KindInStep, NewToClient, Undisturbed
<1>10. mode = "page" /\ page.pc = "read" /\ ~mixed /\ Sent(k)' = Sent(k) /\ After(k)' = After(k)
         => StreamedUpToProxy(k)'
    BY <1>1, <1>2, <1>6, <1>7 DEF KindInStep, StreamedUpToProxy
<1> QED
    BY <1>1, <1>6, <1>8, <1>9, <1>10, GoroutineInStep

\* What a goroutine writes: the client is told of one object more, or nobody listens.
LEMMA WrittenIs ==
    ASSUME IInv, NEW k \in Kinds, NEW e \in WireEvent, e.kind = k, Written(e), Unchanged
    PROVE  /\ wire \in Seq(WireEvent) /\ Len(wire) \in Nat /\ Len(wire') \in Nat
           /\ Len(wire') >= Len(wire) /\ \A n \in 1..Len(wire) : wire'[n] = wire[n]
           /\ \A j \in Kinds : j # k =>
                \A n \in (Len(wire) + 1)..Len(wire') : wire'[n].kind # j
           /\ ~Live => wire' = wire
           /\ Live => /\ Len(wire') = Len(wire) + 1 /\ wire'[Len(wire) + 1] = e
                      /\ \A u \in Told(k)' : u \in Told(k) \/ u = e.uid
                      /\ Sent(k)' = Sent(k) \cup {Len(wire) + 1}
                      /\ Sent(k) \subseteq 1..Len(wire)
<1>1. wire \in Seq(WireEvent) /\ Len(wire) \in Nat
    BY TypesAre
<1>2. CASE ~Live
    <2>1. wire' = wire
        BY <1>2 DEF Written, Live
    <2> QED
        BY <1>1, <1>2, <2>1
<1>3. CASE Live
    <2>1. wire' = Append(wire, e)
        BY <1>3 DEF Written, Live
    <2>2. /\ wire' \in Seq(WireEvent) /\ Len(wire') = Len(wire) + 1
          /\ \A n \in 1..Len(wire) : wire'[n] = wire[n]
          /\ wire'[Len(wire) + 1] = e
        BY <1>1, <2>1, AppendProperties
    <2>3. Sent(k)' = Sent(k) \cup {Len(wire) + 1} /\ Sent(k) \subseteq 1..Len(wire)
        BY <1>1, <2>2 DEF Sent
    <2>4. \A n \in (Len(wire) + 1)..Len(wire') : wire'[n].kind = k
        BY <1>1, <2>2
    <2>5. store' = store
        BY DEF Unchanged
    <2>6. ASSUME NEW u \in Told(k)', u \notin {store[k][j].uid : j \in 1..Len(store[k])}
          PROVE  u \in Told(k) \/ u = e.uid
        <3>1. PICK n \in Sent(k)' : u = wire'[n].uid
            BY <2>5, <2>6 DEF Told, Sent
        <3>2. CASE n \in Sent(k)
            BY <2>2, <2>3, <3>1, <3>2 DEF Told, Sent
        <3> QED
            BY <2>2, <2>3, <3>1, <3>2
    <2>7. \A u \in Told(k)' : u \in Told(k) \/ u = e.uid
        BY <2>6 DEF Told
    <2> QED
        BY <1>1, <1>3, <2>2, <2>3, <2>4, <2>7
<1> QED
    BY <1>2, <1>3

\* A new object may be written if the client was not told of it.
LEMMA FirstWritten ==
    ASSUME IInv, NEW k \in Kinds, NEW e \in WireEvent, e.kind = k, Written(e), Unchanged,
           Live, Undisturbed, e.type = "ADDED" => e.uid \notin Told(k)
    PROVE  FirstSent(k)'
<1>1. /\ Len(wire) \in Nat /\ Len(wire') = Len(wire) + 1
      /\ \A n \in 1..Len(wire) : wire'[n] = wire[n]
      /\ wire'[Len(wire) + 1] = e
    BY WrittenIs
<1>2. FirstSent(k) /\ store' = store
    BY InvariantIs DEF KindInStep, Unchanged
<1>3. ASSUME NEW n \in 1..Len(wire'), wire'[n].kind = k, wire'[n].type = "ADDED"
      PROVE  /\ \A j \in 1..Len(store[k]) : store[k][j].uid # wire'[n].uid
             /\ \A m \in 1..(n - 1) : wire'[m].kind = k => wire'[m].uid # wire'[n].uid
    <2>1. CASE n \in 1..Len(wire)
        <3>1. n \in 1..Len(wire) /\ wire'[n] = wire[n] /\ \A m \in 1..(n - 1) : wire'[m] = wire[m]
            BY <1>1, <2>1
        <3>2. /\ \A j \in 1..Len(store[k]) : store[k][j].uid # wire[n].uid
              /\ \A m \in 1..(n - 1) : wire[m].kind = k => wire[m].uid # wire[n].uid
            BY <1>2, <1>3, <3>1 DEF FirstSent, Undisturbed
        <3> QED
            BY <3>1, <3>2
    <2>2. CASE n = Len(wire) + 1
        <3>1. e.uid \notin Told(k) /\ wire'[n] = e
            BY <1>1, <1>3, <2>2
        <3>2. \A j \in 1..Len(store[k]) : store[k][j].uid # e.uid
            BY <3>1 DEF Told
        <3>3. ASSUME NEW m \in 1..(n - 1), wire'[m].kind = k
              PROVE  wire'[m].uid # e.uid
            <4>1. m \in 1..Len(wire) /\ wire[m].kind = k /\ wire'[m].uid = wire[m].uid
                BY <1>1, <2>2, <3>3
            <4>2. wire[m].uid \in Told(k)
                BY <4>1 DEF Told
            <4> QED
                BY <3>1, <4>1, <4>2
        <3> QED
            BY <3>1, <3>2, <3>3
    <2> QED
        BY <1>1, <2>1, <2>2
<1> QED
    BY <1>2, <1>3 DEF FirstSent, Undisturbed

\* A listed item is of an object that the client was not told of; a page is never
\* listed for.
LEMMA SendListedItemInv ==
    ASSUME IInv, NEW k \in Kinds, SendListedItem(k), UNCHANGED pageVars
    PROVE  IInv'
<1> DEFINE items == proxy[k].items
           item == Head(items)
           e == [kind |-> k, type |-> "ADDED", uid |-> item.uid, rv |-> item.rv]
<1>1. TypeOK' /\ Unchanged /\ proxy[k].pc = "list" /\ items # <<>>
    BY ProxyTypes, GoroutineLeaves DEF ProxyStep, SendListedItem
<1>2. /\ proxy \in [Kinds -> Proxy] /\ proxy[k] \in Proxy /\ ProxyInStep(k) /\ KindInStep(k)
      /\ Len(log) \in 0..MaxRv /\ MaxRv \in Nat /\ items \in Seq(Item)
    BY TypesAre, InvariantIs DEF Proxy
<1>3. proxy[k].held = Nothing /\ proxy[k].lrv = NoVersion
    BY <1>1, <1>2 DEF ProxyInStep
<1>4. CASE WriteFails(k)
    BY <1>1, <1>4, EndsInStep DEF WriteFails
<1>5. CASE ~WriteFails(k)
    <2>1. /\ Written(e) /\ Live' = Live
          /\ proxy' = [proxy EXCEPT ![k].items = Tail(items)]
        BY <1>5 DEF SendListedItem, Live
    <2>2. /\ item \in Item /\ Tail(items) \in Seq(Item) /\ Len(Tail(items)) = Len(items) - 1
          /\ \A j \in 1..Len(Tail(items)) : Tail(items)[j] = items[j + 1]
          /\ item = items[1] /\ Len(items) \in Nat /\ Len(items) > 0
        BY <1>1, <1>2, HeadTailProperties
    <2>3. e \in WireEvent /\ e.kind = k
        BY <2>2 DEF Item, WireEvent
    <2>4. /\ proxy'[k].pc = "list" /\ proxy'[k].held = Nothing
          /\ proxy'[k].items = Tail(items) /\ proxy'[k].lrv = NoVersion
          /\ proxy'[k].listed = proxy[k].listed
          /\ \A j \in Kinds : j # k => proxy'[j] = proxy[j]
        BY <1>1, <1>2, <1>3, <2>1 DEF Proxy
    <2>5. UNCHANGED <<log, mode, page, store, lrv, mixed>>
        BY <1>1 DEF Unchanged
    <2>6. /\ wire \in Seq(WireEvent) /\ Len(wire) \in Nat /\ Len(wire') \in Nat
          /\ Len(wire') >= Len(wire) /\ \A n \in 1..Len(wire) : wire'[n] = wire[n]
          /\ \A j \in Kinds : j # k =>
               \A n \in (Len(wire) + 1)..Len(wire') : wire'[n].kind # j
          /\ ~Live => wire' = wire
          /\ Live => \A u \in Told(k)' : u \in Told(k) \/ u = e.uid
        BY <1>1, <2>1, <2>3, WrittenIs
    <2>7. wire' \in Seq(WireEvent)
        BY <1>1 DEF TypeOK
    <2>16. mode # "page"
        BY <1>1, <1>2, <1>3 DEF ProxyInStep
    <2>8. LogIsReadable' /\ PageInStep' /\ OnlyOfTheLog' /\ ShowsAPast'
        <3>1. page.pc # "read" => ~Live
            BY InvariantIs DEF PageInStep
        <3> QED
            BY <1>1, <2>1, <2>6, <2>16, <3>1, SharedInStep
    <2>9. \A j \in Kinds : j # k => KindInStep(j)'
        BY <1>1, <2>1, <2>4, <2>6, <2>7, OtherKindInStep
    <2>10. ProxyInStep(k)'
        BY <1>2, <1>3, <2>1, <2>4, <2>5, <2>16 DEF ProxyInStep
    <2>14. mode' = mode /\ page' = page
        BY <1>1 DEF Unchanged
    <2>15. ASSUME ~Undisturbed
           PROVE  KindInStep(k)'
        BY <2>5, <2>10, <2>15, <2>16 DEF KindInStep, FirstSent, NewToClient, Undisturbed
    <2>11. ASSUME Live, Undisturbed
           PROVE  KindInStep(k)'
        <3>1. /\ \A u \in Told(k) : u <= proxy[k].listed /\ \A j \in 1..Len(items) : items[j].uid # u
              /\ \A j \in 1..Len(items) : items[j].uid <= proxy[k].listed
              /\ \A i, j \in 1..Len(items) : items[i].uid = items[j].uid => i = j
            BY <1>1, <1>2, <2>11 DEF KindInStep, NewToClient, Undisturbed
        <3>2. e.uid = items[1].uid /\ e.uid \notin Told(k)
            BY <2>2, <3>1
        <3>3. FirstSent(k)'
            BY <1>1, <2>1, <2>3, <2>11, <3>2, FirstWritten
        <3>4. \A u \in Told(k)' : u <= proxy[k].listed
                                  /\ \A j \in 1..Len(Tail(items)) : Tail(items)[j].uid # u
            <4> HIDE DEF items
            <4> QED
                BY <2>2, <2>6, <2>11, <3>1, <3>2
        <3>5. /\ \A j \in 1..Len(Tail(items)) : Tail(items)[j].uid <= proxy[k].listed
              /\ \A i, j \in 1..Len(Tail(items)) : Tail(items)[i].uid = Tail(items)[j].uid => i = j
            <4> HIDE DEF items
            <4> QED
                BY <2>2, <3>1
        <3>6. NewToClient(k)'
            <4> HIDE DEF items
            <4> QED
                BY <2>4, <3>4, <3>5 DEF NewToClient, Undisturbed
        <3> QED
            BY <2>10, <2>14, <2>16, <3>3, <3>6 DEF KindInStep
    <2>12. ASSUME ~Live
           PROVE  KindInStep(k)'
        <3>1. NewToClient(k)' /\ StreamedUpToProxy(k)'
            BY <2>1, <2>12 DEF NewToClient, StreamedUpToProxy, Undisturbed
        <3>2. FirstSent(k)' /\ (mode = "page" /\ page.pc = "read" /\ ~mixed => Streamed(k)')
            BY <1>1, <2>6, <2>7, <2>12, StreamInStep
        <3> QED
            BY <2>10, <2>14, <2>16, <3>1, <3>2 DEF KindInStep
    <2>13. KindInStep(k)'
        BY <2>11, <2>12, <2>15
    <2> QED
        BY <1>1, <2>8, <2>9, <2>13, InvariantIs
<1> QED
    BY <1>4, <1>5

\* An event of the watch is the next one of its kind, and it is the first that names
\* the object if that is new.
LEMMA WriteEventInv ==
    ASSUME IInv, NEW k \in Kinds, WriteEvent(k), UNCHANGED pageVars
    PROVE  IInv'
<1> DEFINE i == proxy[k].held
           a == proxy[k].lrv
           e == [kind |-> k, type |-> log[i].type, uid |-> log[i].uid, rv |-> i]
<1>1. TypeOK' /\ Unchanged /\ i # Nothing
    BY ProxyTypes, GoroutineLeaves DEF ProxyStep, WriteEvent
<1>2. /\ proxy \in [Kinds -> Proxy] /\ proxy[k] \in Proxy /\ ProxyInStep(k) /\ KindInStep(k)
      /\ Len(log) \in 0..MaxRv /\ MaxRv \in Nat
    BY TypesAre, InvariantIs
<1>3. /\ proxy[k].pc = "watch" /\ i \in Pending(k, a) /\ a \in 0..Len(log) /\ a # NoVersion
      /\ \A j \in Pending(k, a) : i <= j
    BY <1>1, <1>2 DEF ProxyInStep
<1>4. /\ i \in 1..Len(log) /\ i > a /\ log[i].kind = k /\ a \in Nat /\ i \in Nat
      /\ \A j \in 1..Len(log) : IsEvent(j, k) /\ j > a => i <= j
    BY <1>2, <1>3 DEF Pending, IsEvent
<1>5. log[i] \in Event /\ log[i].uid \in 1..i /\ (log[i].type = "ADDED" <=> log[i].uid = i)
    BY <1>4, LogIs DEF Readable
<1>6. CASE WriteFails(k)
    BY <1>1, <1>6, EndsInStep DEF WriteFails
<1>7. CASE ~WriteFails(k)
    <2>1. /\ Written(e) /\ Live' = Live
          /\ proxy' = [proxy EXCEPT ![k].held = Nothing, ![k].lrv = i]
        BY <1>7 DEF WriteEvent, Live
    <2> HIDE DEF i, a
    <2>2. e \in WireEvent /\ e.kind = k
        <3>1. i \in 1..MaxRv
            BY <1>2, <1>4
        <3> QED
            BY <1>5, <3>1 DEF Event, WireEvent
    <2>3. /\ proxy'[k].pc = "watch" /\ proxy'[k].held = Nothing
          /\ proxy'[k].items = proxy[k].items /\ proxy'[k].lrv = i
          /\ proxy'[k].listed = proxy[k].listed
          /\ \A j \in Kinds : j # k => proxy'[j] = proxy[j]
        BY <1>2, <1>3, <2>1 DEF Proxy
    <2>4. UNCHANGED <<log, mode, page, store, lrv, mixed>>
        BY <1>1 DEF Unchanged
    <2>5. /\ wire \in Seq(WireEvent) /\ Len(wire) \in Nat /\ Len(wire') \in Nat
          /\ Len(wire') >= Len(wire) /\ \A n \in 1..Len(wire) : wire'[n] = wire[n]
          /\ \A j \in Kinds : j # k =>
               \A n \in (Len(wire) + 1)..Len(wire') : wire'[n].kind # j
          /\ ~Live => wire' = wire
          /\ Live => /\ Len(wire') = Len(wire) + 1 /\ wire'[Len(wire) + 1] = e
                     /\ \A u \in Told(k)' : u \in Told(k) \/ u = e.uid
                     /\ Sent(k)' = Sent(k) \cup {Len(wire) + 1}
                     /\ Sent(k) \subseteq 1..Len(wire)
        BY <1>1, <2>1, <2>2, WrittenIs
    <2>6. wire' \in Seq(WireEvent)
        BY <1>1 DEF TypeOK
    <2>7. LogIsReadable' /\ PageInStep' /\ OnlyOfTheLog' /\ ShowsAPast'
        <3>1. page.pc # "read" => ~Live
            BY InvariantIs DEF PageInStep
        <3>2. mode = "page" => \A n \in 1..Len(wire') : wire'[n].rv <= Len(log)
            <4>1. e.rv <= Len(log)
                BY <1>4
            <4>2. mode = "page" => \A n \in 1..Len(wire) : wire[n].rv <= Len(log)
                BY InvariantIs DEF OnlyOfTheLog, WrittenOfLog
            <4> HIDE DEF e
            <4> QED
                BY <2>5, <4>1, <4>2
        <3> QED
            BY <1>1, <2>1, <2>5, <3>1, <3>2, SharedInStep
    <2>8. \A j \in Kinds : j # k => KindInStep(j)'
        BY <1>1, <2>1, <2>3, <2>5, <2>6, OtherKindInStep
    <2>9. i # NoVersion
        BY <1>4, ViewAssumption
    <2>10. ProxyInStep(k)'
        BY <1>2, <1>4, <2>1, <2>3, <2>4, <2>9 DEF ProxyInStep
    <2>14. mode' = mode /\ page' = page /\ mixed' = mixed
        BY <1>1 DEF Unchanged
    <2>15. ASSUME ~Undisturbed
           PROVE  KindInStep(k)'
        BY <2>10, <2>14, <2>15 DEF KindInStep, FirstSent, NewToClient, Undisturbed
    <2>11. ASSUME Live, Undisturbed
           PROVE  KindInStep(k)'
        <3>1. \A u \in Told(k) : u <= a
            BY <1>2, <1>3, <2>11 DEF KindInStep, NewToClient, a, Undisturbed
        <3>2. e.type = "ADDED" => e.uid \notin Told(k)
            BY <1>4, <1>5, <3>1
        <3>3. FirstSent(k)'
            BY <1>1, <2>1, <2>2, <2>11, <3>2, FirstWritten
        <3>4. \A u \in Told(k)' : u <= i
            <4>1. Told(k) \subseteq Nat
                <5>1. \A n \in 1..Len(wire) : wire[n].uid \in 1..MaxRv
                    <6>1. \A n \in 1..Len(wire) : wire[n] \in WireEvent
                        BY <2>5
                    <6> QED
                        BY <6>1 DEF WireEvent
                <5>2. \A j \in 1..Len(store[k]) : store[k][j].uid \in 1..MaxRv
                    <6>1. store[k] \in Seq(Item)
                        BY TypesAre
                    <6>2. \A j \in 1..Len(store[k]) : store[k][j] \in Item
                        BY <6>1
                    <6> QED
                        BY <6>2 DEF Item
                <5> QED
                    BY <5>1, <5>2 DEF Told
            <4> QED
                BY <1>4, <1>5, <2>5, <2>11, <3>1, <4>1
        <3>5. NewToClient(k)'
            BY <2>3, <3>4 DEF NewToClient, Undisturbed
        <3>6. ASSUME mode = "page", page.pc = "read", ~mixed
              PROVE  Streamed(k)' /\ StreamedUpToProxy(k)'
            <4>1. /\ Streamed(k) /\ lrv[k] <= a /\ \A n \in Sent(k) : wire[n].rv <= a
                  /\ \A j \in After(k) : j <= a => \E m \in Sent(k) : wire[m].rv = j
                BY <1>2, <1>3, <2>11, <3>6 DEF KindInStep, StreamedUpToProxy, a
            <4>2. lrv[k] \in Nat
                BY <3>6, InvariantIs, TypesAre DEF PageInStep, Version
            <4>3. /\ After(k)' = After(k) /\ i \in After(k)
                  /\ \A j \in After(k) : j \in Nat /\ (j <= a \/ i <= j)
                BY <1>4, <2>4, <4>1, <4>2 DEF After, IsEvent
            <4>10. \A j \in After(k)' : j \in After(k) /\ j \in Nat /\ (j <= a \/ i <= j)
                BY <4>3, Zenon
            <4> DEFINE l == Len(wire) + 1
            <4>4. /\ Sent(k)' = Sent(k) \cup {l} /\ l \notin Sent(k) /\ l \in Nat
                  /\ \A n \in Sent(k) : wire'[n] = wire[n] /\ n < l /\ n \in Nat
                  /\ wire'[l].rv = i /\ wire'[l].type = log[i].type
                  /\ wire'[l].uid = log[i].uid
                BY <2>5, <2>11
            <4> HIDE DEF l
            <4>5. \A n \in Sent(k) : wire[n].rv \in Nat
                BY <4>1, <4>3 DEF Streamed
            <4>6. ASSUME NEW n \in Sent(k)
                  PROVE  /\ wire'[n].rv \in After(k)'
                         /\ log[wire'[n].rv].type = wire'[n].type
                         /\ log[wire'[n].rv].uid = wire'[n].uid
                         /\ \A m \in Sent(k)' : m < n => wire'[m].rv < wire'[n].rv
                         /\ \A j \in After(k)' : j < wire'[n].rv
                                => \E m \in Sent(k)' : wire'[m].rv = j
                BY <4>1, <4>3, <4>4 DEF Streamed
            <4>7. /\ \A m \in Sent(k)' : m < l => wire'[m].rv < i
                  /\ \A j \in After(k)' : j < i => \E m \in Sent(k)' : wire'[m].rv = j
                <5>1. \A m \in Sent(k) : wire'[m].rv < i
                    BY <1>4, <4>1, <4>4, <4>5
                <5>2. \A m \in Sent(k)' : m < l => wire'[m].rv < i
                    BY <4>4, <5>1
                <5>3. ASSUME NEW j \in After(k)', j < i
                      PROVE  \E m \in Sent(k)' : wire'[m].rv = j
                    <6>1. j \in After(k) /\ j <= a
                        BY <1>4, <4>10, <5>3
                    <6>2. PICK m \in Sent(k) : wire[m].rv = j
                        BY <4>1, <6>1
                    <6> QED
                        BY <4>4, <6>2
                <5> QED
                    BY <5>2, <5>3
            <4>8. Streamed(k)'
                BY <2>4, <4>3, <4>4, <4>6, <4>7 DEF Streamed
            <4>9. StreamedUpToProxy(k)'
                <5>1. \A n \in Sent(k)' : wire'[n].rv <= i
                    BY <1>4, <4>1, <4>4, <4>5
                <5>2. \A j \in After(k)' : j <= i => \E m \in Sent(k)' : wire'[m].rv = j
                    <6>1. \A j \in After(k)' : j <= i => j < i \/ j = i
                        BY <1>4, <4>10
                    <6>2. l \in Sent(k)' /\ wire'[l].rv = i
                        BY <4>4
                    <6> QED
                        BY <4>7, <6>1, <6>2
                <5>3. lrv[k] <= i
                    BY <1>4, <4>1, <4>2
                <5> QED
                    BY <2>3, <2>4, <5>1, <5>2, <5>3 DEF StreamedUpToProxy
            <4> QED
                BY <4>8, <4>9
        <3> QED
            BY <2>10, <2>14, <3>3, <3>5, <3>6 DEF KindInStep
    <2>12. ASSUME ~Live
           PROVE  KindInStep(k)'
        <3>1. NewToClient(k)' /\ StreamedUpToProxy(k)'
            BY <2>1, <2>12 DEF NewToClient, StreamedUpToProxy, Undisturbed
        <3>2. FirstSent(k)' /\ (mode = "page" /\ page.pc = "read" /\ ~mixed => Streamed(k)')
            BY <1>1, <2>5, <2>6, <2>12, StreamInStep
        <3> QED
            BY <2>10, <2>14, <3>1, <3>2 DEF KindInStep
    <2>13. KindInStep(k)'
        BY <2>11, <2>12, <2>15
    <2> QED
        BY <1>1, <2>7, <2>8, <2>13, InvariantIs
<1> QED
    BY <1>6, <1>7

-----------------------------------------------------------------------------
(***************************************************************************)
(* The client.                                                             *)
(***************************************************************************)

\* Without a stream, the kinds ask for little.
LEMMA WithoutStream ==
    ASSUME IInv, ~Live', wire' = <<>>, page'.pc # "read", UNCHANGED <<log, proxy, mode>>
    PROVE  \A k \in Kinds : KindInStep(k)'
<1> SUFFICES ASSUME NEW k \in Kinds PROVE KindInStep(k)'
    OBVIOUS
<1>1. ProxyInStep(k)'
    <2>1. ProxyInStep(k)
        BY TypesAre
    <2>2. \A rv : Pending(k, rv)' = Pending(k, rv)
        BY DEF Pending, IsEvent
    <2> QED
        BY <2>1, <2>2 DEF ProxyInStep
<1>2. Len(wire') = 0
    OBVIOUS
<1>3. FirstSent(k)' /\ NewToClient(k)'
    BY <1>2 DEF FirstSent, NewToClient, Undisturbed
<1> QED
    BY <1>1, <1>3 DEF KindInStep

\* A stream of which nothing is written.
LEMMA NothingWritten ==
    ASSUME IInv, wire' = <<>>, UNCHANGED <<mode, left>>
    PROVE  OnlyOfTheLog'
<1>1. Len(wire') = 0
    OBVIOUS
<1>2. WrittenOfLog'
    BY <1>1 DEF WrittenOfLog
<1>3. \A l \in left : LeftoverInStep(l)'
    BY InvariantIs DEF OnlyOfTheLog, LeftoverInStep
<1> QED
    BY <1>2, <1>3 DEF OnlyOfTheLog

\* A client that shows nothing shows nothing twice.
LEMMA FreshInStep ==
    ASSUME IInv, Fresh(mode), wire' = <<>>, ~Live', UNCHANGED <<log, left>>, TypeOK'
    PROVE  PageInStep' /\ OnlyOfTheLog' /\ ShowsAPast' /\ page'.pc # "read"
<1>1. /\ store' = [k \in Kinds |-> <<>>] /\ lrv' = [k \in Kinds |-> NoVersion] /\ mode' = mode
      /\ page'.pc = IF mode = "raw" THEN "fetch" ELSE "init"
      /\ mode # "raw" => page'.at = 1
    BY DEF Fresh, Begin
<1>2. \A i \in 1..(page'.at - 1) : mode # "raw" => FALSE
    BY <1>1
<1>3. PageInStep'
    BY <1>1, <1>2 DEF PageInStep
<1>4. ShowsAPast'
    BY <1>1 DEF ShowsAPast, Undisturbed
<1>5. OnlyOfTheLog'
    BY <1>1, NothingWritten
<1> QED
    BY <1>1, <1>3, <1>4, <1>5

\* A page lists a kind before it watches: it shows the cluster as it is.
LEMMA InitListInv ==
    ASSUME IInv, InitList
    PROVE  IInv'
<1> DEFINE k == KindOrder[page.at]
<1>1. /\ page.pc = "init"
      /\ UNCHANGED <<mode, serverVars, wire, mixed, faults, logVars>>
      /\ page' = IF page.at = Len(KindOrder) THEN [pc |-> "fetch", at |-> 0]
                                            ELSE [page EXCEPT !.at = @ + 1]
    BY DEF InitList
<1>2. PICK items \in Listings(k) :
            store' = [store EXCEPT ![k] = items] /\ lrv' = [lrv EXCEPT ![k] = Len(log)]
    BY DEF InitList
<1>3. /\ PageInStep /\ ShowsAPast /\ store \in [Kinds -> Seq(Item)] /\ lrv \in [Kinds -> Version]
      /\ page \in [pc : {"init", "fetch", "read", "terminated"}, at : 0..Len(KindOrder)]
    BY InvariantIs, TypesAre DEF TypeOK
<1>4. /\ KindOrder \in Seq(Kinds) /\ Len(KindOrder) \in Nat
      /\ \A i \in 1..Len(KindOrder) : KindOrder[i] \in Kinds
      /\ \A j \in Kinds : \E i \in 1..Len(KindOrder) : KindOrder[i] = j
      /\ NoVersion \notin Nat
    <2>1. KindOrder \in Seq(Kinds)
        BY ViewAssumption
    <2> QED
        BY <2>1, ViewAssumption
<1>5. page.at \in 1..Len(KindOrder) /\ k \in Kinds
    <2>1. page.at > 0
        BY <1>1, <1>3 DEF PageInStep
    <2> QED
        BY <1>3, <1>4, <2>1
<1>6. TypeOK' /\ LogIsReadable' /\ \A j, rv : AsOf(j, rv)' = AsOf(j, rv)
    BY <1>1, PageTypes, LogInStep DEF PageStep, logVars
<1>7. /\ ~Live' /\ wire' = <<>> /\ page'.pc # "read" /\ UNCHANGED <<log, proxy, mode, left>>
      /\ ~Live /\ wire = <<>>
    BY <1>1, <1>3 DEF PageInStep, Live, serverVars, poolVars, logVars
<1>8. \A j \in Kinds : KindInStep(j)'
    BY <1>7, WithoutStream
<1> HIDE DEF k
<1>9. Len(log) \in Nat /\ Len(log) # NoVersion
    BY <1>4, LogIs
<1>10. /\ lrv'[k] = Len(log) /\ store'[k] = items
       /\ \A j \in Kinds : j # k => lrv'[j] = lrv[j] /\ store'[j] = store[j]
    BY <1>2, <1>3, <1>5
<1>11. ShowsAPast'
    <2>1. Distinct(items) /\ ToSet(items) = View(log, k, Len(log))
        BY <1>5, ListingIs
    <2>2. ToSet(items) = AsOf(k, Len(log))
        BY <2>1, OfTheLog
    <2>3. \A i, j \in DOMAIN store'[k] : store'[k][i].uid = store'[k][j].uid => i = j
        BY <1>10, <2>1 DEF Distinct
    <2>6. Undisturbed' = Undisturbed
        BY <1>1 DEF Undisturbed
    <2>4. \A n \in Kinds : Undisturbed =>
            /\ \A i, j \in DOMAIN store'[n] : store'[n][i].uid = store'[n][j].uid => i = j
            /\ mode' = "page" /\ lrv'[n] # NoVersion => ToSet(store'[n]) = AsOf(n, lrv'[n])
        BY <1>1, <1>3, <1>10, <2>2, <2>3 DEF ShowsAPast
    <2>5. \A n : AsOf(n, lrv[n])' = AsOf(n, lrv'[n])
        BY <1>7 DEF AsOf, LastChange, Uids, IsEvent
    <2> QED
        BY <2>4, <2>5, <2>6 DEF ShowsAPast
<1>12. PageInStep'
    <2>1. mode = "page" => \A j \in Kinds : lrv'[j] # NoVersion => lrv'[j] <= Len(log')
        BY <1>1, <1>3, <1>7, <1>9, <1>10 DEF PageInStep
    <2>2. ASSUME NEW i \in 1..page.at
          PROVE  lrv'[KindOrder[i]] # NoVersion
        <3>1. KindOrder[i] \in Kinds
            BY <1>4, <1>5
        <3>2. CASE i = page.at
            BY <1>9, <1>10, <3>2 DEF k
        <3>3. CASE i # page.at
            <4>1. lrv[KindOrder[i]] # NoVersion
                BY <1>1, <1>3, <1>5, <3>3 DEF PageInStep
            <4> QED
                BY <1>9, <1>10, <3>1, <4>1
        <3> QED
            BY <3>2, <3>3
    <2>3. CASE page.at = Len(KindOrder)
        <3>1. \A j \in Kinds : lrv'[j] # NoVersion
            BY <1>4, <2>2, <2>3
        <3>2. page'.pc = "fetch" /\ mode # "raw"
            BY <1>1, <1>3, <2>3 DEF PageInStep
        <3> QED
            BY <1>1, <1>7, <2>1, <3>1, <3>2 DEF PageInStep
    <2>4. CASE page.at # Len(KindOrder)
        <3>1. /\ page'.pc = "init" /\ page'.at = page.at + 1 /\ page'.at - 1 = page.at
              /\ mode # "raw"
            BY <1>1, <1>3, <1>5, <2>4 DEF PageInStep
        <3> QED
            BY <1>1, <1>5, <1>7, <2>1, <2>2, <3>1 DEF PageInStep
    <2> QED
        BY <2>3, <2>4
<1>13. OnlyOfTheLog'
    BY <1>7, NothingWritten
<1> QED
    BY <1>6, <1>8, <1>11, <1>12, <1>13, InvariantIs

\* A watch begins where the client is: a page at its versions, another with nothing.
LEMMA WatchResourcesInv ==
    ASSUME IInv, WatchResources
    PROVE  IInv'
<1>1. /\ page.pc = "fetch" /\ wire' = <<>> /\ page' = [page EXCEPT !.pc = "read"]
      /\ proxy' = [k \in Kinds |-> NewEventProxy(LastResourceVersions[k])]
      /\ left' = left \cup {Leftover(Len(context), k, proxy[k]) :
                            k \in {j \in Kinds : proxy[j].pc # "ended"}}
      /\ UNCHANGED <<mode, store, lrv, mixed, faults, logVars>>
    BY DEF WatchResources, ListWatch
<1>2. /\ PageInStep /\ OnlyOfTheLog /\ ShowsAPast /\ mode \in Modes /\ lrv \in [Kinds -> Version] /\ store \in [Kinds -> Seq(Item)]
      /\ page \in [pc : {"init", "fetch", "read", "terminated"}, at : 0..Len(KindOrder)]
    BY InvariantIs, TypesAre DEF TypeOK
<1>3. TypeOK' /\ LogIsReadable' /\ log' = log /\ \A j, rv : AsOf(j, rv)' = AsOf(j, rv)
    BY <1>1, PageTypes, LogInStep DEF PageStep, logVars
<1>4. page'.pc = "read" /\ Len(wire') = 0 /\ Len(log) \in Nat
    BY <1>1, <1>2, LogIs
<1>5. PageInStep'
    BY <1>1, <1>2, <1>3, <1>4 DEF PageInStep
<1>6. ShowsAPast'
    BY <1>1, <1>2, <1>3 DEF ShowsAPast, Undisturbed
<1>7. ASSUME NEW k \in Kinds
      PROVE  KindInStep(k)'
    <2>1. /\ proxy'[k].pc = "start" /\ proxy'[k].held = Nothing
          /\ proxy'[k].lrv = LastResourceVersions[k] /\ proxy'[k].listed = 0
        BY <1>1 DEF NewEventProxy
    <2>2. mode = "page" => lrv[k] \in 0..Len(log)
        BY <1>1, <1>2, <1>4 DEF PageInStep, Version
    <2>3. mode = "page" => lrv[k] # NoVersion
        BY <1>1, <1>2 DEF PageInStep
    <2>4. mode = "raw" => lrv[k] = NoVersion /\ store[k] = <<>>
        BY <1>1, <1>2 DEF PageInStep
    <2>13. LastResourceVersions[k] = IF mode = "page" THEN lrv[k] ELSE NoVersion
        BY DEF LastResourceVersions
    <2>14. mode \in {"page", "raw"}
        BY <1>2, ViewAssumption
    <2>5. ProxyInStep(k)'
        BY <1>1, <1>3, <1>4, <2>1, <2>2, <2>3, <2>13 DEF ProxyInStep
    <2>6. FirstSent(k)'
        BY <1>4 DEF FirstSent, Undisturbed
    <2>7. Told(k)' = {store[k][j].uid : j \in 1..Len(store[k])}
        BY <1>1, <1>4 DEF Told
    <2>8. ASSUME mode = "raw"
          PROVE  Told(k)' = {}
        <3>1. Len(store[k]) = 0
            BY <2>4, <2>8
        <3> QED
            BY <2>7, <3>1
    <2>9. ASSUME mode = "page", ~mixed
          PROVE  \A u \in Told(k)' : u <= lrv[k]
        <3>1. Undisturbed /\ lrv[k] \in Nat /\ lrv[k] <= Len(log)
            BY <1>4, <2>2, <2>9 DEF Undisturbed
        <3>2. ToSet(store[k]) = View(log, k, lrv[k])
            BY <1>2, <2>3, <2>9, <3>1, OfTheLog DEF ShowsAPast
        <3>3. \A y \in ToSet(store[k]) : y.uid <= lrv[k]
            BY <1>4, <3>1, <3>2, LogIs, ViewIs
        <3>4. store[k] \in Seq(Item)
            BY <1>2
        <3>5. \A j \in 1..Len(store[k]) : store[k][j] \in ToSet(store[k])
            BY <3>4, ItemsIs
        <3> QED
            BY <2>7, <3>3, <3>5
    <2>10. NewToClient(k)'
        BY <1>1, <2>1, <2>3, <2>8, <2>9, <2>13, <2>14 DEF NewToClient, Undisturbed
    <2>11. mode = "page" => Streamed(k)' /\ StreamedUpToProxy(k)'
        <3>1. Sent(k)' = {}
            BY <1>4 DEF Sent
        <3>2. Streamed(k)'
            BY <3>1 DEF Streamed
        <3>3. ASSUME mode = "page"
              PROVE  StreamedUpToProxy(k)'
            <4>1. lrv'[k] = lrv[k] /\ lrv[k] \in Nat
                BY <1>1, <1>4, <2>2, <2>3, <3>3
            <4>2. \A i \in After(k)' : i > lrv[k] /\ i \in Nat
                BY <1>3, <1>4, <4>1 DEF After
            <4>3. \A i \in After(k)' : ~(i <= lrv[k])
                BY <4>1, <4>2
            <4> QED
                BY <2>1, <2>13, <3>1, <3>3, <4>1, <4>3 DEF StreamedUpToProxy
        <3> QED
            BY <3>2, <3>3
    <2>12. mode' = mode
        BY <1>1
    <2> QED
        BY <2>5, <2>6, <2>10, <2>11, <2>12 DEF KindInStep
<1>8. OnlyOfTheLog'
    <2>1. WrittenOfLog'
        BY <1>4 DEF WrittenOfLog
    <2>2. ASSUME mode = "page", NEW k \in Kinds, proxy[k].pc # "ended"
          PROVE  LeftoverInStep(Leftover(Len(context), k, proxy[k]))
        <3>1. proxy[k].lrv # NoVersion /\ proxy[k].pc # "list"
            BY <2>2, TypesAre DEF ProxyInStep
        <3> QED
            BY <3>1 DEF Leftover, LeftoverInStep
    <2>3. \A l \in left' : LeftoverInStep(l)
        BY <1>1, <1>2, <2>2 DEF OnlyOfTheLog, LeftoverInStep
    <2> QED
        BY <1>1, <2>1, <2>3 DEF OnlyOfTheLog, LeftoverInStep
<1> QED
    BY <1>3, <1>5, <1>6, <1>7, <1>8, InvariantIs

\* The stream ends or breaks, or the page begins anew.
LEMMA StreamEndsInv ==
    ASSUME IInv, Done \/ Breaks \/ Reload
    PROVE  IInv'
<1>1. TypeOK' /\ LogIsReadable' /\ UNCHANGED <<log, proxy, left>> /\ wire' = <<>>
      /\ \A j, rv : AsOf(j, rv)' = AsOf(j, rv)
    <2>1. UNCHANGED <<log, proxy, left>> /\ wire' = <<>>
        BY DEF Done, Breaks, Reload, logVars, serverVars, poolVars
    <2> QED
        BY <2>1, PageTypes, LogInStep DEF PageStep
<1>2. /\ PageInStep /\ ShowsAPast
      /\ page \in [pc : {"init", "fetch", "read", "terminated"}, at : 0..Len(KindOrder)]
    BY InvariantIs DEF TypeOK
<1>3. ASSUME page.pc = "read", UNCHANGED <<mode, store, lrv, mixed>>, ~Live',
             NEW pc \in {"fetch", "terminated"}, page' = [page EXCEPT !.pc = pc],
             pc = "fetch" => mode # "raw"
      PROVE  PageInStep' /\ OnlyOfTheLog' /\ ShowsAPast' /\ page'.pc # "read"
    <2>1. page'.pc = pc
        BY <1>2, <1>3
    <2>2. PageInStep'
        BY <1>1, <1>2, <1>3, <2>1 DEF PageInStep
    <2>3. ShowsAPast'
        BY <1>1, <1>2, <1>3 DEF ShowsAPast, Undisturbed
    <2>4. OnlyOfTheLog'
        BY <1>1, <1>3, NothingWritten
    <2> QED
        BY <2>1, <2>2, <2>3, <2>4
<1>4. mode' = mode /\ ~Live' /\ PageInStep' /\ OnlyOfTheLog' /\ ShowsAPast' /\ page'.pc # "read"
    <2>1. CASE Done
        <3>1. /\ page.pc = "read" /\ ~Live' /\ page' = [page EXCEPT !.pc = "terminated"]
              /\ UNCHANGED <<mode, store, lrv, mixed>>
            BY <2>1 DEF Done, Live, serverVars
        <3> QED
            BY <1>3, <3>1
    <2>2. CASE Breaks /\ mode # "raw"
        <3>1. /\ page.pc = "read" /\ ~Live' /\ page' = [page EXCEPT !.pc = "fetch"]
              /\ UNCHANGED <<mode, store, lrv, mixed>>
            BY <2>2 DEF Breaks, Live
        <3> QED
            BY <1>3, <2>2, <3>1
    <2>3. CASE Breaks /\ mode = "raw"
        <3>1. ~Live' /\ Fresh(mode)
            BY <2>3 DEF Breaks, Live
        <3> QED
            BY <1>1, <3>1, FreshInStep DEF Fresh
    <2>4. CASE Reload
        <3>1. page.pc = "terminated" /\ Fresh(mode) /\ UNCHANGED <<handler, hungUp>>
            BY <2>4 DEF Reload, serverVars
        <3>2. ~Live'
            BY <1>2, <3>1 DEF PageInStep, Live
        <3> QED
            BY <1>1, <3>1, <3>2, FreshInStep DEF Fresh
    <2> QED
        BY <2>1, <2>2, <2>3, <2>4
<1>5. \A j \in Kinds : KindInStep(j)'
    BY <1>1, <1>4, WithoutStream
<1> QED
    BY <1>1, <1>4, <1>5, InvariantIs

\* What the page makes of an event of its stream.
LEMMA HandledIs ==
    ASSUME IInv, ProcessText
    PROVE  LET e == wire[1]
               k == e.kind
               s == store[k]
               t == store'[k]
               x == [uid |-> e.uid, rv |-> e.rv]
           IN  /\ wire \in Seq(WireEvent) /\ e \in WireEvent /\ k \in Kinds
               /\ Len(wire) \in Nat /\ Len(wire) > 0 /\ Len(wire') = Len(wire) - 1
               /\ \A n \in 1..Len(wire') : wire'[n] = wire[n + 1]
               /\ lrv' = [lrv EXCEPT ![k] = e.rv]
               /\ \A j \in Kinds : j # k => store'[j] = store[j]
               /\ s \in Seq(Item) /\ t \in Seq(Item)
               /\ Undisturbed =>
                    /\ Distinct(t)
                    /\ e.type = "ADDED" => ToSet(t) = ToSet(s) \cup {x}
                    /\ e.type = "MODIFIED" => ToSet(t) = {y \in ToSet(s) : y.uid # e.uid} \cup {x}
                    /\ e.type = "DELETED" => ToSet(t) = {y \in ToSet(s) : y.uid # e.uid}
<1> DEFINE e == wire[1]
           k == e.kind
           s == store[k]
           t == store'[k]
           x == [uid |-> e.uid, rv |-> e.rv]
<1>1. /\ wire \in Seq(WireEvent) /\ store \in [Kinds -> Seq(Item)] /\ wire # <<>>
      /\ wire' = Tail(wire) /\ Handle(Head(wire))
    BY TypesAre DEF ProcessText
<1>2. /\ Len(wire) \in Nat /\ Len(wire) > 0 /\ Len(wire') = Len(wire) - 1
      /\ \A n \in 1..Len(wire') : wire'[n] = wire[n + 1]
      /\ Head(wire) = e /\ e \in WireEvent
    BY <1>1, HeadTailProperties
<1>3. /\ e.kind \in Kinds /\ e.uid \in 1..MaxRv /\ e.rv \in 1..MaxRv
      /\ e.type \in {"ADDED", "MODIFIED", "DELETED"}
    <2> HIDE DEF e
    <2> QED
        BY <1>2 DEF WireEvent
<1>4. /\ store' = [store EXCEPT ![k] = CASE e.type = "ADDED" -> Added(s, x)
                                         [] e.type = "MODIFIED" -> Modified(s, x)
                                         [] e.type = "DELETED" -> Deleted(s, x)]
      /\ lrv' = [lrv EXCEPT ![k] = e.rv]
    BY <1>1, <1>2 DEF Handle
<1>5. Undisturbed => \A j \in 1..Len(s) : e.type = "ADDED" => s[j].uid # e.uid
    <2>1. FirstSent(k) /\ 1 \in 1..Len(wire)
        BY <1>2, <1>3, InvariantIs DEF KindInStep
    <2> QED
        BY <2>1 DEF FirstSent
<1>6. x \in Item /\ s \in Seq(Item) /\ x.uid = e.uid
    BY <1>1, <1>3 DEF Item
<1>7. Undisturbed => Distinct(s)
    BY <1>3, InvariantIs DEF ShowsAPast, Distinct
<1>8. /\ t = CASE e.type = "ADDED" -> Added(s, x)
               [] e.type = "MODIFIED" -> Modified(s, x)
               [] e.type = "DELETED" -> Deleted(s, x)
      /\ \A j \in Kinds : j # k => store'[j] = store[j]
    BY <1>1, <1>3, <1>4
<1> HIDE DEF e, k, s, t, x
<1>9. CASE e.type = "ADDED"
    <2>1. t = Added(s, x)
        BY <1>8, <1>9
    <2>2. t \in Seq(Item) /\ (Undisturbed => Distinct(t) /\ ToSet(t) = ToSet(s) \cup {x})
        BY <1>5, <1>6, <1>7, <1>9, <2>1, AddedIs, StoreTypes
    <2> QED
        BY <1>1, <1>2, <1>3, <1>4, <1>6, <1>8, <1>9, <2>2 DEF e, k, s, t, x
<1>10. CASE e.type = "MODIFIED"
    <2>1. t = Modified(s, x)
        BY <1>8, <1>10
    <2>2. /\ t \in Seq(Item)
          /\ Undisturbed => Distinct(t) /\ ToSet(t) = {y \in ToSet(s) : y.uid # e.uid} \cup {x}
        BY <1>6, <1>7, <2>1, ModifiedIs, StoreTypes
    <2> QED
        BY <1>1, <1>2, <1>3, <1>4, <1>6, <1>8, <1>10, <2>2 DEF e, k, s, t, x
<1>11. CASE e.type = "DELETED"
    <2>1. t = Deleted(s, x)
        BY <1>8, <1>11
    <2>2. /\ t \in Seq(Item)
          /\ Undisturbed => Distinct(t) /\ ToSet(t) = {y \in ToSet(s) : y.uid # e.uid}
        <3>1. Undisturbed => /\ Distinct(Deleted(s, x))
                             /\ ToSet(Deleted(s, x)) = {y \in ToSet(s) : y.uid # x.uid}
            BY <1>6, <1>7, DeletedIs
        <3>2. Deleted(s, x) \in Seq(Item)
            BY <1>6, StoreTypes
        <3> QED
            BY <1>6, <2>1, <3>1, <3>2
    <2> QED
        BY <1>1, <1>2, <1>3, <1>4, <1>6, <1>8, <1>11, <2>2 DEF e, k, s, t, x
<1> QED
    BY <1>3, <1>9, <1>10, <1>11

\* A page that handles the first event of its stream shows the cluster at that event's
\* version: of its kind, nothing happened between its own version and that.
LEMMA ProcessTextInv ==
    ASSUME IInv, ProcessText
    PROVE  IInv'
<1> DEFINE e == wire[1]
           k == e.kind
           s == store[k]
           t == store'[k]
           x == [uid |-> e.uid, rv |-> e.rv]
<1>1. /\ wire \in Seq(WireEvent) /\ e \in WireEvent /\ k \in Kinds
      /\ Len(wire) \in Nat /\ Len(wire) > 0 /\ Len(wire') = Len(wire) - 1
      /\ \A n \in 1..Len(wire') : wire'[n] = wire[n + 1]
      /\ lrv' = [lrv EXCEPT ![k] = e.rv]
      /\ \A j \in Kinds : j # k => store'[j] = store[j]
      /\ s \in Seq(Item) /\ t \in Seq(Item)
    BY HandledIs
<1>18. Undisturbed =>
        /\ Distinct(t)
        /\ e.type = "ADDED" => ToSet(t) = ToSet(s) \cup {x}
        /\ e.type = "MODIFIED" => ToSet(t) = {y \in ToSet(s) : y.uid # e.uid} \cup {x}
        /\ e.type = "DELETED" => ToSet(t) = {y \in ToSet(s) : y.uid # e.uid}
    BY HandledIs
<1>2. /\ page.pc = "read" /\ UNCHANGED <<mode, page, mixed, log, proxy, left, handler, hungUp>>
      /\ Live' = Live /\ Undisturbed' = Undisturbed
    BY DEF ProcessText, serverVars, poolVars, logVars, Live, Undisturbed
<1>3. TypeOK' /\ LogIsReadable' /\ \A j, rv : AsOf(j, rv)' = AsOf(j, rv)
    BY <1>2, PageTypes, LogInStep DEF PageStep
<1>4. /\ PageInStep /\ OnlyOfTheLog /\ ShowsAPast /\ \A j \in Kinds : KindInStep(j)
      /\ lrv \in [Kinds -> Version] /\ NoVersion \notin Nat
      /\ Len(log) \in Nat /\ Readable(log)
    BY InvariantIs, TypesAre, LogIs, ViewAssumption
<1>5. /\ e.rv \in Nat /\ e.uid \in Nat /\ e.type \in {"ADDED", "MODIFIED", "DELETED"}
    <2> HIDE DEF e
    <2>1. e.rv \in 1..MaxRv /\ e.uid \in 1..MaxRv /\ e.type \in {"ADDED", "MODIFIED", "DELETED"}
        BY <1>1 DEF WireEvent
    <2> QED
        BY <2>1, TypesAre
<1>6. /\ lrv'[k] = e.rv /\ e.rv # NoVersion
      /\ \A j \in Kinds : j # k => lrv'[j] = lrv[j]
    BY <1>1, <1>4, <1>5
<1>7. \A n \in 1..Len(wire') : n + 1 \in 1..Len(wire) /\ wire'[n] = wire[n + 1]
    BY <1>1
<1>8. Undisturbed => \A y \in ToSet(t) : y \in ToSet(s) \/ y.uid = e.uid
    BY <1>5, <1>18
<1>9. Undisturbed => \A i \in 1..Len(t) : t[i].uid = e.uid \/ \E h \in 1..Len(s) : s[h].uid = t[i].uid
    <2>1. \A i \in 1..Len(t) : t[i] \in ToSet(t)
        BY <1>1, ItemsIs
    <2>2. \A y \in ToSet(s) : \E h \in 1..Len(s) : s[h] = y
        BY <1>1, ItemsIs
    <2> HIDE DEF e, t, s
    <2> QED
        BY <1>8, <2>1, <2>2
<1>10. Undisturbed => \A j \in Kinds : \A i \in 1..Len(store'[j]) :
            \/ j = k /\ store'[j][i].uid = e.uid
            \/ \E h \in 1..Len(store[j]) : store[j][h].uid = store'[j][i].uid
    <2>1. \A j \in Kinds : j # k => \A i \in 1..Len(store'[j]) :
            \E h \in 1..Len(store[j]) : store[j][h].uid = store'[j][i].uid
        BY <1>1
    <2>2. Undisturbed => \A i \in 1..Len(store'[k]) :
                            \/ store'[k][i].uid = e.uid
                            \/ \E h \in 1..Len(store[k]) : store[k][h].uid = store'[k][i].uid
        BY <1>9
    <2> HIDE DEF e, k, s, t, x
    <2> QED
        BY <2>1, <2>2
<1>11. \A j \in Kinds : Sent(j)' = {n \in 1..Len(wire') : n + 1 \in Sent(j)}
    BY <1>7 DEF Sent
<1>12. 1 \in Sent(k) /\ \A j : 1 \in Sent(j) => j = k
    BY <1>1 DEF Sent
<1>13. \A j \in Kinds : \A m \in Sent(j) : m # 1 =>
            m - 1 \in Sent(j)' /\ wire'[m - 1] = wire[m] /\ m \in Nat
    <2>1. \A j \in Kinds : Sent(j) \subseteq 1..Len(wire)
        BY DEF Sent
    <2>2. \A m \in 1..Len(wire) : m # 1 => m - 1 \in 1..Len(wire') /\ (m - 1) + 1 = m /\ m \in Nat
        BY <1>1
    <2> QED
        BY <1>7, <1>11, <2>1, <2>2
<1>19. mode = "page" => e.rv <= Len(log)
    BY <1>1, <1>4 DEF OnlyOfTheLog, WrittenOfLog
<1>20. OnlyOfTheLog'
    <2>1. WrittenOfLog'
        BY <1>2, <1>4, <1>7 DEF OnlyOfTheLog, WrittenOfLog
    <2> QED
        BY <1>2, <1>4, <2>1 DEF OnlyOfTheLog, LeftoverInStep
<1>14. ASSUME mode = "page", ~mixed
       PROVE  /\ e.rv \in 1..Len(log) /\ IsEvent(e.rv, k) /\ lrv[k] \in Nat /\ lrv[k] < e.rv
              /\ log[e.rv].type = e.type /\ log[e.rv].uid = e.uid
              /\ \A i \in (lrv[k] + 1)..(e.rv - 1) : log[i].kind # k
    <2>1. Streamed(k) /\ lrv[k] \in Nat
        BY <1>1, <1>2, <1>4, <1>14 DEF KindInStep, PageInStep, Version
    <2>2. /\ e.rv \in After(k) /\ log[e.rv].type = e.type /\ log[e.rv].uid = e.uid
          /\ \A i \in After(k) : i < e.rv => \E m \in Sent(k) : wire[m].rv = i
        BY <1>12, <2>1 DEF Streamed
    <2>3. \A m \in Sent(k) : m # 1 => e.rv < wire[m].rv
        <3>1. \A m \in Sent(k) : m # 1 => 1 < m
            BY <1>1 DEF Sent
        <3> QED
            BY <1>12, <2>1, <3>1 DEF Streamed
    <2>4. e.rv \in 1..Len(log) /\ IsEvent(e.rv, k) /\ lrv[k] < e.rv
        BY <1>4, <2>1, <2>2 DEF After
    <2>5. ASSUME NEW i \in (lrv[k] + 1)..(e.rv - 1), log[i].kind = k
          PROVE  FALSE
        <3>1. i \in After(k) /\ i < e.rv /\ i \in Nat
            BY <1>4, <1>5, <2>1, <2>4, <2>5 DEF After, IsEvent
        <3>2. PICK m \in Sent(k) : wire[m].rv = i
            BY <2>2, <3>1
        <3> HIDE DEF e
        <3>3. CASE m = 1
            BY <1>5, <3>1, <3>2, <3>3 DEF e
        <3>4. CASE m # 1
            BY <1>5, <2>3, <3>1, <3>2, <3>4
        <3> QED
            BY <3>3, <3>4
    <2> QED
        BY <2>1, <2>2, <2>4, <2>5
<1> HIDE DEF e, k, s, t, x
<1>15. PageInStep'
    <2>1. mode = "page" => \A j \in Kinds : lrv'[j] # NoVersion /\ lrv'[j] <= Len(log)
        BY <1>2, <1>4, <1>6, <1>19 DEF PageInStep
    <2> QED
        BY <1>2, <1>4, <2>1 DEF PageInStep
<1>16. ShowsAPast'
    <2>1. Undisturbed => \A j \in Kinds : Distinct(store'[j])
        BY <1>1, <1>4, <1>18 DEF ShowsAPast, Distinct, t
    <2>5. Undisturbed => ~mixed
        BY DEF Undisturbed
    <2>2. ASSUME mode = "page", Undisturbed
          PROVE  ToSet(t) = AsOf(k, e.rv)
        <3> DEFINE V == View(log, k, lrv[k])
        <3>1. ToSet(s) = V
            BY <1>1, <1>2, <1>4, <2>2, OfTheLog DEF ShowsAPast, PageInStep, s
        <3>2. LET u == log[e.rv].uid
                  Others == {y \in V : y.uid # u}
              IN  /\ log[e.rv].type = "ADDED" =>
                       u = e.rv /\ View(log, k, e.rv) = V \cup {[uid |-> e.rv, rv |-> e.rv]}
                  /\ log[e.rv].type = "MODIFIED" =>
                       View(log, k, e.rv) = Others \cup {[uid |-> u, rv |-> e.rv]}
                  /\ log[e.rv].type = "DELETED" => View(log, k, e.rv) = Others
            <4>1. /\ lrv[k] \in Nat /\ e.rv \in 1..Len(log) /\ lrv[k] < e.rv
                  /\ log[e.rv].kind = k /\ Len(log) \in Nat /\ Readable(log)
                  /\ \A i \in (lrv[k] + 1)..(e.rv - 1) : log[i].kind # k
                BY <1>4, <1>14, <2>2, <2>5 DEF IsEvent
            <4> QED
                BY <4>1, EventShown, SMTT(30)
        <3> HIDE DEF V
        <3>3. ToSet(t) = View(log, k, e.rv)
            <4>1. log[e.rv].type = e.type /\ log[e.rv].uid = e.uid
                BY <1>14, <2>2, <2>5
            <4>2. /\ e.type = "ADDED" => ToSet(t) = V \cup {x}
                  /\ e.type = "MODIFIED" => ToSet(t) = {y \in V : y.uid # e.uid} \cup {x}
                  /\ e.type = "DELETED" => ToSet(t) = {y \in V : y.uid # e.uid}
                BY <1>18, <2>2, <3>1
            <4>3. x = [uid |-> e.uid, rv |-> e.rv]
                BY DEF x
            <4> QED
                BY <1>5, <3>2, <4>1, <4>2, <4>3
        <3> QED
            BY <3>3, OfTheLog
    <2>3. ASSUME NEW j \in Kinds, mode = "page", Undisturbed
          PROVE  ToSet(store'[j]) = AsOf(j, lrv'[j])
        <3>1. CASE j = k
            BY <1>6, <2>2, <2>3, <3>1 DEF t
        <3>2. CASE j # k
            BY <1>1, <1>2, <1>4, <1>6, <2>3, <3>2 DEF ShowsAPast, PageInStep
        <3> QED
            BY <3>1, <3>2
    <2>4. \A j : AsOf(j, lrv[j])' = AsOf(j, lrv'[j])
        BY <1>2 DEF AsOf, LastChange, Uids, IsEvent
    <2> QED
        BY <1>2, <2>1, <2>3, <2>4 DEF ShowsAPast, Distinct
<1>17. ASSUME NEW j \in Kinds
       PROVE  KindInStep(j)'
    <2>1. ProxyInStep(j)'
        <3>1. ProxyInStep(j) /\ \A rv : Pending(j, rv)' = Pending(j, rv)
            BY <1>2, <1>4 DEF KindInStep, Pending, IsEvent
        <3> QED
            BY <1>2, <3>1 DEF ProxyInStep
    <2>2. FirstSent(j)'
        <3>1. ASSUME Undisturbed, NEW n \in 1..Len(wire'), wire'[n].kind = j, wire'[n].type = "ADDED"
              PROVE  /\ \A i \in 1..Len(store'[j]) : store'[j][i].uid # wire'[n].uid
                     /\ \A m \in 1..(n - 1) : wire'[m].kind = j => wire'[m].uid # wire'[n].uid
            <4>1. /\ \A i \in 1..Len(store[j]) : store[j][i].uid # wire'[n].uid
                  /\ \A m \in 1..n : wire[m].kind = j => wire[m].uid # wire'[n].uid
                <5>1. FirstSent(j) /\ n + 1 \in 1..Len(wire) /\ wire'[n] = wire[n + 1]
                      /\ (n + 1) - 1 = n
                    BY <1>4, <1>7 DEF KindInStep
                <5> QED
                    BY <3>1, <5>1 DEF FirstSent
            <4>2. \A m \in 1..(n - 1) : m \in 1..Len(wire') /\ m + 1 \in 1..n
                BY <1>1
            <4>3. \A m \in 1..(n - 1) : wire'[m].kind = j => wire'[m].uid # wire'[n].uid
                BY <1>7, <4>1, <4>2
            <4>4. j = k => e.uid # wire'[n].uid
                BY <4>1 DEF e, k
            <4>5. \A i \in 1..Len(store'[j]) : store'[j][i].uid # wire'[n].uid
                BY <1>10, <3>1, <4>1, <4>4
            <4> QED
                BY <4>3, <4>5
        <3> QED
            BY <1>2, <3>1 DEF FirstSent
    <2>3. Undisturbed => Told(j)' \subseteq Told(j)
        <3>1. ASSUME Undisturbed, NEW i \in 1..Len(store'[j])
              PROVE  store'[j][i].uid \in Told(j)
            <4>1. CASE j = k /\ store'[j][i].uid = e.uid
                BY <1>12, <4>1 DEF Told, Sent, e
            <4>2. CASE \E h \in 1..Len(store[j]) : store[j][h].uid = store'[j][i].uid
                BY <4>2 DEF Told
            <4> QED
                BY <1>10, <3>1, <4>1, <4>2
        <3>2. ASSUME NEW n \in 1..Len(wire'), wire'[n].kind = j
              PROVE  wire'[n].uid \in Told(j)
            <4>1. n + 1 \in 1..Len(wire) /\ wire'[n] = wire[n + 1]
                BY <1>7
            <4> QED
                BY <3>2, <4>1 DEF Told
        <3> QED
            BY <3>1, <3>2 DEF Told
    <2>4. NewToClient(j)'
        <3>1. NewToClient(j) /\ (Undisturbed /\ Told(j) = {} => Told(j)' = {})
            BY <1>4, <2>3 DEF KindInStep
        <3> QED
            BY <1>2, <2>3, <3>1 DEF NewToClient
    <2>5. ASSUME mode = "page", ~mixed
          PROVE  Streamed(j)' /\ StreamedUpToProxy(j)'
        <3>1. Streamed(j) /\ StreamedUpToProxy(j) /\ lrv[j] \in Nat
            BY <1>2, <1>4, <2>5 DEF KindInStep, PageInStep, Version
        <3>2. /\ \A i \in After(j)' : i \in After(j) /\ i \in Nat /\ (j = k => i > e.rv)
              /\ \A i \in After(j) : (j = k => i > e.rv) => i \in After(j)'
            BY <1>2, <1>4, <1>6, <1>14, <2>5, <3>1 DEF After, IsEvent
        <3>3. \A n \in Sent(j)' : n + 1 \in Sent(j) /\ wire'[n] = wire[n + 1] /\ n \in Nat /\ n > 0
            BY <1>7, <1>11
        <3>4. \A n \in Sent(j) : n \in Nat /\ wire[n].rv \in Nat
            <4>1. \A n \in Sent(j) : n \in Nat
                BY DEF Sent
            <4>2. \A i \in After(j) : i \in Nat
                BY DEF After
            <4> QED
                BY <3>1, <4>1, <4>2 DEF Streamed
        <3>5. ASSUME NEW i \in After(j)', NEW m \in Sent(j), wire[m].rv = i
              PROVE  \E n \in Sent(j)' : wire'[n].rv = i
            <4>1. m # 1
                <5>1. CASE m = 1
                    <6>1. j = k /\ wire[m].rv = e.rv
                        BY <1>12, <5>1 DEF e
                    <6> QED
                        BY <1>5, <3>2, <3>5, <6>1
                <5> QED
                    BY <5>1
            <4> QED
                BY <1>13, <3>5, <4>1
        <3>6. ASSUME NEW n \in Sent(j)'
              PROVE  /\ wire'[n].rv \in After(j)'
                     /\ log[wire'[n].rv].type = wire'[n].type
                     /\ log[wire'[n].rv].uid = wire'[n].uid
                     /\ \A m \in Sent(j)' : m < n => wire'[m].rv < wire'[n].rv
                     /\ \A i \in After(j)' : i < wire'[n].rv
                            => \E m \in Sent(j)' : wire'[m].rv = i
            <4>1. /\ n + 1 \in Sent(j) /\ wire'[n] = wire[n + 1] /\ n \in Nat /\ n > 0
                  /\ 1 < n + 1
                BY <3>3
            <4>2. /\ wire'[n].rv \in After(j)
                  /\ log[wire'[n].rv].type = wire'[n].type
                  /\ log[wire'[n].rv].uid = wire'[n].uid
                  /\ \A m \in Sent(j) : m < n + 1 => wire[m].rv < wire'[n].rv
                  /\ \A i \in After(j) : i < wire'[n].rv => \E m \in Sent(j) : wire[m].rv = i
                BY <3>1, <4>1 DEF Streamed
            <4>3. j = k => e.rv < wire'[n].rv
                BY <1>12, <4>1, <4>2 DEF e
            <4>4. wire'[n].rv \in After(j)'
                BY <1>5, <3>2, <3>4, <4>1, <4>2, <4>3
            <4>5. \A m \in Sent(j)' : m < n => wire'[m].rv < wire'[n].rv
                BY <3>3, <4>1, <4>2
            <4>6. \A i \in After(j)' : i < wire'[n].rv => \E m \in Sent(j)' : wire'[m].rv = i
                BY <3>2, <3>5, <4>2
            <4> QED
                BY <4>2, <4>4, <4>5, <4>6
        <3>7. Streamed(j)'
            BY <1>2, <3>6 DEF Streamed
        <3>8. ASSUME Live, proxy[j].pc # "ended"
              PROVE  /\ lrv'[j] <= proxy[j].lrv
                     /\ \A n \in Sent(j)' : wire'[n].rv <= proxy[j].lrv
                     /\ \A i \in After(j)' : i <= proxy[j].lrv => \E m \in Sent(j)' : wire'[m].rv = i
            <4>1. /\ lrv[j] <= proxy[j].lrv
                  /\ \A n \in Sent(j) : wire[n].rv <= proxy[j].lrv
                  /\ \A i \in After(j) : i <= proxy[j].lrv => \E m \in Sent(j) : wire[m].rv = i
                BY <3>1, <3>8 DEF StreamedUpToProxy
            <4>2. lrv'[j] <= proxy[j].lrv
                <5>1. CASE j = k
                    BY <1>6, <1>12, <4>1, <5>1 DEF e
                <5>2. CASE j # k
                    BY <1>6, <4>1, <5>2
                <5> QED
                    BY <5>1, <5>2
            <4>3. \A n \in Sent(j)' : wire'[n].rv <= proxy[j].lrv
                BY <3>3, <4>1
            <4>4. \A i \in After(j)' : i <= proxy[j].lrv => \E m \in Sent(j)' : wire'[m].rv = i
                BY <3>2, <3>5, <4>1
            <4> QED
                BY <4>2, <4>3, <4>4
        <3>9. StreamedUpToProxy(j)'
            BY <1>2, <3>8 DEF StreamedUpToProxy
        <3> QED
            BY <3>7, <3>9
    <2> QED
        BY <1>2, <2>1, <2>2, <2>4, <2>5 DEF KindInStep
<1> QED
    BY <1>3, <1>15, <1>16, <1>17, <1>20, InvariantIs

-----------------------------------------------------------------------------
(***************************************************************************)
(* The theorems.                                                           *)
(***************************************************************************)

LEMMA InitInv == Init => IInv
<1> SUFFICES ASSUME Init PROVE IInv
    OBVIOUS
<1>1. /\ log = <<>> /\ wire = <<>> /\ Len(log) = 0 /\ Len(wire) = 0 /\ ~Live /\ floor = 0
      /\ store = [k \in Kinds |-> <<>>] /\ lrv = [k \in Kinds |-> NoVersion]
      /\ proxy = [k \in Kinds |-> [pc |-> "ended", lrv |-> NoVersion, listed |-> 0,
                                   items |-> <<>>, held |-> Nothing]]
      /\ mode \in Modes /\ page.pc = IF mode = "raw" THEN "fetch" ELSE "init"
      /\ page.at = IF mode = "raw" THEN 0 ELSE 1
    BY DEF Init, Begin, NoProxies, NewEventProxy, Live
<1>2. /\ MaxRv \in Nat /\ MaxFaults \in Nat /\ Len(KindOrder) \in Nat /\ Len(KindOrder) > 0
    <2>1. KindOrder \in Seq(Kinds) /\ KindOrder # <<>>
        BY ViewAssumption
    <2> QED
        BY <2>1, ViewAssumption
<1>3. TypeOK
    <2>1. [pc |-> "ended", lrv |-> NoVersion, listed |-> 0, items |-> <<>>, held |-> Nothing] \in Proxy
        <3>1. <<>> \in Seq(Item) /\ NoVersion \in Version
            BY DEF Version
        <3> QED
            BY <1>2, <3>1 DEF Proxy
    <2>2. proxy \in [Kinds -> Proxy]
        BY <1>1, <2>1
    <2>3. store \in [Kinds -> Seq(Item)] /\ lrv \in [Kinds -> Version]
        BY <1>1 DEF Version
    <2>4. page \in [pc : {"init", "fetch", "read", "terminated"}, at : 0..Len(KindOrder)]
        <3>1. page = [pc |-> IF mode = "raw" THEN "fetch" ELSE "init",
                      at |-> IF mode = "raw" THEN 0 ELSE 1]
            BY DEF Init, Begin
        <3>2. 0 \in 0..Len(KindOrder) /\ 1 \in 0..Len(KindOrder)
            BY <1>2
        <3> QED
            BY <3>1, <3>2
    <2>5. log \in Seq(Event) /\ Len(log) <= MaxRv /\ floor \in 0..Len(log) /\ wire \in Seq(WireEvent)
        BY <1>1, <1>2
    <2>6. /\ handler \in {"none", "open", "returned"} /\ hungUp \in BOOLEAN /\ stop \in BOOLEAN
          /\ faults \in 0..MaxFaults
          /\ context \in Seq(Nat) /\ (handler # "none" => context # <<>>) /\ pooled \subseteq Nat
          /\ mixed \in BOOLEAN /\ left = {}
        <3>1. /\ handler = "none" /\ hungUp = FALSE /\ stop = FALSE /\ faults = 0
              /\ context = <<>> /\ pooled = {} /\ mixed = FALSE /\ left = {}
            BY DEF Init
        <3>2. 0 \in 0..MaxFaults
            BY <1>2
        <3>3. context \in Seq(Nat)
            BY <3>1
        <3> QED
            BY <3>1, <3>2, <3>3
    <2> QED
        BY <1>1, <2>2, <2>3, <2>4, <2>5, <2>6 DEF TypeOK
<1>4. LogIsReadable
    BY <1>1 DEF LogIsReadable
<1>5. PageInStep
    BY <1>1 DEF PageInStep
<1>6. ShowsAPast
    BY <1>1 DEF ShowsAPast, Undisturbed
<1>7. ASSUME NEW k \in Kinds
      PROVE  KindInStep(k)
    <2>1. ProxyInStep(k)
        BY <1>1, <1>7 DEF ProxyInStep
    <2>2. FirstSent(k) /\ NewToClient(k)
        BY <1>1 DEF FirstSent, NewToClient, Undisturbed
    <2> QED
        BY <1>1, <2>1, <2>2 DEF KindInStep
<1>8. OnlyOfTheLog
    <2>1. left = {}
        BY DEF Init
    <2> QED
        BY <1>1, <2>1 DEF OnlyOfTheLog, WrittenOfLog
<1> QED
    BY <1>3, <1>4, <1>5, <1>6, <1>7, <1>8, InvariantIs

LEMMA StepInv == IInv /\ [Next]_vars => IInv'
<1> SUFFICES ASSUME IInv, [Next]_vars PROVE IInv'
    OBVIOUS
<1>1. ASSUME NEW k \in Kinds, Change(k), UNCHANGED <<serverVars, wire, mixed, faults, pageVars>>
      PROVE  IInv'
    BY <1>1, ChangeInv
<1>2. CASE Compact /\ UNCHANGED <<serverVars, wire, mixed, faults, pageVars>>
    BY <1>2, CompactInv
<1>3. ASSUME NEW k \in Kinds, ProxyStep(k) \/ WatchCloses(k), UNCHANGED pageVars
      PROVE  IInv'
    BY <1>3, DoListAndWatchInv, SendListedItemInv, ListSentInv, ConnectInv, ReceiveInv,
       WriteEventInv DEF ProxyStep
<1>4. CASE (ListWatchReturns \/ FormerReturns \/ LeftoverWrites) /\ UNCHANGED pageVars
    BY <1>4, ReturnInv, LeftoverInv
<1>5. CASE PageStep \/ Breaks \/ Reload
    BY <1>5, InitListInv, WatchResourcesInv, ProcessTextInv, StreamEndsInv DEF PageStep
<1>6. CASE UNCHANGED vars
    <2>1. Unchanged /\ Live' = Live /\ UNCHANGED <<proxy, wire>>
        BY <1>6 DEF vars, logVars, serverVars, poolVars, pageVars, Unchanged, Live
    <2>2. TypeOK' /\ wire \in Seq(WireEvent)
        BY <1>6, TypesAre DEF TypeOK, vars, logVars, serverVars, poolVars, pageVars
    <2>3. LogIsReadable' /\ PageInStep' /\ OnlyOfTheLog' /\ ShowsAPast'
        BY <2>1, SharedInStep
    <2>4. \A k \in Kinds : KindInStep(k)'
        <3>1. Len(wire) \in Nat
            BY <2>2
        <3> QED
            BY <2>1, <2>2, <3>1, OtherKindInStep
    <2> QED
        BY <2>2, <2>3, <2>4, InvariantIs
<1> QED
    BY <1>1, <1>2, <1>3, <1>4, <1>5, <1>6 DEF Next

\* resourcewatcher.go and the web stores: the log is one of objects that come and go once,
\* goroutines, stream and stores are in step, whatever is lost, closed or listed late.
THEOREM Invariant == Spec => []IInv
<1> QED
    BY InitInv, StepInv, PTL DEF Spec

\* resourcewatcher.go, streamwriter.go and the web stores: until a goroutine of an earlier
\* request writes to its stream, no client that gives no versions, or gives them as the
\* handler reads them, shows an object twice, and what a page shows of a kind is the
\* cluster at the version it keeps, for any kinds, changes and broken connections.
THEOREM ViewIsAPast == Spec => []ShowsAPast
<1>1. IInv => ShowsAPast
    BY DEF IInv
<1> QED
    BY <1>1, Invariant, PTL

=============================================================================
