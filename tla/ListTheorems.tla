---------------------------- MODULE ListTheorems ----------------------------
(***************************************************************************)
(* What the list operations of src/Source/List.h do to the set of the      *)
(* linked items and to the absence of duplicates, for lists written as     *)
(* sequences: InsertBack is Append, InsertFront is Cons, taking the front  *)
(* is Head and Tail, taking the back is Last and Front, and                *)
(* ListItem_Remove of an item that is linked is RemoveFirst.  And what     *)
(* the loops of the code keep.                                             *)
(***************************************************************************)
EXTENDS Integers, SequencesExt, Loops, SequenceTheorems, FiniteSetTheorems,
        WellFoundedInduction, TLAPS

(* An empty list links nothing, and only an empty list does.               *)
LEMMA ListEmpty ==
    ASSUME NEW S, NEW s \in Seq(S)
    PROVE  /\ ToSet(<<>>) = {}
           /\ IsInjective(<<>>)
           /\ ToSet(s) \subseteq S
           /\ ToSet(s) = {} => s = <<>>
<1>1. Len(<<>>) = 0 /\ DOMAIN <<>> = 1 .. 0
  OBVIOUS
<1>2. DOMAIN s = 1 .. Len(s) /\ Len(s) \in Nat /\ \A i \in 1 .. Len(s) : s[i] \in S
  BY LenProperties, ElementOfSeq
<1>3. ToSet(<<>>) = {} /\ IsInjective(<<>>)
  BY <1>1 DEF ToSet, IsInjective
<1>4. ToSet(s) \subseteq S
  BY <1>2 DEF ToSet
<1>5. ASSUME s # <<>> PROVE s[1] \in ToSet(s)
  BY <1>2, <1>5, EmptySeq DEF ToSet
<1> QED
  BY <1>3, <1>4, <1>5

(* List_InsertBack adds the item, and keeps an injective list injective    *)
(* when the item was not linked.                                           *)
LEMMA ListInsertBack ==
    ASSUME NEW S, NEW s \in Seq(S), NEW e \in S
    PROVE  /\ Append(s, e) \in Seq(S)
           /\ Append(s, e) # <<>>
           /\ ToSet(Append(s, e)) = ToSet(s) \cup {e}
           /\ IsInjective(s) /\ e \notin ToSet(s) => IsInjective(Append(s, e))
<1> DEFINE t == Append(s, e)
<1>1. /\ t \in Seq(S)
      /\ DOMAIN t = 1 .. Len(s) + 1
      /\ \A i \in 1 .. Len(s) : t[i] = s[i]
      /\ t[Len(s) + 1] = e
      /\ DOMAIN s = 1 .. Len(s)
      /\ Len(s) \in Nat
      /\ Len(t) = Len(s) + 1
  BY AppendProperties, LenProperties
<1> HIDE DEF t
<1>2. t # <<>>
  BY <1>1, EmptySeq
<1>3. ToSet(t) = ToSet(s) \cup {e}
  BY <1>1 DEF ToSet
<1>4. ASSUME IsInjective(s), e \notin ToSet(s) PROVE IsInjective(t)
  BY <1>1, <1>4 DEF IsInjective, ToSet
<1> QED
  BY <1>1, <1>2, <1>3, <1>4 DEF t

(* List_InsertFront, likewise.                                             *)
LEMMA ListInsertFront ==
    ASSUME NEW S, NEW s \in Seq(S), NEW e \in S
    PROVE  /\ Cons(e, s) \in Seq(S)
           /\ ToSet(Cons(e, s)) = ToSet(s) \cup {e}
           /\ IsInjective(s) /\ e \notin ToSet(s) => IsInjective(Cons(e, s))
<1> DEFINE t == <<e>> \o s
<1>1. /\ <<e>> \in Seq(S)
      /\ Len(<<e>>) = 1
      /\ <<e>>[1] = e
  OBVIOUS
<1>2. /\ t \in Seq(S)
      /\ DOMAIN t = 1 .. 1 + Len(s)
      /\ t[1] = e
      /\ \A i \in 2 .. 1 + Len(s) : t[i] = s[i - 1]
      /\ \A i \in 1 .. Len(s) : s[i] = t[i + 1]
      /\ DOMAIN s = 1 .. Len(s)
      /\ Len(s) \in Nat
  BY <1>1, ConcatProperties, LenProperties
<1> HIDE DEF t
<1>3. ToSet(t) = ToSet(s) \cup {e}
  <2>1. ToSet(t) \subseteq ToSet(s) \cup {e}
    <3> SUFFICES ASSUME NEW i \in 1 .. 1 + Len(s)
                 PROVE  t[i] \in ToSet(s) \cup {e}
      BY <1>2 DEF ToSet
    <3>1. CASE i = 1
      BY <3>1, <1>2
    <3>2. CASE i # 1
      <4>1. i \in 2 .. 1 + Len(s) /\ i - 1 \in 1 .. Len(s)
        BY <3>2, <1>2
      <4> QED
        BY <4>1, <1>2 DEF ToSet
    <3> QED
      BY <3>1, <3>2
  <2>2. e \in ToSet(t)
    BY <1>2 DEF ToSet
  <2>3. ToSet(s) \subseteq ToSet(t)
    BY <1>2 DEF ToSet
  <2> QED
    BY <2>1, <2>2, <2>3
<1>4. ASSUME IsInjective(s), e \notin ToSet(s) PROVE IsInjective(t)
  <2> SUFFICES ASSUME NEW a \in 1 .. 1 + Len(s), NEW b \in 1 .. 1 + Len(s),
                      t[a] = t[b]
               PROVE  a = b
    BY <1>2 DEF IsInjective
  <2>1. \A i \in 2 .. 1 + Len(s) : i - 1 \in 1 .. Len(s) /\ t[i] # e
    <3>1. \A i \in 1 .. Len(s) : s[i] # e
      BY <1>2, <1>4 DEF ToSet
    <3>2. \A i \in 2 .. 1 + Len(s) : i - 1 \in 1 .. Len(s) /\ t[i] = s[i - 1]
      BY <1>2
    <3> QED
      BY <3>1, <3>2
  <2>2. CASE a = 1 \/ b = 1
    BY <2>1, <2>2, <1>2
  <2>3. CASE a # 1 /\ b # 1
    <3>1. s[a - 1] = s[b - 1] /\ a - 1 \in 1 .. Len(s) /\ b - 1 \in 1 .. Len(s)
      BY <2>1, <2>3, <1>2
    <3>2. a - 1 = b - 1
      BY <3>1, <1>2, <1>4 DEF IsInjective
    <3> QED
      BY <3>2
  <2> QED
    BY <2>2, <2>3
<1> QED
  BY <1>2, <1>3, <1>4 DEF Cons, t

(* And the others move back by one.                                        *)
LEMMA ListInsertFrontItems ==
    ASSUME NEW S, NEW s \in Seq(S), NEW e \in S
    PROVE  /\ Len(Cons(e, s)) = Len(s) + 1
           /\ Cons(e, s)[1] = e
           /\ \A i \in 1 .. Len(s) : Cons(e, s)[i + 1] = s[i]
<1> DEFINE t == <<e>> \o s
<1>1. <<e>> \in Seq(S) /\ Len(<<e>>) = 1 /\ <<e>>[1] = e /\ Len(s) \in Nat
  BY LenProperties
<1>2. /\ Len(t) = Len(s) + 1 /\ t[1] = e
      /\ \A i \in 1 .. Len(s) : t[i + 1] = s[i]
  BY <1>1, ConcatProperties
<1> QED
  BY <1>2 DEF Cons

(* Taking the front item splits the list into that item and the rest.      *)
LEMMA ListTakeFront ==
    ASSUME NEW S, NEW s \in Seq(S), s # <<>>
    PROVE  /\ Head(s) \in S
           /\ Tail(s) \in Seq(S)
           /\ ToSet(s) = ToSet(Tail(s)) \cup {Head(s)}
           /\ IsInjective(s) =>
                IsInjective(Tail(s)) /\ Head(s) \notin ToSet(Tail(s))
<1> DEFINE t == Tail(s)
<1>1. /\ Head(s) \in S
      /\ t \in Seq(S)
      /\ Len(s) \in Nat \ {0}
      /\ DOMAIN s = 1 .. Len(s)
      /\ DOMAIN t = 1 .. Len(s) - 1
      /\ Head(s) = s[1]
      /\ \A i \in 1 .. Len(s) - 1 : t[i] = s[i + 1]
  BY HeadTailProperties, LenProperties, EmptySeq
<1> HIDE DEF t
<1>2. \A i \in 1 .. Len(s) : i = 1 \/ (i - 1 \in 1 .. Len(s) - 1 /\ s[i] = t[i - 1])
  BY <1>1
<1>3. ToSet(s) = ToSet(t) \cup {Head(s)}
  <2>1. ToSet(s) \subseteq ToSet(t) \cup {Head(s)}
    BY <1>1, <1>2 DEF ToSet
  <2>2. ToSet(t) \subseteq ToSet(s) /\ Head(s) \in ToSet(s)
    BY <1>1 DEF ToSet
  <2> QED
    BY <2>1, <2>2
<1>4. ASSUME IsInjective(s) PROVE IsInjective(t) /\ Head(s) \notin ToSet(t)
  <2>1. ASSUME NEW i \in 1 .. Len(s) - 1 PROVE t[i] # Head(s)
    BY <1>1, <1>4 DEF IsInjective
  <2>2. ASSUME NEW i \in 1 .. Len(s) - 1, NEW j \in 1 .. Len(s) - 1, t[i] = t[j]
        PROVE  i = j
    <3>1. s[i + 1] = s[j + 1] /\ i + 1 \in DOMAIN s /\ j + 1 \in DOMAIN s
      BY <2>2, <1>1
    <3>2. i + 1 = j + 1
      BY <3>1, <1>4 DEF IsInjective
    <3> QED
      BY <3>2
  <2> QED
    BY <2>1, <2>2, <1>1 DEF IsInjective, ToSet
<1> QED
  BY <1>1, <1>3, <1>4 DEF t

(* Taking the back item, likewise.                                         *)
LEMMA ListTakeBack ==
    ASSUME NEW S, NEW s \in Seq(S), s # <<>>
    PROVE  /\ Last(s) \in S
           /\ Front(s) \in Seq(S)
           /\ ToSet(s) = ToSet(Front(s)) \cup {Last(s)}
           /\ IsInjective(s) =>
                IsInjective(Front(s)) /\ Last(s) \notin ToSet(Front(s))
<1> DEFINE n == Len(s)
           t == SubSeq(s, 1, n - 1)
<1>1. n \in Nat \ {0} /\ DOMAIN s = 1 .. n /\ \A i \in 1 .. n : s[i] \in S
  BY LenProperties, EmptySeq, ElementOfSeq
<1>2. /\ t \in Seq(S)
      /\ DOMAIN t = 1 .. n - 1
      /\ \A i \in 1 .. n - 1 : t[i] = s[i]
  <2>1. \A i \in 1 .. n - 1 : s[i] \in S
    BY <1>1
  <2>2. Len(t) = n - 1 /\ t \in Seq(S) /\ \A i \in 1 .. n - 1 : t[i] = s[1 + i - 1]
    BY <1>1, <2>1, SubSeqProperties
  <2> QED
    BY <1>1, <2>2, LenProperties
<1> HIDE DEF n, t
<1>3. ToSet(s) = ToSet(t) \cup {s[n]}
  BY <1>1, <1>2 DEF ToSet
<1>4. ASSUME IsInjective(s) PROVE IsInjective(t) /\ s[n] \notin ToSet(t)
  BY <1>1, <1>2, <1>4 DEF IsInjective, ToSet
<1> QED
  BY <1>1, <1>2, <1>3, <1>4 DEF Last, Front, n, t

(* And the others stay where they are.                                     *)
LEMMA ListTakeBackItems ==
    ASSUME NEW S, NEW s \in Seq(S), s # <<>>
    PROVE  /\ Len(Front(s)) = Len(s) - 1
           /\ \A i \in 1 .. Len(s) - 1 : Front(s)[i] = s[i]
<1> DEFINE n == Len(s)
           t == SubSeq(s, 1, n - 1)
<1>1. n \in Nat \ {0} /\ \A i \in 1 .. n : s[i] \in S
  BY LenProperties, EmptySeq, ElementOfSeq
<1>2. \A i \in 1 .. n - 1 : s[i] \in S
  BY <1>1
<1>3. /\ Len(t) = IF 1 <= n - 1 THEN n - 1 - 1 + 1 ELSE 0
      /\ \A i \in 1 .. n - 1 - 1 + 1 : t[i] = s[1 + i - 1]
  BY <1>1, <1>2, SubSeqProperties
<1> HIDE DEF n, t
<1>4. \A i \in 1 .. n - 1 : t[i] = s[i]
  BY <1>1, <1>3
<1>5. Len(t) = n - 1
  BY <1>1, <1>3
<1> QED
  BY <1>4, <1>5 DEF Front, t, n

(* Unlinking an item that is in the list, once, closes the gap.            *)
LEMMA ListRemoved ==
    ASSUME NEW S, NEW s \in Seq(S), IsInjective(s), NEW e \in ToSet(s)
    PROVE  \E k \in 1 .. Len(s) :
              /\ s[k] = e
              /\ RemoveFirst(s, e) \in Seq(S)
              /\ Len(RemoveFirst(s, e)) = Len(s) - 1
              /\ \A i \in 1 .. Len(s) - 1 :
                    RemoveFirst(s, e)[i] = IF i < k THEN s[i] ELSE s[i + 1]
<1> DEFINE n == Len(s)
<1>1. n \in Nat /\ DOMAIN s = 1 .. n /\ \A i \in 1 .. n : s[i] \in S
  BY LenProperties, ElementOfSeq
<1>2. PICK k \in 1 .. n : s[k] = e
  BY <1>1 DEF ToSet
<1>3. \A i \in 1 .. n : s[i] = e <=> i = k
  BY <1>1, <1>2 DEF IsInjective
<1>4. RemoveFirst(s, e) = RemoveAt(s, k)
  <2>1. {i \in 1 .. Len(s) : s[i] = e} = {k}
    BY <1>2, <1>3
  <2>2. SelectInSeq(s, LAMBDA v : v = e) = Min({k})
    BY <2>1 DEF SelectInSeq
  <2>3. Min({k}) = k
    BY <1>2 DEF Min
  <2> QED
    BY <1>2, <2>2, <2>3 DEF RemoveFirst
<1> DEFINE u == SubSeq(s, 1, k - 1)
           v == SubSeq(s, k + 1, n)
           t == u \o v
<1>5. /\ u \in Seq(S) /\ Len(u) = k - 1
      /\ \A i \in 1 .. k - 1 : u[i] = s[i]
  <2>1. \A i \in 1 .. k - 1 : s[i] \in S
    BY <1>1, <1>2
  <2>2. /\ u \in Seq(S) /\ Len(u) = IF 1 <= k - 1 THEN k - 1 - 1 + 1 ELSE 0
        /\ \A i \in 1 .. k - 1 - 1 + 1 : u[i] = s[1 + i - 1]
    BY <1>1, <1>2, <2>1, SubSeqProperties
  <2> QED
    BY <1>2, <2>2
<1>6. /\ v \in Seq(S) /\ Len(v) = n - k
      /\ \A i \in 1 .. n - k : v[i] = s[i + k]
  <2>1. \A i \in k + 1 .. n : s[i] \in S
    BY <1>1, <1>2
  <2>2. /\ v \in Seq(S) /\ Len(v) = IF k + 1 <= n THEN n - (k + 1) + 1 ELSE 0
        /\ \A i \in 1 .. n - (k + 1) + 1 : v[i] = s[k + 1 + i - 1]
    BY <1>1, <1>2, <2>1, SubSeqProperties
  <2> HIDE DEF n, v
  <2>3. \A i \in 1 .. n - k : i \in 1 .. n - (k + 1) + 1 /\ k + 1 + i - 1 = i + k
    BY <1>1, <1>2
  <2>4. (IF k + 1 <= n THEN n - (k + 1) + 1 ELSE 0) = n - k
    BY <1>1, <1>2
  <2>5. \A i \in 1 .. n - k : v[i] = s[i + k]
    BY <2>2, <2>3
  <2> QED
    BY <2>2, <2>4, <2>5
<1> HIDE DEF n, u, v
<1>7. /\ t \in Seq(S)
      /\ Len(t) = n - 1
      /\ \A i \in 1 .. n - 1 : t[i] = IF i < k THEN s[i] ELSE s[i + 1]
  <2>1. /\ t \in Seq(S)
        /\ Len(t) = n - 1
        /\ \A i \in 1 .. n - 1 : t[i] = IF i <= k - 1 THEN u[i] ELSE v[i - (k - 1)]
    BY <1>1, <1>2, <1>5, <1>6, ConcatProperties
  <2>2. ASSUME NEW i \in 1 .. n - 1 PROVE t[i] = IF i < k THEN s[i] ELSE s[i + 1]
    BY <1>1, <1>2, <1>5, <1>6, <2>1
  <2> QED
    BY <2>1, <2>2
<1> QED
  BY <1>2, <1>4, <1>7 DEF RemoveAt, t, u, v, n

(* It leaves the others.                                                   *)
LEMMA ListRemove ==
    ASSUME NEW S, NEW s \in Seq(S), IsInjective(s), NEW e \in ToSet(s)
    PROVE  /\ RemoveFirst(s, e) \in Seq(S)
           /\ ToSet(RemoveFirst(s, e)) = ToSet(s) \ {e}
           /\ IsInjective(RemoveFirst(s, e))
<1> DEFINE n == Len(s)
           t == RemoveFirst(s, e)
<1>1. n \in Nat /\ DOMAIN s = 1 .. n /\ \A i \in 1 .. n : s[i] \in S
  BY LenProperties, ElementOfSeq
<1>2. PICK k \in 1 .. n :
         /\ s[k] = e /\ t \in Seq(S) /\ Len(t) = n - 1
         /\ \A i \in 1 .. n - 1 : t[i] = IF i < k THEN s[i] ELSE s[i + 1]
  BY ListRemoved
<1>3. \A i \in 1 .. n : s[i] = e <=> i = k
  BY <1>1, <1>2 DEF IsInjective
<1> HIDE DEF n, t
<1>4. /\ t \in Seq(S)
      /\ DOMAIN t = 1 .. n - 1
      /\ \A i \in 1 .. n - 1 : t[i] = IF i < k THEN s[i] ELSE s[i + 1]
  BY <1>2, LenProperties
<1>5. ToSet(t) = ToSet(s) \ {e}
  <2>1. ASSUME NEW i \in 1 .. n - 1 PROVE t[i] \in ToSet(s) \ {e}
    <3>1. CASE i < k
      <4>1. i \in 1 .. n /\ i # k /\ t[i] = s[i]
        BY <3>1, <1>1, <1>2, <1>4
      <4> QED
        BY <4>1, <1>1, <1>3 DEF ToSet
    <3>2. CASE ~(i < k)
      <4>1. i + 1 \in 1 .. n /\ i + 1 # k /\ t[i] = s[i + 1]
        BY <3>2, <1>1, <1>2, <1>4
      <4> QED
        BY <4>1, <1>1, <1>3 DEF ToSet
    <3> QED
      BY <3>1, <3>2
  <2>2. ASSUME NEW i \in 1 .. n, i # k PROVE s[i] \in ToSet(t)
    <3>1. CASE i < k
      <4>1. i \in 1 .. n - 1 /\ t[i] = s[i]
        BY <3>1, <1>1, <1>2, <1>4
      <4> QED
        BY <4>1, <1>4 DEF ToSet
    <3>2. CASE i > k
      <4>1. i - 1 \in 1 .. n - 1 /\ t[i - 1] = s[i]
        BY <3>2, <1>1, <1>2, <1>4
      <4> QED
        BY <4>1, <1>4 DEF ToSet
    <3> QED
      BY <3>1, <3>2, <2>2, <1>1, <1>2
  <2>3. /\ ToSet(s) = {s[i] : i \in 1 .. n} /\ s[k] = e
        /\ ToSet(t) = {t[i] : i \in 1 .. n - 1}
    BY <1>1, <1>2, <1>4 DEF ToSet
  <2>4. ToSet(t) \subseteq ToSet(s) \ {e}
    BY <2>1, <2>3
  <2>5. ASSUME NEW f \in ToSet(s) \ {e} PROVE f \in ToSet(t)
    <3>1. PICK i \in 1 .. n : f = s[i]
      BY <2>3
    <3> QED
      BY <2>2, <2>3, <2>5, <3>1
  <2> QED
    BY <2>4, <2>5
<1>6. IsInjective(t)
  <2> SUFFICES ASSUME NEW a \in 1 .. n - 1, NEW b \in 1 .. n - 1, t[a] = t[b]
               PROVE  a = b
    BY <1>4 DEF IsInjective
  <2> DEFINE old(i) == IF i < k THEN i ELSE i + 1
  <2>1. /\ old(a) \in 1 .. n /\ old(b) \in 1 .. n
        /\ t[a] = s[old(a)] /\ t[b] = s[old(b)]
    BY <1>1, <1>2, <1>4
  <2>2. old(a) = old(b)
    BY <2>1, <1>1 DEF IsInjective
  <2> QED
    BY <2>2, <1>2
<1> QED
  BY <1>4, <1>5, <1>6 DEF t

(* Unlinking the front is what List_RemoveFront does: the rest keeps its   *)
(* order.                                                                  *)
LEMMA ListRemoveFront ==
    ASSUME NEW S, NEW s \in Seq(S), s # <<>>
    PROVE  RemoveFirst(s, Head(s)) = Tail(s)
<1> DEFINE n == Len(s)
           e == Head(s)
<1>1. /\ n \in Nat /\ 1 \in 1 .. n /\ \A i \in 1 .. n : s[i] \in S
      /\ s[1] = e /\ Tail(s) \in Seq(S) /\ Len(Tail(s)) = n - 1
      /\ \A i \in 1 .. n - 1 : Tail(s)[i] = s[i + 1]
  BY LenProperties, ElementOfSeq
<1> HIDE DEF e
<1>2. RemoveFirst(s, e) = RemoveAt(s, 1)
  <2> DEFINE I == {i \in 1 .. Len(s) : s[i] = e}
  <2>1. I # {} /\ 1 \in I /\ \A i \in I : 1 <= i
    BY <1>1
  <2>2. SelectInSeq(s, LAMBDA v : v = e) = Min(I)
    BY <2>1 DEF SelectInSeq
  <2>3. Min(I) = 1
    BY <1>1, <2>1 DEF Min
  <2> QED
    BY <2>2, <2>3, <1>1 DEF RemoveFirst
<1> DEFINE u == SubSeq(s, 1, 0)
           v == SubSeq(s, 2, n)
<1>3. u = <<>>
  BY <1>1
<1>4. /\ v \in Seq(S) /\ Len(v) = n - 1
      /\ \A i \in 1 .. n - 1 : v[i] = s[i + 1]
  <2>1. \A i \in 2 .. n : s[i] \in S
    BY <1>1
  <2>2. /\ v \in Seq(S) /\ Len(v) = IF 2 <= n THEN n - 2 + 1 ELSE 0
        /\ \A i \in 1 .. n - 2 + 1 : v[i] = s[2 + i - 1]
    BY <1>1, <2>1, SubSeqProperties
  <2> HIDE DEF n, v
  <2> QED
    BY <1>1, <2>2
<1>5. u \o v = v
  BY <1>3, <1>4
<1>6. v = Tail(s)
  BY <1>1, <1>4, SeqEqual
<1> QED
  BY <1>1, <1>2, <1>5, <1>6 DEF RemoveAt, e

(* A list put behind another one, with no item in both.                    *)
LEMMA ListConcat ==
    ASSUME NEW S, NEW s \in Seq(S), NEW t \in Seq(S)
    PROVE  /\ s \o t \in Seq(S)
           /\ ToSet(s \o t) = ToSet(s) \cup ToSet(t)
           /\ IsInjective(s) /\ IsInjective(t) /\ ToSet(s) \cap ToSet(t) = {}
                => IsInjective(s \o t)
<1> DEFINE m == Len(s)
           n == Len(t)
           u == s \o t
<1>1. /\ m \in Nat /\ n \in Nat /\ u \in Seq(S) /\ Len(u) = m + n
      /\ DOMAIN s = 1 .. m /\ DOMAIN t = 1 .. n /\ DOMAIN u = 1 .. m + n
      /\ \A i \in 1 .. m : u[i] = s[i]
      /\ \A i \in 1 .. n : u[m + i] = t[i]
  OBVIOUS
<1> HIDE DEF m, n, u
<1>2. \A i \in 1 .. m + n : i \in 1 .. m \/ (i - m \in 1 .. n /\ u[i] = t[i - m])
  <2> SUFFICES ASSUME NEW i \in 1 .. m + n, i \notin 1 .. m
               PROVE  i - m \in 1 .. n /\ u[i] = t[i - m]
    OBVIOUS
  <2>1. i - m \in 1 .. n /\ m + (i - m) = i
    BY <1>1
  <2> QED
    BY <1>1, <2>1
<1>3. ToSet(u) = ToSet(s) \cup ToSet(t)
  <2>1. ASSUME NEW i \in 1 .. m + n PROVE u[i] \in ToSet(s) \cup ToSet(t)
    BY <1>1, <1>2 DEF ToSet
  <2>2. ASSUME NEW i \in 1 .. m PROVE s[i] \in ToSet(u)
    <3>1. i \in 1 .. m + n
      BY <1>1
    <3> QED
      BY <1>1, <3>1 DEF ToSet
  <2>3. ASSUME NEW i \in 1 .. n PROVE t[i] \in ToSet(u)
    <3>1. m + i \in 1 .. m + n
      BY <1>1
    <3> QED
      BY <1>1, <3>1 DEF ToSet
  <2>4. /\ ToSet(u) = {u[i] : i \in 1 .. m + n}
        /\ ToSet(s) = {s[i] : i \in 1 .. m} /\ ToSet(t) = {t[i] : i \in 1 .. n}
    BY <1>1 DEF ToSet
  <2> QED
    BY <2>1, <2>2, <2>3, <2>4
<1>4. ASSUME IsInjective(s), IsInjective(t), ToSet(s) \cap ToSet(t) = {}
      PROVE  IsInjective(u)
  <2> SUFFICES ASSUME NEW i \in 1 .. m + n, NEW j \in 1 .. m + n, u[i] = u[j]
               PROVE  i = j
    BY <1>1 DEF IsInjective
  <2>1. CASE i \in 1 .. m /\ j \in 1 .. m
    BY <1>1, <1>4, <2>1 DEF IsInjective
  <2>2. CASE i \in 1 .. m /\ j \notin 1 .. m
    <3>1. j - m \in 1 .. n /\ u[j] = t[j - m] /\ u[i] = s[i]
      BY <1>1, <1>2, <2>2
    <3>2. s[i] \in ToSet(s) /\ t[j - m] \in ToSet(t)
      BY <1>1, <2>2, <3>1 DEF ToSet
    <3> QED
      BY <1>4, <3>1, <3>2
  <2>3. CASE i \notin 1 .. m /\ j \in 1 .. m
    <3>1. i - m \in 1 .. n /\ u[i] = t[i - m] /\ u[j] = s[j]
      BY <1>1, <1>2, <2>3
    <3>2. s[j] \in ToSet(s) /\ t[i - m] \in ToSet(t)
      BY <1>1, <2>3, <3>1 DEF ToSet
    <3> QED
      BY <1>4, <3>1, <3>2
  <2>4. CASE i \notin 1 .. m /\ j \notin 1 .. m
    <3>1. i - m \in 1 .. n /\ j - m \in 1 .. n /\ t[i - m] = t[j - m]
      BY <1>2, <2>4
    <3>2. i - m = j - m
      BY <1>1, <1>4, <3>1 DEF IsInjective
    <3> QED
      BY <1>1, <3>2
  <2> QED
    BY <2>1, <2>2, <2>3, <2>4
<1> QED
  BY <1>1, <1>3, <1>4 DEF u

(* The items of a finite set, listed in any order.                         *)
LEMMA ListOfSet ==
    ASSUME NEW S, IsFiniteSet(S), NEW s \in SetToSeqs(S)
    PROVE  s \in Seq(S) /\ IsInjective(s) /\ ToSet(s) = S
<1> DEFINE n == Cardinality(S)
<1>1. n \in Nat
  BY FS_CardinalityType
<1>2. /\ s \in [1 .. n -> S]
      /\ \A i, j \in 1 .. n : i # j => s[i] # s[j]
  BY DEF SetToSeqs
<1>3. s \in Seq(S) /\ DOMAIN s = 1 .. n
  BY <1>1, <1>2
<1>4. IsInjective(s)
  BY <1>2, <1>3 DEF IsInjective
<1>5. s \in Injection(1 .. n, S)
  BY <1>2 DEF Injection, IsInjective
<1>6. IsFiniteSet(1 .. n) /\ Cardinality(1 .. n) = n
  BY <1>1, FS_Interval
<1>7. s \in Surjection(1 .. n, S)
  BY <1>5, <1>6, FS_Injection
<1>8. ToSet(s) = S
  BY <1>2, <1>3, <1>7 DEF Surjection, ToSet
<1> QED
  BY <1>3, <1>4, <1>8

(* And any list of all of them, each once, is such a listing.              *)
LEMMA SetOfList ==
    ASSUME NEW S, NEW s \in Seq(S), IsInjective(s), ToSet(s) = S
    PROVE  IsFiniteSet(S) /\ s \in SetToSeqs(S)
<1> DEFINE n == Len(s)
<1>1. n \in Nat /\ DOMAIN s = 1 .. n /\ s \in [1 .. n -> S]
  BY LenProperties
<1>2. s \in Surjection(1 .. n, S) /\ s \in Injection(1 .. n, S)
  BY <1>1 DEF Surjection, Injection, ToSet, IsInjective
<1>3. IsFiniteSet(1 .. n) /\ Cardinality(1 .. n) = n
  BY <1>1, FS_Interval
<1>4. IsFiniteSet(S) /\ Cardinality(S) = n
  BY <1>2, <1>3, FS_Surjection
<1>5. \A i, j \in 1 .. n : i # j => s[i] # s[j]
  BY <1>1 DEF IsInjective
<1> QED
  BY <1>1, <1>4, <1>5 DEF SetToSeqs

(* A list that holds nothing twice is no longer than the set its items are *)
(* from, and as long only if it holds all of them.                         *)
LEMMA ListFits ==
    ASSUME NEW n \in Nat, NEW s \in Seq(1 .. n), IsInjective(s)
    PROVE  /\ Len(s) \in 0 .. n
           /\ Len(s) = n => ToSet(s) = 1 .. n
<1> DEFINE m == Len(s)
<1>1. m \in Nat /\ DOMAIN s = 1 .. m /\ s \in [1 .. m -> 1 .. n]
  BY LenProperties
<1>2. s \in Injection(1 .. m, 1 .. n)
  BY <1>1 DEF Injection, IsInjective
<1>3. IsFiniteSet(1 .. n) /\ Cardinality(1 .. n) = n /\ Cardinality(1 .. m) = m
  <2>1. 1 \in Int /\ n \in Int /\ m \in Int
    BY <1>1
  <2>2. Cardinality(1 .. n) = (IF 1 > n THEN 0 ELSE n - 1 + 1) /\ IsFiniteSet(1 .. n)
    BY <2>1, FS_Interval
  <2>3. Cardinality(1 .. m) = IF 1 > m THEN 0 ELSE m - 1 + 1
    BY <2>1, FS_Interval
  <2> HIDE DEF m
  <2> QED
    BY <1>1, <2>2, <2>3
<1>4. m <= n /\ (m = n => s \in Surjection(1 .. m, 1 .. n))
  BY <1>2, <1>3, FS_Injection
<1>5. ASSUME m = n PROVE ToSet(s) = 1 .. n
  BY <1>1, <1>4, <1>5 DEF Surjection, ToSet
<1> HIDE DEF m
<1>6. m \in 0 .. n
  BY <1>1, <1>4
<1> QED
  BY <1>5, <1>6 DEF m

(* Taking the first n items.                                               *)
LEMMA ListTakeSome ==
    ASSUME NEW S, NEW s \in Seq(S), NEW n \in 0 .. Len(s)
    PROVE  LET rest == SubSeq(s, n + 1, Len(s))
               taken == {s[i] : i \in 1 .. n}
           IN /\ rest \in Seq(S) /\ Len(rest) = Len(s) - n
              /\ \A i \in 1 .. Len(s) - n : rest[i] = s[n + i]
              /\ taken \subseteq S
              /\ ToSet(s) = taken \cup ToSet(rest)
              /\ IsInjective(s) => IsInjective(rest) /\ taken \cap ToSet(rest) = {}
<1> DEFINE m == Len(s)
           rest == SubSeq(s, n + 1, m)
           taken == {s[i] : i \in 1 .. n}
<1>1. m \in Nat /\ n \in Nat /\ DOMAIN s = 1 .. m /\ \A i \in 1 .. m : s[i] \in S
  BY LenProperties, ElementOfSeq
<1> HIDE DEF m
<1>2. n <= m
  BY DEF m
<1>3. /\ rest \in Seq(S) /\ Len(rest) = m - n
      /\ \A i \in 1 .. m - n : rest[i] = s[n + i]
  <2>1. \A i \in n + 1 .. m : s[i] \in S
    BY <1>1
  <2>2. /\ rest \in Seq(S)
        /\ Len(rest) = IF n + 1 <= m THEN m - (n + 1) + 1 ELSE 0
        /\ \A i \in 1 .. m - (n + 1) + 1 : rest[i] = s[n + 1 + i - 1]
    BY <1>1, <2>1, SubSeqProperties
  <2> HIDE DEF rest
  <2>3. Len(rest) = m - n /\ m - (n + 1) + 1 = m - n
    BY <1>1, <1>2, <2>2
  <2>4. \A i \in 1 .. m - n : rest[i] = s[n + i]
    <3> SUFFICES ASSUME NEW i \in 1 .. m - n PROVE rest[i] = s[n + i]
      OBVIOUS
    <3>1. n + 1 + i - 1 = n + i
      BY <1>1
    <3> QED
      BY <2>2, <2>3, <3>1
  <2> QED
    BY <2>2, <2>3, <2>4
<1> HIDE DEF rest
<1>4. DOMAIN rest = 1 .. m - n
  BY <1>3, LenProperties
<1>5. taken \subseteq S
  BY <1>1, <1>2
<1>6. ToSet(s) = taken \cup ToSet(rest)
  <2>1. ASSUME NEW i \in 1 .. m PROVE s[i] \in taken \cup ToSet(rest)
    <3>1. CASE i <= n
      BY <1>1, <3>1
    <3>2. CASE i > n
      <4>1. i - n \in 1 .. m - n /\ n + (i - n) = i
        BY <1>1, <3>2
      <4> QED
        BY <1>3, <1>4, <4>1 DEF ToSet
    <3> QED
      BY <1>1, <3>1, <3>2
  <2>2. ASSUME NEW i \in 1 .. m - n PROVE rest[i] \in ToSet(s)
    <3>1. n + i \in 1 .. m /\ rest[i] = s[n + i]
      BY <1>1, <1>3
    <3> QED
      BY <1>1, <3>1 DEF ToSet
  <2>3. ASSUME NEW i \in 1 .. n PROVE s[i] \in ToSet(s)
    <3>1. i \in 1 .. m
      BY <1>1, <1>2
    <3> QED
      BY <1>1, <3>1 DEF ToSet
  <2>4. /\ ToSet(s) = {s[i] : i \in 1 .. m}
        /\ ToSet(rest) = {rest[i] : i \in 1 .. m - n}
    BY <1>1, <1>4 DEF ToSet
  <2> QED
    BY <2>1, <2>2, <2>3, <2>4
<1>7. ASSUME IsInjective(s)
      PROVE  IsInjective(rest) /\ taken \cap ToSet(rest) = {}
  <2>1. ASSUME NEW i \in 1 .. m - n, NEW j \in 1 .. m - n, rest[i] = rest[j]
        PROVE  i = j
    <3>1. n + i \in 1 .. m /\ n + j \in 1 .. m /\ s[n + i] = s[n + j]
      BY <1>1, <1>3, <2>1
    <3>2. n + i = n + j
      BY <1>1, <1>7, <3>1 DEF IsInjective
    <3> QED
      BY <1>1, <3>2
  <2>2. ASSUME NEW i \in 1 .. n, NEW j \in 1 .. m - n PROVE s[i] # rest[j]
    <3>1. n + j \in 1 .. m /\ i \in 1 .. m /\ i # n + j /\ rest[j] = s[n + j]
      BY <1>1, <1>2, <1>3
    <3> QED
      BY <1>1, <1>7, <3>1 DEF IsInjective
  <2> QED
    BY <1>4, <2>1, <2>2 DEF IsInjective, ToSet
<1> QED
  BY <1>3, <1>5, <1>6, <1>7 DEF m, rest

-----------------------------------------------------------------------------
(* A set of numbers that is not empty has a least one.                     *)
LEMMA LeastNumber ==
    ASSUME NEW T \in SUBSET Nat, T # {}
    PROVE  \E m \in T : \A k \in T : m <= k
<1> DEFINE Less == OpToRel(<, Nat)
<1>1. \A j, k \in Nat : <<j, k>> \in Less <=> j < k
  BY DEF OpToRel
<1>2. IsWellFoundedOn(Less, Nat)
  BY NatLessThanWellFounded
<1> HIDE DEF Less
<1>3. PICK m \in T : \A k \in T : <<k, m>> \notin Less
  BY <1>2, WFMin
<1>4. ASSUME NEW k \in T PROVE m <= k
  <2>1. m \in Nat /\ k \in Nat /\ ~(k < m)
    BY <1>1, <1>3
  <2> QED
    BY <2>1
<1> QED
  BY <1>3, <1>4

(* Induction up to n, with the set of the numbers that have the property   *)
(* in place of the property: the least number without it would have a      *)
(* predecessor with it.                                                    *)
LEMMA InductionUpTo ==
    ASSUME NEW n \in Nat, NEW T, 0 \in T,
           \A k \in 0 .. n : k # n /\ k \in T => k + 1 \in T
    PROVE  0 .. n \subseteq T
<1> DEFINE Without == (0 .. n) \ T
<1>1. SUFFICES ASSUME Without # {} PROVE FALSE
  OBVIOUS
<1>2. Without \subseteq Nat
  OBVIOUS
<1>3. PICK m \in Without : \A k \in Without : m <= k
  BY <1>1, <1>2, LeastNumber
<1>4. m # 0 /\ m - 1 \in 0 .. n /\ m - 1 # n /\ ~(m <= m - 1) /\ (m - 1) + 1 = m
  BY <1>3
<1>5. m - 1 \in T
  BY <1>3, <1>4
<1> QED
  BY <1>3, <1>4, <1>5

(* Lists put one behind another, with no item in two of them.              *)
LEMMA ListFlatten ==
    ASSUME NEW S, NEW ss \in Seq(Seq(S))
    PROVE  /\ FlattenSeq(ss) \in Seq(S)
           /\ ToSet(FlattenSeq(ss)) = UNION {ToSet(ss[i]) : i \in 1 .. Len(ss)}
           /\ /\ \A i \in 1 .. Len(ss) : IsInjective(ss[i])
              /\ \A i, j \in 1 .. Len(ss) : i # j => ToSet(ss[i]) \cap ToSet(ss[j]) = {}
              => IsInjective(FlattenSeq(ss))
<1> DEFINE n == Len(ss)
           Disjoint == /\ \A i \in 1 .. n : IsInjective(ss[i])
                       /\ \A i, j \in 1 .. n : i # j => ToSet(ss[i]) \cap ToSet(ss[j]) = {}
           Flattens(f, k) ==
               f = [i \in 1 .. k |-> IF i = 1 THEN ss[i] ELSE f[i - 1] \o ss[i]]
<1>1. n \in Nat /\ \A i \in 1 .. n : ss[i] \in Seq(S)
  BY LenProperties, ElementOfSeq
<1>2. CASE n = 0
  <2>1. ss = <<>> /\ FlattenSeq(ss) = <<>>
    BY <1>2, EmptySeq DEF FlattenSeq
  <2>2. <<>> \in Seq(S)
    OBVIOUS
  <2>3. ToSet(<<>>) = {} /\ IsInjective(<<>>)
    BY <2>2, ListEmpty
  <2>4. UNION {ToSet(ss[i]) : i \in 1 .. Len(ss)} = {}
    BY <1>2
  <2> QED
    BY <2>1, <2>2, <2>3, <2>4
<1>3. CASE n # 0
  <2>1. \E f : Flattens(f, n)
    <3> DEFINE T == {k \in 0 .. n : \E f : Flattens(f, k)}
    <3>1. 0 \in T
      <4>1. Flattens([i \in 1 .. 0 |-> ss], 0)
        OBVIOUS
      <4> HIDE DEF Flattens
      <4> QED
        BY <1>1, <4>1
    <3>2. ASSUME NEW k \in 0 .. n, k # n, k \in T PROVE k + 1 \in T
      <4>1. PICK f : Flattens(f, k)
        BY <3>2
      <4> DEFINE g == [i \in 1 .. k + 1 |->
                          IF i # k + 1 THEN f[i]
                          ELSE IF i = 1 THEN ss[i] ELSE f[i - 1] \o ss[i]]
                 h == [i \in 1 .. k + 1 |-> IF i = 1 THEN ss[i] ELSE g[i - 1] \o ss[i]]
      <4>2. ASSUME NEW i \in 1 .. k + 1 PROVE g[i] = h[i]
        <5>1. CASE i = 1
          BY <1>1, <3>2, <4>1, <5>1
        <5>2. CASE i # 1
          <6>1. i - 1 \in 1 .. k + 1 /\ i - 1 # k + 1
            BY <1>1, <3>2, <5>2
          <6>2. g[i - 1] = f[i - 1]
            BY <6>1
          <6>3. CASE i = k + 1
            BY <5>2, <6>2, <6>3
          <6>4. CASE i # k + 1
            <7>1. i \in 1 .. k
              BY <1>1, <3>2, <6>4
            <7>2. f[i] = f[i - 1] \o ss[i]
              BY <4>1, <5>2, <7>1
            <7> QED
              BY <5>2, <6>2, <6>4, <7>2
          <6> QED
            BY <6>3, <6>4
        <5> QED
          BY <5>1, <5>2
      <4>3. g = h
        BY <4>2
      <4>4. Flattens(g, k + 1)
        BY <4>3
      <4>5. k + 1 \in 0 .. n
        BY <1>1, <3>2
      <4> QED
        BY <4>4, <4>5
    <3> HIDE DEF T
    <3>3. 0 .. n \subseteq T
      BY <1>1, <3>1, <3>2, InductionUpTo
    <3>4. n \in T
      BY <1>1, <3>3
    <3> QED
      BY <3>4 DEF T
  <2> DEFINE flatten == CHOOSE f : Flattens(f, n)
  <2>2. Flattens(flatten, n)
    BY <2>1
  <2>3. FlattenSeq(ss) = flatten[n]
    BY <1>3 DEF FlattenSeq
  <2> HIDE DEF flatten
  <2>4. /\ flatten[1] = ss[1]
        /\ \A i \in 2 .. n : flatten[i] = flatten[i - 1] \o ss[i]
    <3>1. 1 \in 1 .. n /\ \A i \in 2 .. n : i \in 1 .. n /\ i # 1
      BY <1>1, <1>3
    <3>2. \A i \in 1 .. n :
             flatten[i] = IF i = 1 THEN ss[i] ELSE flatten[i - 1] \o ss[i]
      BY <2>2
    <3> QED
      BY <3>1, <3>2
  <2> DEFINE Upto(k) == UNION {ToSet(ss[i]) : i \in 1 .. k}
             Good(k) == /\ flatten[k] \in Seq(S)
                        /\ ToSet(flatten[k]) = Upto(k)
                        /\ Disjoint => IsInjective(flatten[k])
             T == {k \in 0 .. n : k = 0 \/ Good(k)}
  <2>5. 0 \in T
    BY <1>1
  <2>6. ASSUME NEW k \in 0 .. n, k # n, k \in T PROVE k + 1 \in T
    <3>1. k + 1 \in 1 .. n
      BY <1>1, <2>6
    <3>2. CASE k = 0
      <4>1. flatten[1] = ss[1] /\ ss[1] \in Seq(S) /\ 1 \in 1 .. n
        BY <1>1, <2>4, <3>1, <3>2
      <4>2. Upto(1) = ToSet(ss[1])
        <5>1. 1 .. 1 = {1}
          OBVIOUS
        <5> QED
          BY <5>1
      <4>3. Disjoint => IsInjective(ss[1])
        BY <1>1, <4>1
      <4> HIDE DEF Upto, Disjoint
      <4>4. Good(1)
        BY <4>1, <4>2, <4>3
      <4>5. k + 1 = 1 /\ 1 \in 0 .. n
        BY <1>1, <3>1, <3>2
      <4> HIDE DEF Good
      <4> QED
        BY <4>4, <4>5
    <3>3. CASE k # 0
      <4>1. Good(k) /\ flatten[k + 1] = flatten[k] \o ss[k + 1]
        <5>1. k + 1 \in 2 .. n /\ (k + 1) - 1 = k
          BY <1>1, <2>6, <3>3
        <5> QED
          BY <2>4, <2>6, <3>3, <5>1
      <4>2. Upto(k + 1) = Upto(k) \cup ToSet(ss[k + 1])
        <5>1. 1 .. k + 1 = (1 .. k) \cup {k + 1}
          BY <1>1, <2>6
        <5> QED
          BY <5>1
      <4>3. Disjoint => Upto(k) \cap ToSet(ss[k + 1]) = {}
        <5>1. \A i \in 1 .. k : i \in 1 .. n /\ i # k + 1
          BY <1>1, <2>6
        <5> QED
          BY <3>1, <5>1
      <4>4. ss[k + 1] \in Seq(S) /\ (Disjoint => IsInjective(ss[k + 1]))
        BY <1>1, <3>1
      <4> HIDE DEF Upto, Disjoint
      <4>5. Good(k + 1)
        <5>1. /\ flatten[k + 1] \in Seq(S)
              /\ ToSet(flatten[k + 1]) = ToSet(flatten[k]) \cup ToSet(ss[k + 1])
              /\ /\ IsInjective(flatten[k]) /\ IsInjective(ss[k + 1])
                 /\ ToSet(flatten[k]) \cap ToSet(ss[k + 1]) = {}
                 => IsInjective(flatten[k + 1])
          BY <4>1, <4>4, ListConcat
        <5> QED
          BY <4>1, <4>2, <4>3, <4>4, <5>1
      <4> QED
        BY <3>1, <4>5
    <3> QED
      BY <3>2, <3>3
  <2> HIDE DEF T
  <2>7. 0 .. n \subseteq T
    BY <1>1, <2>5, <2>6, InductionUpTo
  <2>8. n \in T
    BY <1>1, <2>7
  <2>9. Good(n)
    BY <1>3, <2>8 DEF T
  <2> QED
    BY <2>3, <2>9
<1> QED
  BY <1>2, <1>3

(* What a search of a list from its front finds: the items before the      *)
(* found one fail the test, all of them when none is found.  The items     *)
(* that pass the test are given by the set of their places.                *)
LEMMA FirstFound ==
    ASSUME NEW n \in Nat, NEW I \in SUBSET (1 .. n)
    PROVE  LET found == IF I # {} THEN Min(I) ELSE 0
               before == IF found = 0 THEN n ELSE found - 1
           IN /\ before \in 0 .. n
              /\ \A i \in 1 .. before : i \notin I
              /\ before # n => before + 1 \in I
<1>1. CASE I = {}
  BY <1>1
<1>2. CASE I # {}
  <2>1. PICK m \in I : \A k \in I : m <= k
    BY <1>2, LeastNumber
  <2>2. Min(I) \in I /\ \A k \in I : Min(I) <= k
    BY <2>1 DEF Min
  <2>3. PICK f \in I : f = Min(I)
    BY <2>2
  <2>4. f \in 1 .. n /\ f # 0 /\ \A i \in 1 .. f - 1 : i \notin I
    BY <2>2, <2>3
  <2> QED
    BY <1>2, <2>3, <2>4
<1> QED
  BY <1>1, <1>2

-----------------------------------------------------------------------------
(* The states a loop goes through, round by round.                         *)
States(state, body, start, n) ==
    /\ Repeated(body, start, n) = state[n]
    /\ state[0] = start
    /\ \A i \in 0 .. n : i # n => state[i + 1] = body[state[i]]

LEMMA RepeatedStates ==
    ASSUME NEW body, NEW start, NEW n \in Nat
    PROVE  \E state : States(state, body, start, n)
<1> DEFINE Value(f, i) == IF i = 0 THEN start ELSE body[f[i - 1]]
           Loop(f, k) == f = [i \in 0 .. k |-> Value(f, i)]
<1>1. \E f : Loop(f, n)
  <2> DEFINE T == {k \in 0 .. n : \E f : Loop(f, k)}
  <2>1. 0 \in T
    <3> DEFINE f == [i \in 0 .. 0 |-> start]
    <3>1. \A i \in 0 .. 0 : i = 0 /\ Value(f, i) = start
      OBVIOUS
    <3>2. Loop(f, 0)
      BY <3>1
    <3>3. 0 \in 0 .. n
      OBVIOUS
    <3> HIDE DEF f, Loop
    <3> QED
      BY <3>2, <3>3
  <2>2. ASSUME NEW k \in 0 .. n, k # n, k \in T PROVE k + 1 \in T
    <3>1. PICK f : Loop(f, k)
      BY <2>2
    <3> DEFINE g == [i \in 0 .. k + 1 |-> IF i = k + 1 THEN body[f[k]] ELSE f[i]]
    <3>2. \A i \in 0 .. k : i \in 0 .. k + 1 /\ i # k + 1 /\ g[i] = f[i]
      OBVIOUS
    <3>3. \A i \in 0 .. k + 1 : g[i] = Value(g, i)
      <4> SUFFICES ASSUME NEW i \in 0 .. k + 1 PROVE g[i] = Value(g, i)
        OBVIOUS
      <4>1. CASE i = k + 1
        <5>1. i # 0 /\ i - 1 = k /\ k \in 0 .. k /\ g[i] = body[f[k]]
          BY <4>1
        <5>2. g[i - 1] = f[k]
          BY <3>2, <5>1
        <5> HIDE DEF g
        <5> QED
          BY <5>1, <5>2
      <4>2. CASE i = 0
        <5>1. i \in 0 .. k
          BY <4>2
        <5>2. g[i] = f[i] /\ f[i] = Value(f, i)
          BY <3>1, <3>2, <5>1
        <5> QED
          BY <4>2, <5>2
      <4>3. CASE i # 0 /\ i # k + 1
        <5>1. i \in 0 .. k /\ i - 1 \in 0 .. k
          BY <4>3
        <5>2. g[i] = f[i] /\ f[i] = Value(f, i) /\ g[i - 1] = f[i - 1]
          BY <3>1, <3>2, <5>1
        <5> HIDE DEF g
        <5> QED
          BY <4>3, <5>2
      <4> QED
        BY <4>1, <4>2, <4>3
    <3>4. Loop(g, k + 1)
      BY <3>3
    <3>5. k + 1 \in 0 .. n
      BY <2>2
    <3> HIDE DEF g, Loop
    <3> QED
      BY <3>4, <3>5
  <2> HIDE DEF T
  <2>3. 0 .. n \subseteq T
    BY <2>1, <2>2, InductionUpTo
  <2>4. n \in T
    BY <2>3
  <2> QED
    BY <2>4 DEF T
<1> DEFINE state == CHOOSE f : Loop(f, n)
<1>2. Loop(state, n)
  BY <1>1
<1>3. Repeated(body, start, n) = state[n]
  BY DEF Repeated
<1> HIDE DEF state
<1>4. \A i \in 0 .. n : state[i] = Value(state, i)
  BY <1>2
<1>5. state[0] = start
  BY <1>4
<1>6. ASSUME NEW i \in 0 .. n, i # n PROVE state[i + 1] = body[state[i]]
  <2>1. i + 1 \in 0 .. n /\ i + 1 # 0 /\ (i + 1) - 1 = i
    BY <1>6
  <2> QED
    BY <1>4, <2>1
<1> QED
  BY <1>3, <1>5, <1>6 DEF States

(* What holds of the variables of a loop before it, and is kept by each    *)
(* round, holds of them after it.  P[i] are the states they may be in after *)
(* i rounds.                                                               *)
LEMMA RepeatedKeeps ==
    ASSUME NEW body, NEW start, NEW n \in Nat, NEW P, start \in P[0],
           \A i \in 0 .. n : i # n => \A s \in P[i] : body[s] \in P[i + 1]
    PROVE  Repeated(body, start, n) \in P[n]
<1>1. PICK state : States(state, body, start, n)
  BY RepeatedStates
<1> DEFINE T == {k \in 0 .. n : state[k] \in P[k]}
<1>2. 0 \in T
  BY <1>1 DEF States
<1>3. ASSUME NEW k \in 0 .. n, k # n, k \in T PROVE k + 1 \in T
  <2>1. k + 1 \in 0 .. n
    BY <1>3
  <2>2. state[k + 1] = body[state[k]]
    BY <1>1, <1>3 DEF States
  <2>3. body[state[k]] \in P[k + 1]
    BY <1>3
  <2> QED
    BY <2>1, <2>2, <2>3
<1> HIDE DEF T
<1>4. 0 .. n \subseteq T
  BY <1>2, <1>3, InductionUpTo
<1>5. n \in T
  BY <1>4
<1> QED
  BY <1>1, <1>5 DEF T, States

(* Another round is the body applied once more.                            *)
LEMMA RepeatedOnceMore ==
    ASSUME NEW body, NEW start
    PROVE  /\ Repeated(body, start, 0) = start
           /\ \A n \in Nat : Repeated(body, start, n + 1) = body[Repeated(body, start, n)]
<1>1. Repeated(body, start, 0) = start
  BY RepeatedStates DEF States
<1>2. ASSUME NEW n \in Nat
      PROVE  Repeated(body, start, n + 1) = body[Repeated(body, start, n)]
  <2>1. n + 1 \in Nat /\ n \in 0 .. n + 1 /\ n # n + 1
    OBVIOUS
  <2>2. PICK state : States(state, body, start, n + 1)
    BY <2>1, RepeatedStates
  <2>3. /\ Repeated(body, start, n + 1) = state[n + 1]
        /\ state[n + 1] = body[state[n]]
        /\ state[0] = start
        /\ \A i \in 0 .. n : i # n => state[i + 1] = body[state[i]]
    BY <2>1, <2>2 DEF States
  <2> DEFINE P == [i \in 0 .. n |-> {state[i]}]
  <2>4. start \in P[0] /\ P[n] = {state[n]}
    BY <2>3
  <2>5. ASSUME NEW i \in 0 .. n, i # n PROVE \A s \in P[i] : body[s] \in P[i + 1]
    <3>1. i + 1 \in 0 .. n /\ P[i] = {state[i]} /\ P[i + 1] = {state[i + 1]}
      BY <2>5
    <3> QED
      BY <2>3, <2>5, <3>1
  <2> HIDE DEF P
  <2>6. Repeated(body, start, n) \in P[n]
    BY <2>4, <2>5, RepeatedKeeps
  <2> QED
    BY <2>3, <2>4, <2>6
<1> QED
  BY <1>1, <1>2
=============================================================================
