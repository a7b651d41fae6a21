--------------------------- MODULE RhinoListProofs ---------------------------
(***************************************************************************)
(* What the list operators of the kernel models return: lemmas on minima,  *)
(* klist_rm, InsertAt, rotation, pend_list_add and the order of a list by  *)
(* priority, for lists of any length.                                      *)
(***************************************************************************)
EXTENDS RhinoList, FiniteSets, FiniteSetTheorems, WellFoundedInduction, SequenceTheorems, TLAPS

(***************************************************************************)
(* A nonempty set of naturals has a minimum: mutex_pri_look and            *)
(* krhino_find_first_bit are defined.                                      *)
(***************************************************************************)
LEMMA NatMin ==
    ASSUME NEW S \in SUBSET Nat, S # {}
    PROVE  Min(S) \in S /\ \A y \in S : Min(S) <= y
<1>. DEFINE R == {ss \in Nat \X Nat : ss[1] < ss[2]}
<1>1. IsWellFoundedOn(R, Nat)
  BY NatLessThanWellFounded DEF OpToRel
<1>2. PICK x \in S : \A y \in S : ~(<<y, x>> \in R)
  <2>. HIDE DEF R
  <2>. QED BY <1>1, WFMin
<1>3. \A y, z \in Nat : y < z => <<y, z>> \in R
  OBVIOUS
<1>4. \A y \in S : x <= y
  <2>. SUFFICES ASSUME NEW y \in S, y < x PROVE FALSE
    OBVIOUS
  <2>1. <<y, x>> \in R
    BY <1>3
  <2>. QED BY <1>2, <2>1
<1>. QED BY <1>4 DEF Min

\* Removing the element at position i.
LEMMA RemoveAtProps ==
    ASSUME NEW S, NEW s \in Seq(S), NEW i \in 1 .. Len(s)
    PROVE  /\ RemoveAt(s, i) \in Seq(S)
           /\ Len(RemoveAt(s, i)) = Len(s) - 1
           /\ \A j \in 1 .. Len(s) - 1 :
                RemoveAt(s, i)[j] = IF j < i THEN s[j] ELSE s[j + 1]
<1>. DEFINE a == SubSeq(s, 1, i - 1)
            b == SubSeq(s, i + 1, Len(s))
<1>1. a \in Seq(S) /\ Len(a) = i - 1 /\ \A j \in 1 .. i - 1 : a[j] = s[j]
  OBVIOUS
<1>2. b \in Seq(S) /\ Len(b) = Len(s) - i /\ \A j \in 1 .. Len(s) - i : b[j] = s[i + j]
  OBVIOUS
<1>. HIDE DEF a, b
<1>3. /\ a \o b \in Seq(S)
      /\ Len(a \o b) = Len(s) - 1
      /\ \A j \in 1 .. Len(s) - 1 :
           (a \o b)[j] = IF j < i THEN s[j] ELSE s[j + 1]
  <2>1. /\ a \o b \in Seq(S)
        /\ Len(a \o b) = Len(a) + Len(b)
        /\ \A j \in 1 .. Len(a) + Len(b) :
             (a \o b)[j] = IF j <= Len(a) THEN a[j] ELSE b[j - Len(a)]
    BY <1>1, <1>2, ConcatProperties, Zenon
  <2>2. \A j \in 1 .. Len(s) - 1 : j >= i => b[j - (i - 1)] = s[j + 1]
    <3>. TAKE j \in 1 .. Len(s) - 1
    <3>. HAVE j >= i
    <3>1. j - (i - 1) \in 1 .. Len(s) - i /\ i + (j - (i - 1)) = j + 1
      OBVIOUS
    <3>. QED BY <1>2, <3>1
  <2>. QED BY <1>1, <1>2, <2>1, <2>2
<1>. QED BY <1>3 DEF RemoveAt, a, b

\* Inserting e at position i.
LEMMA InsertAtProps ==
    ASSUME NEW S, NEW s \in Seq(S), NEW i \in 1 .. Len(s) + 1, NEW e \in S
    PROVE  /\ InsertAt(s, i, e) \in Seq(S)
           /\ Len(InsertAt(s, i, e)) = Len(s) + 1
           /\ \A j \in 1 .. i - 1 : InsertAt(s, i, e)[j] = s[j]
           /\ InsertAt(s, i, e)[i] = e
           /\ \A j \in i + 1 .. Len(s) + 1 : InsertAt(s, i, e)[j] = s[j - 1]
<1>. DEFINE a == SubSeq(s, 1, i - 1)
            b == SubSeq(s, i, Len(s))
            c == a \o <<e>>
<1>1. a \in Seq(S) /\ Len(a) = i - 1 /\ \A j \in 1 .. i - 1 : a[j] = s[j]
  OBVIOUS
<1>2. /\ b \in Seq(S) /\ Len(b) = Len(s) - i + 1
      /\ \A j \in 1 .. Len(s) - i + 1 : b[j] = s[i + j - 1]
  OBVIOUS
<1>. HIDE DEF a, b
<1>3. /\ c \in Seq(S) /\ Len(c) = i
      /\ \A j \in 1 .. i : c[j] = IF j < i THEN s[j] ELSE e
  BY <1>1
<1>. HIDE DEF c
<1>4. /\ c \o b \in Seq(S)
      /\ Len(c \o b) = Len(s) + 1
      /\ \A j \in 1 .. i - 1 : (c \o b)[j] = s[j]
      /\ (c \o b)[i] = e
      /\ \A j \in i + 1 .. Len(s) + 1 : (c \o b)[j] = s[j - 1]
  <2>1. /\ c \o b \in Seq(S)
        /\ Len(c \o b) = Len(c) + Len(b)
        /\ \A j \in 1 .. Len(c) + Len(b) :
             (c \o b)[j] = IF j <= Len(c) THEN c[j] ELSE b[j - Len(c)]
    BY <1>2, <1>3, ConcatProperties, Zenon
  <2>. QED BY <1>2, <1>3, <2>1
<1>. QED BY <1>4 DEF InsertAt, a, b, c

\* The elements of a list, and when it is empty.
LEMMA ToSetProps ==
    ASSUME NEW S, NEW s \in Seq(S)
    PROVE  /\ \A x : x \in ToSet(s) <=> \E i \in 1 .. Len(s) : s[i] = x
           /\ ToSet(s) \subseteq S
           /\ s = <<>> <=> ToSet(s) = {}
           /\ s # <<>> => Head(s) \in ToSet(s) /\ Head(s) = s[1] /\ Len(s) >= 1
<1>1. DOMAIN s = 1 .. Len(s) /\ \A i \in 1 .. Len(s) : s[i] \in S
  OBVIOUS
<1>2. \A x : x \in ToSet(s) <=> \E i \in 1 .. Len(s) : s[i] = x
  BY <1>1 DEF ToSet
<1>3. s = <<>> <=> Len(s) = 0
  OBVIOUS
<1>4. s # <<>> => Head(s) = s[1] /\ Len(s) >= 1
  BY <1>3
<1>. QED BY <1>1, <1>2, <1>3, <1>4

\* klist_rm takes exactly t off a list that holds each element once.
LEMMA KlistRm ==
    ASSUME NEW S, NEW s \in Seq(S), IsInjective(s), NEW t
    PROVE  /\ klist_rm(s, t) \in Seq(S)
           /\ ToSet(klist_rm(s, t)) = ToSet(s) \ {t}
           /\ IsInjective(klist_rm(s, t))
<1>0. DOMAIN s = 1 .. Len(s)
  OBVIOUS
<1>1. CASE ~ \E i \in 1 .. Len(s) : s[i] = t
  BY <1>1, ToSetProps DEF klist_rm
<1>2. CASE \E i \in 1 .. Len(s) : s[i] = t
  <2>. DEFINE i == CHOOSE j \in 1 .. Len(s) : s[j] = t
              r == RemoveAt(s, i)
  <2>1. i \in 1 .. Len(s) /\ s[i] = t
    BY <1>2
  <2>2. klist_rm(s, t) = r
    BY <1>2 DEF klist_rm
  <2>. HIDE DEF i
  <2>3. /\ r \in Seq(S) /\ Len(r) = Len(s) - 1
        /\ \A j \in 1 .. Len(s) - 1 : r[j] = IF j < i THEN s[j] ELSE s[j + 1]
    BY <2>1, RemoveAtProps
  <2>. HIDE DEF r
  <2>4. \A j, k \in 1 .. Len(s) : s[j] = s[k] => j = k
    BY <1>0 DEF IsInjective
  <2>5. ASSUME NEW x \in ToSet(r) PROVE x \in ToSet(s) \ {t}
    <3>1. PICK j \in 1 .. Len(s) - 1 : r[j] = x
      BY <2>3, ToSetProps
    <3>2. PICK k \in 1 .. Len(s) : s[k] = x /\ k # i
      BY <2>1, <2>3, <3>1, SMTT(30)
    <3>. QED BY <2>1, <2>4, <3>2, ToSetProps
  <2>6. ASSUME NEW x \in ToSet(s) \ {t} PROVE x \in ToSet(r)
    <3>1. PICK k \in 1 .. Len(s) : s[k] = x /\ k # i
      BY <2>1, ToSetProps
    <3>2. \E j \in 1 .. Len(s) - 1 : r[j] = x
      <4>1. CASE k < i
        <5>1. k \in 1 .. Len(s) - 1 /\ r[k] = s[k]
          BY <2>1, <2>3, <4>1
        <5>. QED BY <3>1, <5>1
      <4>2. CASE k > i
        <5>1. k - 1 \in 1 .. Len(s) - 1 /\ ~(k - 1 < i) /\ (k - 1) + 1 = k
          BY <2>1, <4>2
        <5>2. r[k - 1] = s[k]
          BY <2>3, <5>1
        <5>. QED BY <3>1, <5>1, <5>2
      <4>. QED BY <2>1, <3>1, <4>1, <4>2
    <3>. QED BY <2>3, <3>2, ToSetProps
  <2>7. IsInjective(r)
    <3>1. DOMAIN r = 1 .. Len(s) - 1
      BY <2>3
    <3>. SUFFICES ASSUME NEW j \in 1 .. Len(s) - 1, NEW k \in 1 .. Len(s) - 1,
                         r[j] = r[k]
                  PROVE  j = k
      BY <3>1 DEF IsInjective
    <3>. DEFINE J == IF j < i THEN j ELSE j + 1
                K == IF k < i THEN k ELSE k + 1
    <3>2. J \in 1 .. Len(s) /\ K \in 1 .. Len(s) /\ r[j] = s[J] /\ r[k] = s[K]
      BY <2>3
    <3>3. J = K
      BY <2>4, <3>2
    <3>. QED BY <3>3, <2>1
  <2>. QED BY <2>2, <2>3, <2>5, <2>6, <2>7
<1>. QED BY <1>1, <1>2

\* There is a first position of a list that is in G, or the one behind its end.
LEMMA FirstPosition ==
    ASSUME NEW n \in Nat, NEW G
    PROVE  \E i \in 1 .. n + 1 : (i <= n => i \in G) /\ \A j \in 1 .. i - 1 : j \notin G
<1>. DEFINE P == {i \in 1 .. n + 1 : i <= n => i \in G}
<1>1. P \in SUBSET Nat /\ n + 1 \in P
  OBVIOUS
<1>2. PICK m \in P : \A y \in P : m <= y
  <2>. HIDE DEF P
  <2>. QED BY <1>1, NatMin
<1>3. m \in 1 .. n + 1 /\ (m <= n => m \in G)
  OBVIOUS
<1>4. ASSUME NEW j \in 1 .. m - 1 PROVE j \notin G
  <2>1. j \in 1 .. n + 1 /\ ~(m <= j)
    BY <1>3
  <2>. QED BY <1>2, <2>1
<1>. QED BY <1>3, <1>4

\* InsertAt adds exactly e to a list, once if it was not on it.
LEMMA InsertAtSet ==
    ASSUME NEW S, NEW s \in Seq(S), NEW i \in 1 .. Len(s) + 1, NEW e \in S
    PROVE  /\ InsertAt(s, i, e) \in Seq(S)
           /\ ToSet(InsertAt(s, i, e)) = ToSet(s) \cup {e}
           /\ IsInjective(s) /\ e \notin ToSet(s) => IsInjective(InsertAt(s, i, e))
<1>. DEFINE r == InsertAt(s, i, e)
<1>0. DOMAIN s = 1 .. Len(s)
  OBVIOUS
<1>1. /\ r \in Seq(S) /\ Len(r) = Len(s) + 1
      /\ \A j \in 1 .. i - 1 : r[j] = s[j]
      /\ r[i] = e
      /\ \A j \in i + 1 .. Len(s) + 1 : r[j] = s[j - 1]
  BY InsertAtProps
<1>. HIDE DEF r
<1>2. ASSUME NEW x \in ToSet(r) PROVE x \in ToSet(s) \cup {e}
  <2>1. PICK j \in 1 .. Len(s) + 1 : r[j] = x
    BY <1>1, ToSetProps
  <2>2. x = e \/ \E k \in 1 .. Len(s) : s[k] = x
    <3>1. CASE j < i
      BY <1>1, <2>1, <3>1, SMTT(30)
    <3>2. CASE j > i
      <4>1. j - 1 \in 1 .. Len(s) /\ r[j] = s[j - 1]
        BY <1>1, <3>2
      <4>. QED BY <2>1, <4>1
    <3>3. CASE j = i
      BY <1>1, <2>1, <3>3
    <3>. QED BY <3>1, <3>2, <3>3
  <2>. QED BY <2>2, ToSetProps
<1>3. ASSUME NEW x \in ToSet(s) PROVE x \in ToSet(r)
  <2>1. PICK k \in 1 .. Len(s) : s[k] = x
    BY ToSetProps
  <2>2. CASE k < i
    <3>1. k \in 1 .. Len(s) + 1 /\ r[k] = x
      BY <1>1, <2>1, <2>2
    <3>. QED BY <1>1, <3>1, ToSetProps
  <2>3. CASE k >= i
    <3>1. k + 1 \in 1 .. Len(s) + 1 /\ ~(k + 1 < i) /\ k + 1 # i /\ (k + 1) - 1 = k
      BY <2>3
    <3>2. r[k + 1] = x
      BY <1>1, <2>1, <3>1
    <3>. QED BY <1>1, <3>1, <3>2, ToSetProps
  <2>. QED BY <2>2, <2>3
<1>4. e \in ToSet(r)
  <2>1. r[i] = e /\ i \in 1 .. Len(r)
    BY <1>1
  <2>. QED BY <1>1, <2>1, ToSetProps
<1>5. ASSUME IsInjective(s), e \notin ToSet(s) PROVE IsInjective(r)
  <2>1. DOMAIN r = 1 .. Len(s) + 1
    BY <1>1
  <2>2. \A j, k \in 1 .. Len(s) : s[j] = s[k] => j = k
    BY <1>0, <1>5 DEF IsInjective
  <2>3. \A j \in 1 .. Len(s) : s[j] # e
    BY <1>5, ToSetProps
  <2>. SUFFICES ASSUME NEW j \in 1 .. Len(s) + 1, NEW k \in 1 .. Len(s) + 1,
                       r[j] = r[k]
                PROVE  j = k
    BY <2>1 DEF IsInjective
  <2>. DEFINE J == IF j < i THEN j ELSE j - 1
              K == IF k < i THEN k ELSE k - 1
  <2>4. j # i => J \in 1 .. Len(s) /\ r[j] = s[J]
    <3>1. CASE j < i
      BY <1>1, <3>1
    <3>2. CASE j > i
      BY <1>1, <3>2
    <3>. QED BY <3>1, <3>2
  <2>5. k # i => K \in 1 .. Len(s) /\ r[k] = s[K]
    <3>1. CASE k < i
      BY <1>1, <3>1
    <3>2. CASE k > i
      BY <1>1, <3>2
    <3>. QED BY <3>1, <3>2
  <2>6. (j = i => r[j] = e) /\ (k = i => r[k] = e)
    BY <1>1
  <2>7. CASE j # i /\ k # i
    <3>1. J = K
      BY <2>2, <2>4, <2>5, <2>7
    <3>. QED BY <3>1, <2>7
  <2>8. CASE j = i \/ k = i
    <3>. HIDE DEF J, K
    <3>. QED BY <2>3, <2>4, <2>5, <2>6, <2>8
  <2>. QED BY <2>7, <2>8
<1>. QED BY <1>1, <1>2, <1>3, <1>4, <1>5 DEF r

\* Adding t in front of a list or behind it, and rotating a list.
LEMMA EndsProps ==
    ASSUME NEW S, NEW s \in Seq(S), NEW t \in S
    PROVE  /\ Append(s, t) \in Seq(S)
           /\ ToSet(Append(s, t)) = ToSet(s) \cup {t}
           /\ IsInjective(s) /\ t \notin ToSet(s) => IsInjective(Append(s, t))
           /\ <<t>> \o s \in Seq(S)
           /\ ToSet(<<t>> \o s) = ToSet(s) \cup {t}
           /\ IsInjective(s) /\ t \notin ToSet(s) => IsInjective(<<t>> \o s)
           /\ Append(s, t) # <<>> /\ <<t>> \o s # <<>>
<1>1. Append(s, t) = InsertAt(s, Len(s) + 1, t)
  <2>. DEFINE r == InsertAt(s, Len(s) + 1, t)
  <2>1. /\ r \in Seq(S) /\ Len(r) = Len(s) + 1
        /\ \A j \in 1 .. Len(s) : r[j] = s[j]
        /\ r[Len(s) + 1] = t
    <3>. DEFINE k == Len(s) + 1
    <3>1. k \in 1 .. Len(s) + 1
      OBVIOUS
    <3>3. k - 1 = Len(s)
      OBVIOUS
    <3>. HIDE DEF k, r
    <3>2. /\ InsertAt(s, k, t) \in Seq(S) /\ Len(InsertAt(s, k, t)) = Len(s) + 1
          /\ \A j \in 1 .. k - 1 : InsertAt(s, k, t)[j] = s[j]
          /\ InsertAt(s, k, t)[k] = t
          /\ \A j \in k + 1 .. Len(s) + 1 : InsertAt(s, k, t)[j] = s[j - 1]
      BY <3>1, InsertAtProps
    <3>. QED BY <3>2, <3>3 DEF k, r
  <2>2. /\ Append(s, t) \in Seq(S) /\ Len(Append(s, t)) = Len(s) + 1
        /\ \A j \in 1 .. Len(s) : Append(s, t)[j] = s[j]
        /\ Append(s, t)[Len(s) + 1] = t
    OBVIOUS
  <2>. HIDE DEF r
  <2>3. \A j \in 1 .. Len(s) + 1 : Append(s, t)[j] = r[j]
    <3>. TAKE j \in 1 .. Len(s) + 1
    <3>1. j = Len(s) + 1 \/ j \in 1 .. Len(s)
      OBVIOUS
    <3>. QED BY <2>1, <2>2, <3>1
  <2>4. Append(s, t) = r
    BY <2>1, <2>2, <2>3, SeqEqual
  <2>. QED BY <2>4 DEF r
<1>2. <<t>> \o s = InsertAt(s, 1, t)
  <2>. DEFINE r == InsertAt(s, 1, t)
              q == <<t>> \o s
  <2>1. /\ r \in Seq(S) /\ Len(r) = Len(s) + 1 /\ r[1] = t
        /\ \A j \in 2 .. Len(s) + 1 : r[j] = s[j - 1]
    BY InsertAtProps
  <2>2. /\ q \in Seq(S) /\ Len(q) = Len(s) + 1 /\ q[1] = t
        /\ \A j \in 2 .. Len(s) + 1 : q[j] = s[j - 1]
    OBVIOUS
  <2>. HIDE DEF r, q
  <2>3. \A j \in 1 .. Len(s) + 1 : q[j] = r[j]
    <3>. TAKE j \in 1 .. Len(s) + 1
    <3>1. j = 1 \/ j \in 2 .. Len(s) + 1
      OBVIOUS
    <3>. QED BY <2>1, <2>2, <3>1
  <2>4. q = r
    BY <2>1, <2>2, <2>3, SeqEqual
  <2>. QED BY <2>4 DEF q, r
<1>3. 1 \in 1 .. Len(s) + 1 /\ Len(s) + 1 \in 1 .. Len(s) + 1
  OBVIOUS
<1>4. /\ Append(s, t) \in Seq(S)
      /\ ToSet(Append(s, t)) = ToSet(s) \cup {t}
      /\ IsInjective(s) /\ t \notin ToSet(s) => IsInjective(Append(s, t))
  <2>. DEFINE k == Len(s) + 1
  <2>1. k \in 1 .. Len(s) + 1
    BY <1>3
  <2>. HIDE DEF k
  <2>2. /\ InsertAt(s, k, t) \in Seq(S)
        /\ ToSet(InsertAt(s, k, t)) = ToSet(s) \cup {t}
        /\ IsInjective(s) /\ t \notin ToSet(s) => IsInjective(InsertAt(s, k, t))
    BY <2>1, InsertAtSet
  <2>3. Append(s, t) = InsertAt(s, k, t)
    BY <1>1 DEF k
  <2>. QED BY <2>2, <2>3, Zenon
<1>5. /\ <<t>> \o s \in Seq(S)
      /\ ToSet(<<t>> \o s) = ToSet(s) \cup {t}
      /\ IsInjective(s) /\ t \notin ToSet(s) => IsInjective(<<t>> \o s)
  <2>1. /\ InsertAt(s, 1, t) \in Seq(S)
        /\ ToSet(InsertAt(s, 1, t)) = ToSet(s) \cup {t}
        /\ IsInjective(s) /\ t \notin ToSet(s) => IsInjective(InsertAt(s, 1, t))
    BY <1>3, InsertAtSet, Zenon
  <2>. QED BY <1>2, <2>1, Zenon
<1>6. Append(s, t) # <<>>
  BY <1>4, ToSetProps, ZenonT(40)
<1>7. <<t>> \o s # <<>>
  BY <1>5, ToSetProps, Zenon
<1>. QED BY <1>4, <1>5, <1>6, <1>7

\* Moving the first element of a list to its end keeps its elements.
LEMMA RotateProps ==
    ASSUME NEW S, NEW s \in Seq(S), s # <<>>
    PROVE  /\ Append(Tail(s), Head(s)) \in Seq(S)
           /\ ToSet(Append(Tail(s), Head(s))) = ToSet(s)
           /\ IsInjective(s) => IsInjective(Append(Tail(s), Head(s)))
           /\ Append(Tail(s), Head(s)) # <<>>
<1>1. /\ Head(s) = s[1] /\ s[1] \in S /\ Tail(s) \in Seq(S) /\ Len(s) >= 1
      /\ Len(Tail(s)) = Len(s) - 1
      /\ \A i \in 1 .. Len(s) - 1 : Tail(s)[i] = s[i + 1]
  BY HeadTailProperties
<1>2. ToSet(s) = ToSet(Tail(s)) \cup {Head(s)}
  <2>1. ASSUME NEW x \in ToSet(s) PROVE x \in ToSet(Tail(s)) \cup {Head(s)}
    <3>1. PICK i \in 1 .. Len(s) : s[i] = x
      BY ToSetProps
    <3>2. CASE i = 1
      BY <1>1, <3>1, <3>2
    <3>3. CASE i > 1
      <4>1. i - 1 \in 1 .. Len(s) - 1 /\ Tail(s)[i - 1] = s[i]
        BY <1>1, <3>3
      <4>. QED BY <1>1, <3>1, <4>1, ToSetProps, ZenonT(40)
    <3>. QED BY <3>2, <3>3
  <2>2. ASSUME NEW x \in ToSet(Tail(s)) PROVE x \in ToSet(s)
    <3>1. PICK i \in 1 .. Len(Tail(s)) : Tail(s)[i] = x
      BY <1>1, ToSetProps, Zenon
    <3>2. i + 1 \in 1 .. Len(s) /\ s[i + 1] = x
      BY <1>1, <3>1
    <3>. QED BY <3>2, ToSetProps
  <2>3. Head(s) \in ToSet(s)
    BY ToSetProps
  <2>. QED BY <2>1, <2>2, <2>3
<1>3. ASSUME IsInjective(s) PROVE IsInjective(Tail(s)) /\ Head(s) \notin ToSet(Tail(s))
  <2>1. \A i, j \in 1 .. Len(s) : s[i] = s[j] => i = j
    BY <1>3 DEF IsInjective
  <2>2. DOMAIN Tail(s) = 1 .. Len(s) - 1
    BY <1>1
  <2>3. \A i, j \in 1 .. Len(s) - 1 : Tail(s)[i] = Tail(s)[j] => i = j
    BY <1>1, <2>1
  <2>4. \A i \in 1 .. Len(s) - 1 : Tail(s)[i] # s[1]
    BY <1>1, <2>1
  <2>5. IsInjective(Tail(s))
    BY <2>2, <2>3 DEF IsInjective
  <2>6. Head(s) \notin ToSet(Tail(s))
    <3>1. \A x : x \in ToSet(Tail(s)) <=> \E i \in 1 .. Len(Tail(s)) : Tail(s)[i] = x
      BY <1>1, ToSetProps, Zenon
    <3>. QED BY <1>1, <2>4, <3>1
  <2>. QED BY <2>5, <2>6
<1>. DEFINE r == Append(Tail(s), Head(s))
<1>4. /\ r \in Seq(S) /\ ToSet(r) = ToSet(Tail(s)) \cup {Head(s)} /\ r # <<>>
      /\ IsInjective(Tail(s)) /\ Head(s) \notin ToSet(Tail(s)) => IsInjective(r)
  <2>. DEFINE u == Tail(s)
              h == Head(s)
  <2>1. u \in Seq(S) /\ h \in S
    BY <1>1
  <2>. HIDE DEF u, h
  <2>2. /\ Append(u, h) \in Seq(S)
        /\ ToSet(Append(u, h)) = ToSet(u) \cup {h}
        /\ IsInjective(u) /\ h \notin ToSet(u) => IsInjective(Append(u, h))
        /\ <<h>> \o u \in Seq(S)
        /\ ToSet(<<h>> \o u) = ToSet(u) \cup {h}
        /\ IsInjective(u) /\ h \notin ToSet(u) => IsInjective(<<h>> \o u)
        /\ Append(u, h) # <<>> /\ <<h>> \o u # <<>>
    BY <2>1, EndsProps
  <2>. QED BY <2>2 DEF u, h
<1>. HIDE DEF r
<1>5. r \in Seq(S) /\ ToSet(r) = ToSet(s) /\ (IsInjective(s) => IsInjective(r)) /\ r # <<>>
  BY <1>2, <1>3, <1>4
<1>. QED BY <1>5 DEF r

\* A list without its first element.
LEMMA TailProps ==
    ASSUME NEW S, NEW s \in Seq(S), s # <<>>, IsInjective(s)
    PROVE  /\ Tail(s) \in Seq(S)
           /\ ToSet(Tail(s)) = ToSet(s) \ {Head(s)}
           /\ IsInjective(Tail(s))
<1>1. /\ Tail(s) \in Seq(S) /\ Len(Tail(s)) = Len(s) - 1 /\ Len(s) >= 1 /\ Len(s) \in Nat
      /\ \A i \in 1 .. Len(s) - 1 : Tail(s)[i] = s[i + 1]
  OBVIOUS
<1>2. \A i, j \in 1 .. Len(s) : s[i] = s[j] => i = j
  BY DEF IsInjective
<1>3. IsInjective(Tail(s))
  <2>1. DOMAIN Tail(s) = 1 .. Len(s) - 1
    BY <1>1
  <2>2. \A i, j \in 1 .. Len(s) - 1 : Tail(s)[i] = Tail(s)[j] => i = j
    <3>. TAKE i, j \in 1 .. Len(s) - 1
    <3>1. Tail(s)[i] = s[i + 1] /\ Tail(s)[j] = s[j + 1]
          /\ i + 1 \in 1 .. Len(s) /\ j + 1 \in 1 .. Len(s)
      BY <1>1
    <3>. QED BY <1>2, <3>1
  <2>. QED BY <2>1, <2>2 DEF IsInjective
<1>4. Head(s) = s[1]
  OBVIOUS
<1>5. \A x : x \in ToSet(Tail(s)) <=> x \in ToSet(s) /\ x # s[1]
  <2>1. /\ \A x : x \in ToSet(s) <=> \E i \in 1 .. Len(s) : s[i] = x
        /\ \A x : x \in ToSet(Tail(s)) <=> \E i \in 1 .. Len(s) - 1 : Tail(s)[i] = x
    BY <1>1, ToSetProps
  <2>. TAKE x
  <2>2. ASSUME x \in ToSet(Tail(s)) PROVE x \in ToSet(s) /\ x # s[1]
    <3>1. PICK i \in 1 .. Len(s) - 1 : Tail(s)[i] = x
      BY <2>1, <2>2
    <3>2. s[i + 1] = x /\ i + 1 \in 1 .. Len(s) /\ i + 1 # 1 /\ 1 \in 1 .. Len(s)
      BY <1>1, <3>1
    <3>. QED BY <1>2, <2>1, <3>2
  <2>3. ASSUME x \in ToSet(s), x # s[1] PROVE x \in ToSet(Tail(s))
    <3>1. PICK i \in 1 .. Len(s) : s[i] = x
      BY <2>1, <2>3
    <3>2. i # 1 /\ i - 1 \in 1 .. Len(s) - 1 /\ Tail(s)[i - 1] = s[(i - 1) + 1]
      BY <1>1, <2>3, <3>1
    <3>3. (i - 1) + 1 = i
      BY <3>1
    <3>. QED BY <2>1, <3>1, <3>2, <3>3
  <2>. QED BY <2>2, <2>3
<1>. QED BY <1>1, <1>3, <1>4, <1>5

\* The position InsertPos chooses exists.
LEMMA InsertPosProps ==
    ASSUME NEW S, NEW s \in Seq(S), NEW behind
    PROVE  /\ InsertPos(s, behind) \in 1 .. Len(s) + 1
           /\ InsertPos(s, behind) <= Len(s) => s[InsertPos(s, behind)] \in behind
           /\ \A j \in 1 .. InsertPos(s, behind) - 1 : s[j] \notin behind
<1>. DEFINE G == {i \in 1 .. Len(s) : s[i] \in behind}
<1>1. PICK i \in 1 .. Len(s) + 1 : (i <= Len(s) => i \in G) /\ \A j \in 1 .. i - 1 : j \notin G
  <2>. HIDE DEF G
  <2>1. Len(s) \in Nat
    OBVIOUS
  <2>. QED BY <2>1, FirstPosition
<1>2. \A j \in 1 .. i - 1 : j \in 1 .. Len(s)
  OBVIOUS
<1>3. /\ i <= Len(s) => s[i] \in behind
      /\ \A j \in 1 .. i - 1 : s[j] \notin behind
  BY <1>1, <1>2
<1>. QED BY <1>3 DEF InsertPos

\* A waiter t added to a list that does not hold it.
LEMMA PendListAdd ==
    ASSUME NEW S, NEW s \in Seq(S), NEW t \in S, NEW pr
    PROVE  /\ pend_list_add(s, t, pr) \in Seq(S)
           /\ ToSet(pend_list_add(s, t, pr)) = ToSet(s) \cup {t}
           /\ IsInjective(s) /\ t \notin ToSet(s) => IsInjective(pend_list_add(s, t, pr))
<1>. DEFINE lower == {u \in ToSet(s) : pr[u] > pr[t]}
            i == InsertPos(s, lower)
<1>1. i \in 1 .. Len(s) + 1
  <2>. HIDE DEF lower
  <2>. QED BY InsertPosProps
<1>2. pend_list_add(s, t, pr) = InsertAt(s, i, t)
  BY DEF pend_list_add
<1>. HIDE DEF i
<1>3. /\ InsertAt(s, i, t) \in Seq(S)
      /\ ToSet(InsertAt(s, i, t)) = ToSet(s) \cup {t}
      /\ IsInjective(s) /\ t \notin ToSet(s) => IsInjective(InsertAt(s, i, t))
  BY <1>1, InsertAtSet
<1>. QED BY <1>2, <1>3

-----------------------------------------------------------------------------
(***************************************************************************)
(* Lists in order.                                                         *)
(***************************************************************************)
\* The tasks of a list stand in the order of their priorities.
Sorted(s, pr) == \A i, j \in 1 .. Len(s) : i < j => pr[s[i]] <= pr[s[j]]

\* klist_rm keeps the order.
LEMMA SortedRm ==
    ASSUME NEW S, NEW s \in Seq(S), NEW t, NEW pr, Sorted(s, pr)
    PROVE  Sorted(klist_rm(s, t), pr)
<1>1. CASE ~ \E i \in 1 .. Len(s) : s[i] = t
  BY <1>1 DEF klist_rm
<1>2. CASE \E i \in 1 .. Len(s) : s[i] = t
  <2>. DEFINE i == CHOOSE j \in 1 .. Len(s) : s[j] = t
              r == RemoveAt(s, i)
  <2>1. i \in 1 .. Len(s)
    BY <1>2
  <2>2. klist_rm(s, t) = r
    BY <1>2 DEF klist_rm
  <2>. HIDE DEF i
  <2>3. /\ r \in Seq(S) /\ Len(r) = Len(s) - 1
        /\ \A j \in 1 .. Len(s) - 1 : r[j] = IF j < i THEN s[j] ELSE s[j + 1]
    BY <2>1, RemoveAtProps
  <2>. HIDE DEF r
  <2>. SUFFICES ASSUME NEW j \in 1 .. Len(r), NEW k \in 1 .. Len(r), j < k
                PROVE  pr[r[j]] <= pr[r[k]]
    BY <2>2 DEF Sorted
  <2>. DEFINE J == IF j < i THEN j ELSE j + 1
              K == IF k < i THEN k ELSE k + 1
  <2>4. J \in 1 .. Len(s) /\ K \in 1 .. Len(s) /\ J < K /\ r[j] = s[J] /\ r[k] = s[K]
    BY <2>1, <2>3
  <2>. QED BY <2>4 DEF Sorted
<1>. QED BY <1>1, <1>2

\* pend_list_add puts a waiter at its place.
LEMMA SortedAdd ==
    ASSUME NEW S, NEW s \in Seq(S), NEW t \in S,
           NEW pr \in [S -> Int], Sorted(s, pr)
    PROVE  Sorted(pend_list_add(s, t, pr), pr)
<1>. DEFINE lower == {u \in ToSet(s) : pr[u] > pr[t]}
            i == InsertPos(s, lower)
            r == InsertAt(s, i, t)
<1>1. /\ i \in 1 .. Len(s) + 1
      /\ i <= Len(s) => s[i] \in lower
      /\ \A j \in 1 .. i - 1 : s[j] \notin lower
  <2>. HIDE DEF lower
  <2>. QED BY InsertPosProps
<1>2. pend_list_add(s, t, pr) = r
  BY DEF pend_list_add
<1>3. \A j \in 1 .. Len(s) : s[j] \in ToSet(s) /\ s[j] \in S
  BY ToSetProps
<1>. HIDE DEF i
<1>4. \A j \in 1 .. i - 1 : pr[s[j]] <= pr[t]
  <2>. TAKE j \in 1 .. i - 1
  <2>1. j \in 1 .. Len(s) /\ s[j] \notin lower
    BY <1>1
  <2>2. ~(pr[s[j]] > pr[t]) /\ pr[s[j]] \in Int /\ pr[t] \in Int
    BY <1>3, <2>1
  <2>. QED BY <2>2
<1>5. \A j \in 1 .. Len(s) : j >= i => pr[t] <= pr[s[j]]
  <2>. SUFFICES ASSUME NEW j \in 1 .. Len(s), j >= i PROVE pr[t] <= pr[s[j]]
    OBVIOUS
  <2>1. i \in 1 .. Len(s) /\ pr[s[i]] > pr[t]
    BY <1>1
  <2>2. pr[s[i]] \in Int /\ pr[s[j]] \in Int /\ pr[t] \in Int
    BY <1>3, <2>1
  <2>3. i < j => pr[s[i]] <= pr[s[j]]
    BY <2>1 DEF Sorted
  <2>4. i = j => pr[s[i]] = pr[s[j]]
    OBVIOUS
  <2>5. i < j \/ i = j
    BY <2>1
  <2>. QED BY <2>1, <2>2, <2>3, <2>4, <2>5
<1>6. /\ r \in Seq(S) /\ Len(r) = Len(s) + 1
      /\ \A j \in 1 .. i - 1 : r[j] = s[j]
      /\ r[i] = t
      /\ \A j \in i + 1 .. Len(s) + 1 : r[j] = s[j - 1]
  BY <1>1, InsertAtProps
<1>. HIDE DEF r, lower
<1>. SUFFICES ASSUME NEW j \in 1 .. Len(r), NEW k \in 1 .. Len(r), j < k
              PROVE  pr[r[j]] <= pr[r[k]]
  BY <1>2 DEF Sorted
<1>7. CASE k < i
  <2>1. j \in 1 .. i - 1 /\ k \in 1 .. i - 1 /\ j \in 1 .. Len(s) /\ k \in 1 .. Len(s)
    BY <1>1, <1>6, <1>7, SMTT(30)
  <2>. QED BY <1>6, <2>1 DEF Sorted
<1>8. CASE k = i
  <2>1. j \in 1 .. i - 1
    BY <1>1, <1>8
  <2>. QED BY <1>4, <1>6, <1>8, <2>1
<1>9. CASE j = i
  <2>0. i \in Nat /\ i >= 1 /\ i < k /\ k \in Nat /\ k <= Len(s) + 1 /\ Len(s) \in Nat
    BY <1>1, <1>6, <1>9
  <2>1. k \in i + 1 .. Len(s) + 1 /\ k - 1 \in 1 .. Len(s) /\ k - 1 >= i
    BY <2>0
  <2>. QED BY <1>5, <1>6, <1>9, <2>1
<1>10. CASE j < i /\ i < k
  <2>1. /\ j \in 1 .. i - 1 /\ j \in 1 .. Len(s)
        /\ k \in i + 1 .. Len(s) + 1 /\ k - 1 \in 1 .. Len(s) /\ j < k - 1
    BY <1>1, <1>6, <1>10
  <2>2. pr[s[j]] <= pr[s[k - 1]]
    BY <2>1 DEF Sorted
  <2>. QED BY <1>6, <2>1, <2>2
<1>11. CASE i < j
  <2>1. /\ j \in i + 1 .. Len(s) + 1 /\ j - 1 \in 1 .. Len(s)
        /\ k \in i + 1 .. Len(s) + 1 /\ k - 1 \in 1 .. Len(s) /\ j - 1 < k - 1
    BY <1>1, <1>6, <1>11
  <2>2. pr[s[j - 1]] <= pr[s[k - 1]]
    BY <2>1 DEF Sorted
  <2>. QED BY <1>6, <2>1, <2>2
<1>. QED BY <1>1, <1>6, <1>7, <1>8, <1>9, <1>10, <1>11

\* A list depends on the priorities of its own tasks only.
LEMMA SortedFrame ==
    ASSUME NEW S, NEW s \in Seq(S), NEW pr, NEW pr2, Sorted(s, pr),
           \A u \in ToSet(s) : pr2[u] = pr[u]
    PROVE  Sorted(s, pr2)
<1>1. \A j \in 1 .. Len(s) : pr2[s[j]] = pr[s[j]]
  BY ToSetProps
<1>. QED BY <1>1 DEF Sorted

\* No task of a list in order outranks the first one.
LEMMA HeadSorted ==
    ASSUME NEW S, NEW s \in Seq(S), s # <<>>, NEW pr \in [S -> Int], Sorted(s, pr)
    PROVE  /\ Head(s) \in ToSet(s)
           /\ \A t \in ToSet(s) : pr[Head(s)] <= pr[t]
<1>1. Head(s) \in ToSet(s) /\ Head(s) = s[1] /\ Len(s) >= 1
  BY ToSetProps
<1>2. ASSUME NEW t \in ToSet(s) PROVE pr[Head(s)] <= pr[t]
  <2>1. PICK i \in 1 .. Len(s) : s[i] = t
    BY ToSetProps
  <2>2. 1 \in 1 .. Len(s) /\ s[1] \in S /\ s[i] \in S
    BY <1>1
  <2>3. CASE i = 1
    <3>1. pr[s[1]] \in Int /\ t = s[1] /\ Head(s) = s[1]
      BY <1>1, <2>1, <2>2, <2>3
    <3>. QED BY <3>1
  <2>4. CASE 1 < i
    BY <1>1, <2>1, <2>2, <2>4 DEF Sorted
  <2>. QED BY <2>1, <2>3, <2>4
<1>. QED BY <1>1, <1>2

\* A list without its first n elements.
LEMMA DropProps ==
    ASSUME NEW S, NEW s \in Seq(S), NEW n \in 0 .. Len(s), NEW pr,
           IsInjective(s), Sorted(s, pr)
    PROVE  /\ SubSeq(s, n + 1, Len(s)) \in Seq(S)
           /\ {s[i] : i \in 1 .. n} \subseteq ToSet(s)
           /\ ToSet(SubSeq(s, n + 1, Len(s))) = ToSet(s) \ {s[i] : i \in 1 .. n}
           /\ IsInjective(SubSeq(s, n + 1, Len(s)))
           /\ Sorted(SubSeq(s, n + 1, Len(s)), pr)
<1>1. PICK k \in Nat : k = Len(s)
  OBVIOUS
<1>2. PICK d : d = SubSeq(s, n + 1, Len(s))
  OBVIOUS
<1>3. n \in 0 .. k
  BY <1>1
<1>4. d \in Seq(S) /\ Len(d) = k - n /\ \A i \in 1 .. k - n : d[i] = s[i + n]
  BY ONLY <1>1, <1>2, <1>3, s \in Seq(S), k \in Nat
<1>5. \A i \in 1 .. k - n : i + n \in 1 .. k
  BY ONLY <1>3, k \in Nat
<1>6. \A i \in 1 .. n : i \in 1 .. k
  BY ONLY <1>3, k \in Nat
<1>7. \A x : x \in ToSet(s) <=> \E i \in 1 .. k : s[i] = x
  BY <1>1, ToSetProps
<1>8. \A x : x \in ToSet(d) <=> \E i \in 1 .. k - n : d[i] = x
  <2>1. \A x : x \in ToSet(d) <=> \E i \in 1 .. Len(d) : d[i] = x
    BY ONLY <1>4, ToSetProps, Zenon
  <2>. QED BY ONLY <1>4, <2>1, Zenon
<1>9. \A i, j \in 1 .. k : s[i] = s[j] => i = j
  BY <1>1 DEF IsInjective
<1>10. \A i, j \in 1 .. k : i < j => pr[s[i]] <= pr[s[j]]
  BY ONLY <1>1, Sorted(s, pr), Zenon DEF Sorted
<1>11. {s[i] : i \in 1 .. n} \subseteq ToSet(s)
  BY ONLY <1>6, <1>7, Zenon
<1>12. ToSet(d) = ToSet(s) \ {s[i] : i \in 1 .. n}
  <2>1. ASSUME NEW x \in ToSet(d) PROVE x \in ToSet(s) /\ x \notin {s[i] : i \in 1 .. n}
    <3>1. PICK i \in 1 .. k - n : d[i] = x
      BY ONLY <1>8, <2>1, Zenon
    <3>2. x = s[i + n] /\ i + n \in 1 .. k
      BY ONLY <1>4, <1>5, <3>1, i \in 1 .. k - n, Zenon
    <3>3. ASSUME NEW j \in 1 .. n, s[j] = x PROVE FALSE
      <4>1. j = i + n
        BY ONLY <1>6, <1>9, <3>2, <3>3, j \in 1 .. n, Zenon
      <4>. QED BY ONLY <1>3, <4>1, k \in Nat, i \in 1 .. k - n, j \in 1 .. n
    <3>. QED BY ONLY <1>7, <3>2, <3>3, Zenon
  <2>2. ASSUME NEW x \in ToSet(s), x \notin {s[i] : i \in 1 .. n} PROVE x \in ToSet(d)
    <3>1. PICK i \in 1 .. k : s[i] = x
      BY ONLY <1>7, <2>2, Zenon
    <3>2. i \notin 1 .. n
      BY ONLY <2>2, <3>1, Zenon
    <3>3. i - n \in 1 .. k - n /\ (i - n) + n = i
      BY ONLY <1>3, <3>2, k \in Nat, i \in 1 .. k
    <3>4. d[i - n] = x
      BY ONLY <1>4, <3>1, <3>3, Zenon
    <3>. QED BY ONLY <1>8, <3>3, <3>4, Zenon
  <2>. QED BY <2>1, <2>2
<1>13. IsInjective(d)
  <2>1. ASSUME NEW i \in 1 .. k - n, NEW j \in 1 .. k - n, d[i] = d[j] PROVE i = j
    <3>1. i + n = j + n
      BY ONLY <1>4, <1>5, <1>9, <2>1, i \in 1 .. k - n, j \in 1 .. k - n, Zenon
    <3>. QED BY ONLY <1>3, <3>1, k \in Nat, i \in 1 .. k - n, j \in 1 .. k - n
  <2>2. DOMAIN d = 1 .. k - n
    BY ONLY <1>4
  <2>. QED BY ONLY <2>1, <2>2, Zenon DEF IsInjective
<1>14. Sorted(d, pr)
  <2>1. ASSUME NEW i \in 1 .. k - n, NEW j \in 1 .. k - n, i < j
        PROVE  pr[d[i]] <= pr[d[j]]
    <3>1. i + n < j + n
      BY ONLY <1>3, <2>1, k \in Nat, i \in 1 .. k - n, j \in 1 .. k - n
    <3>. QED BY ONLY <1>4, <1>5, <1>10, <3>1, i \in 1 .. k - n, j \in 1 .. k - n, Zenon
  <2>. QED BY ONLY <1>4, <2>1, Zenon DEF Sorted
<1>. QED BY ONLY <1>2, <1>4, <1>11, <1>12, <1>13, <1>14, Zenon

=============================================================================
