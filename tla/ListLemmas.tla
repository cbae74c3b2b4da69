----------------------------- MODULE ListLemmas -----------------------------
(***************************************************************************)
(* What the operators of Lists return, for every list and every set, by    *)
(* induction over its length.  Induction is stated with a set of numbers,  *)
(* not with a predicate, for a lemma with a predicate as its parameter     *)
(* cannot be used by the provers.                                          *)
(***************************************************************************)
EXTENDS Lists, WellFoundedInduction, TLAPS

(* A set of natural numbers has a least one.                               *)
LEMMA LeastNatural ==
  ASSUME NEW T \in SUBSET Nat, T # {}
  PROVE  \E n \in T : \A m \in T : n <= m
<1> DEFINE R == OpToRel(<, Nat)
<1>1. IsWellFoundedOn(R, Nat)
  BY NatLessThanWellFounded
<1>2. \A n, m \in Nat : m < n => <<m, n>> \in R
  BY DEF OpToRel
<1> HIDE DEF R
<1>3. PICK x \in T : \A y \in T : ~ (<<y, x>> \in R)
  BY <1>1, WFMin
<1>4. ASSUME NEW m \in T PROVE x <= m
  <2>1. m \in Nat /\ x \in Nat
    OBVIOUS
  <2>2. ~ (m < x)
    BY <1>2, <1>3, <2>1
  <2> QED
    BY <2>1, <2>2
<1> QED
  BY <1>4

(* A bounded set of natural numbers has a greatest one.                    *)
LEMMA GreatestNatural ==
  ASSUME NEW T \in SUBSET Nat, T # {}, NEW k \in Nat, \A n \in T : n <= k
  PROVE  \E n \in T : \A m \in T : n >= m
<1> DEFINE R == {k - n : n \in T}
<1>1. R \in SUBSET Nat /\ R # {}
  <2>1. \A n \in T : n \in Nat /\ n <= k /\ k - n \in Nat
    OBVIOUS
  <2>2. R \subseteq Nat
    BY <2>1
  <2> QED
    BY <2>2
<1>2. PICK r \in R : \A q \in R : r <= q
  BY <1>1, LeastNatural
<1>3. PICK n \in T : r = k - n
  OBVIOUS
<1>4. ASSUME NEW m \in T PROVE n >= m
  <2>1. k - n <= k - m
    BY <1>2, <1>3
  <2> QED
    BY <2>1
<1> QED
  BY <1>4

(* Induction: a set with 0, and with n + 1 if it has n, has all of Nat.    *)
LEMMA SetInduction ==
  ASSUME NEW S, 0 \in S, \A n \in Nat : n \in S => n + 1 \in S
  PROVE  Nat \subseteq S
<1> SUFFICES ASSUME NEW k \in Nat, k \notin S PROVE FALSE
  OBVIOUS
<1> DEFINE T == {n \in Nat : n \notin S}
<1>1. T \in SUBSET Nat /\ T # {}
  OBVIOUS
<1>2. PICK n \in T : \A m \in T : n <= m
  BY <1>1, LeastNatural
<1>3. n \in Nat /\ n # 0 /\ n - 1 \in Nat /\ n - 1 \notin T
  BY <1>2
<1> QED
  BY <1>2, <1>3

-----------------------------------------------------------------------------
(* The recursive function of Only: it exists, and is what its equation says.*)

Keeps(f, s, S, i) == f[i] = IF s[i] \in S THEN Append(f[i - 1], s[i]) ELSE f[i - 1]

IsKept(f, s, S, n) ==
  f = [i \in 0 .. n |->
         IF i = 0 THEN << >>
         ELSE IF s[i] \in S THEN Append(f[i - 1], s[i]) ELSE f[i - 1]]

LEMMA KeptUnfolds ==
  ASSUME NEW s, NEW S, NEW n \in Nat, NEW f, IsKept(f, s, S, n)
  PROVE  f[0] = << >> /\ \A i \in 1 .. n : Keeps(f, s, S, i)
<1> DEFINE body(i) == IF i = 0 THEN << >>
                      ELSE IF s[i] \in S THEN Append(f[i - 1], s[i]) ELSE f[i - 1]
           g == [i \in 0 .. n |-> body(i)]
<1>1. f = g
  BY DEF IsKept
<1>2. \A i \in 0 .. n : g[i] = body(i)
  OBVIOUS
<1> HIDE DEF g, body
<1>3. \A i \in 0 .. n : f[i] = body(i)
  BY <1>1, <1>2
<1>4. f[0] = << >>
  BY <1>3 DEF body
<1>5. ASSUME NEW i \in 1 .. n PROVE Keeps(f, s, S, i)
  <2>1. i \in 0 .. n /\ i # 0
    OBVIOUS
  <2>2. f[i] = body(i)
    BY <1>3, <2>1
  <2> QED
    BY <2>1, <2>2 DEF body, Keeps
<1> QED
  BY <1>4, <1>5

LEMMA KeptExists ==
  ASSUME NEW s, NEW S, NEW n \in Nat PROVE \E f : IsKept(f, s, S, n)
<1> DEFINE N == {k \in Nat : \E f : IsKept(f, s, S, k)}
<1>1. 0 \in N
  <2> DEFINE f == [i \in 0 .. 0 |-> << >>]
  <2>1. IsKept(f, s, S, 0)
    BY DEF IsKept
  <2> QED
    BY <2>1
<1>2. ASSUME NEW k \in Nat, k \in N PROVE k + 1 \in N
  <2>1. PICK f : IsKept(f, s, S, k)
    BY <1>2
  <2>2. f[0] = << >> /\ \A i \in 1 .. k : Keeps(f, s, S, i)
    BY <2>1, KeptUnfolds
  <2> DEFINE last == IF s[k + 1] \in S THEN Append(f[k], s[k + 1]) ELSE f[k]
             g == [i \in 0 .. k + 1 |-> IF i = k + 1 THEN last ELSE f[i]]
             h == [i \in 0 .. k + 1 |->
                    IF i = 0 THEN << >>
                    ELSE IF s[i] \in S THEN Append(g[i - 1], s[i]) ELSE g[i - 1]]
  <2>3. ASSUME NEW i \in 0 .. k + 1 PROVE g[i] = h[i]
    <3>1. CASE i = k + 1
      <4>1. g[i - 1] = f[k] /\ i # 0
        BY <3>1
      <4> QED
        BY <3>1, <4>1
    <3>2. CASE i = 0
      BY <2>2, <3>2
    <3>3. CASE i # 0 /\ i # k + 1
      <4>1. i \in 1 .. k /\ i - 1 \in 0 .. k /\ g[i - 1] = f[i - 1] /\ g[i] = f[i]
        BY <3>3
      <4>2. Keeps(f, s, S, i)
        BY <2>2, <4>1
      <4> HIDE DEF g
      <4> QED
        BY <3>3, <4>1, <4>2 DEF Keeps
    <3> QED
      BY <3>1, <3>2, <3>3
  <2>4. g = h
    BY <2>3
  <2>5. IsKept(g, s, S, k + 1)
    BY <2>4 DEF IsKept
  <2> QED
    BY <2>5
<1> HIDE DEF N
<1>3. Nat \subseteq N
  BY <1>1, <1>2, SetInduction
<1> QED
  BY <1>3 DEF N

LEMMA OnlyUnfolds ==
  ASSUME NEW s, NEW S, NEW n \in Nat, n = Len(s)
  PROVE  \E f : /\ Only(s, S) = f[n]
                /\ f[0] = << >> /\ \A i \in 1 .. n : Keeps(f, s, S, i)
<1> DEFINE f == CHOOSE g : IsKept(g, s, S, n)
<1>1. IsKept(f, s, S, n)
  BY KeptExists
<1>2. Only(s, S) = f[n]
  BY DEF Only, IsKept
<1> HIDE DEF f
<1> QED
  BY <1>1, <1>2, KeptUnfolds

(* Only(s, S) is a list of the elements of s that are in S, and no others. *)
LEMMA OnlyMembers ==
  ASSUME NEW T, NEW s \in Seq(T), NEW S
  PROVE  Only(s, S) \in Seq(T) /\ Members(Only(s, S)) = Members(s) \intersect S
<1>1. PICK n \in Nat : n = Len(s) /\ DOMAIN s = 1 .. n
  OBVIOUS
<1>2. PICK f : /\ Only(s, S) = f[n]
               /\ f[0] = << >> /\ \A i \in 1 .. n : Keeps(f, s, S, i)
  BY <1>1, OnlyUnfolds
<1> DEFINE Has(k) == /\ f[k] \in Seq(T)
                     /\ \A e : (\E i \in DOMAIN f[k] : f[k][i] = e)
                               <=> e \in S /\ \E i \in 1 .. k : s[i] = e
           N == {k \in Nat : k <= n => Has(k)}
<1>3. Has(0)
  BY <1>2
<1>4. ASSUME NEW k \in Nat, k + 1 <= n, Has(k) PROVE Has(k + 1)
  <2>1. k + 1 \in 1 .. n /\ s[k + 1] \in T
    BY <1>1, <1>4
  <2>2. f[k + 1] = IF s[k + 1] \in S THEN Append(f[k], s[k + 1]) ELSE f[k]
    BY <1>2, <2>1 DEF Keeps
  <2>3. \A e : (\E i \in 1 .. k + 1 : s[i] = e)
               <=> e = s[k + 1] \/ \E i \in 1 .. k : s[i] = e
    OBVIOUS
  <2>4. CASE s[k + 1] \in S
    <3>1. f[k + 1] = Append(f[k], s[k + 1])
      BY <2>2, <2>4
    <3>2. /\ f[k + 1] \in Seq(T) /\ DOMAIN f[k + 1] = DOMAIN f[k] \union {Len(f[k]) + 1}
          /\ \A i \in DOMAIN f[k] : f[k + 1][i] = f[k][i]
          /\ f[k + 1][Len(f[k]) + 1] = s[k + 1]
      BY <1>4, <2>1, <3>1
    <3> QED
      BY <1>4, <2>3, <2>4, <3>2
  <2>5. CASE s[k + 1] \notin S
    BY <1>4, <2>2, <2>3, <2>5
  <2> QED
    BY <2>4, <2>5
<1> HIDE DEF Has
<1>5. 0 \in N /\ \A k \in Nat : k \in N => k + 1 \in N
  BY <1>3, <1>4
<1> HIDE DEF N
<1>6. n \in N
  BY <1>5, SetInduction
<1>7. Has(n)
  BY <1>6 DEF N
<1>8. Members(Only(s, S)) = Members(s) \intersect S
  <2>1. \A e : e \in Members(Only(s, S)) <=> \E i \in DOMAIN f[n] : f[n][i] = e
    BY <1>2 DEF Members
  <2>2. \A e : e \in Members(s) <=> \E i \in 1 .. n : s[i] = e
    BY <1>1 DEF Members
  <2> QED
    BY <1>7, <2>1, <2>2 DEF Has
<1> QED
  BY <1>2, <1>7, <1>8 DEF Has

(* Nothing changes when all elements are kept.                             *)
LEMMA OnlyAll ==
  ASSUME NEW T, NEW s \in Seq(T), NEW S, \A i \in DOMAIN s : s[i] \in S
  PROVE  Only(s, S) = s
<1>1. PICK n \in Nat : n = Len(s) /\ DOMAIN s = 1 .. n
  OBVIOUS
<1>2. PICK f : /\ Only(s, S) = f[n]
               /\ f[0] = << >> /\ \A i \in 1 .. n : Keeps(f, s, S, i)
  BY <1>1, OnlyUnfolds
<1> DEFINE Same(k) == f[k] = SubSeq(s, 1, k)
           N == {k \in Nat : k <= n => Same(k)}
<1>3. Same(0)
  BY <1>2
<1>4. ASSUME NEW k \in Nat, k + 1 <= n, Same(k) PROVE Same(k + 1)
  <2>1. k + 1 \in 1 .. n
    BY <1>4
  <2>2. f[k + 1] = Append(f[k], s[k + 1])
    <3>1. s[k + 1] \in S /\ k + 1 - 1 = k
      BY <1>1, <2>1
    <3>2. Keeps(f, s, S, k + 1)
      BY <1>2, <2>1
    <3> QED
      BY <3>1, <3>2 DEF Keeps
  <2>3. Append(SubSeq(s, 1, k), s[k + 1]) = SubSeq(s, 1, k + 1)
    BY <1>1, <2>1
  <2> QED
    BY <1>4, <2>2, <2>3
<1> HIDE DEF Same
<1>5. 0 \in N /\ \A k \in Nat : k \in N => k + 1 \in N
  BY <1>3, <1>4
<1> HIDE DEF N
<1>6. n \in N
  BY <1>5, SetInduction
<1>7. f[n] = SubSeq(s, 1, n)
  BY <1>6 DEF N, Same
<1> QED
  BY <1>1, <1>2, <1>7

LEMMA MembersOf ==
  ASSUME NEW T, NEW s \in Seq(T)
  PROVE  Members(s) \subseteq T
  BY DEF Members

LEMMA MembersAppended ==
  ASSUME NEW T, NEW s \in Seq(T), NEW e \in T
  PROVE  /\ Append(s, e) \in Seq(T) /\ Members(Append(s, e)) = Members(s) \union {e}
         /\ DOMAIN s \subseteq DOMAIN Append(s, e)
         /\ \A i \in DOMAIN s : Append(s, e)[i] = s[i]
         /\ \A i \in DOMAIN Append(s, e) :
              i \in DOMAIN s \/ (i = Len(s) + 1 /\ Append(s, e)[i] = e)
<1>1. /\ DOMAIN Append(s, e) = DOMAIN s \union {Len(s) + 1} /\ Append(s, e) \in Seq(T)
      /\ \A i \in DOMAIN s : Append(s, e)[i] = s[i]
      /\ Append(s, e)[Len(s) + 1] = e
  OBVIOUS
<1>2. Members(Append(s, e)) = Members(s) \union {e}
  <2> DEFINE a == Append(s, e)
  <2> HIDE DEF a
  <2>1. /\ DOMAIN a = DOMAIN s \union {Len(s) + 1}
        /\ \A i \in DOMAIN s : a[i] = s[i]
        /\ a[Len(s) + 1] = e
    BY <1>1 DEF a
  <2>2. Members(a) = Members(s) \union {e}
    BY <2>1, Zenon DEF Members
  <2> QED
    BY <2>2 DEF a
<1> QED
  BY <1>1, <1>2
-----------------------------------------------------------------------------
(* A loop over n elements with an accumulator in G: the function that gives*)
(* its value after each of them exists.  The recursive functions of the    *)
(* models are shown to be such a one.                                      *)
LEMMA LoopExists ==
  ASSUME NEW G, NEW base \in G, NEW n \in Nat, NEW step \in [1 .. n -> [G -> G]]
  PROVE  \E f \in [0 .. n -> G] :
           f[0] = base /\ \A i \in 1 .. n : f[i] = step[i][f[i - 1]]
<1> DEFINE Loops(f, k) == /\ f \in [0 .. k -> G] /\ f[0] = base
                          /\ \A i \in 1 .. k : f[i] = step[i][f[i - 1]]
           N == {k \in Nat : k <= n => \E f : Loops(f, k)}
<1>1. 0 \in N
  <2> DEFINE f == [i \in 0 .. 0 |-> base]
  <2>1. Loops(f, 0)
    OBVIOUS
  <2> QED
    BY <2>1
<1>2. ASSUME NEW k \in Nat, k \in N PROVE k + 1 \in N
  <2> SUFFICES ASSUME k + 1 <= n PROVE \E f : Loops(f, k + 1)
    OBVIOUS
  <2>1. PICK f : Loops(f, k)
    BY <1>2
  <2> DEFINE next == step[k + 1][f[k]]
             g == [i \in 0 .. k + 1 |-> IF i = k + 1 THEN next ELSE f[i]]
  <2>2. next \in G
    <3>1. k + 1 \in 1 .. n /\ f[k] \in G
      BY <2>1
    <3> QED
      BY <3>1
  <2> HIDE DEF next
  <2>3. /\ g \in [0 .. k + 1 -> G] /\ g[k + 1] = next
        /\ \A i \in 0 .. k : g[i] = f[i]
    BY <2>1, <2>2
  <2> HIDE DEF g
  <2>4. ASSUME NEW i \in 1 .. k + 1 PROVE g[i] = step[i][g[i - 1]]
    <3>1. CASE i = k + 1
      <4>1. i - 1 = k /\ k \in 0 .. k
        BY <3>1
      <4>2. g[i - 1] = f[k]
        BY <2>3, <4>1
      <4> QED
        BY <2>3, <3>1, <4>2 DEF next
    <3>2. CASE i # k + 1
      <4>1. i \in 1 .. k /\ i \in 0 .. k /\ i - 1 \in 0 .. k
        BY <3>2
      <4> QED
        BY <2>1, <2>3, <4>1
    <3> QED
      BY <3>1, <3>2
  <2>5. Loops(g, k + 1)
    BY <2>1, <2>3, <2>4
  <2> QED
    BY <2>5
<1> HIDE DEF Loops, N
<1>3. n \in N
  BY <1>1, <1>2, SetInduction
<1> QED
  BY <1>3 DEF N, Loops

-----------------------------------------------------------------------------
(* Sorting: a strict order B of places can be listed so that no place comes*)
(* after one that it is before; each place is inserted into those up to it,*)
(* before the first that it is before.                                     *)

Places(k) == 1 .. k

Ordering(p, k, B) ==
  /\ p \in [Places(k) -> Places(k)] /\ \A m \in Places(k) : \E i \in Places(k) : p[i] = m
  /\ \A i, j \in Places(k) : i < j => <<p[j], p[i]>> \notin B

LEMMA PlaceInserted ==
  ASSUME NEW B, NEW k \in Nat, NEW p, Ordering(p, k, B),
         \A a, b \in Places(k + 1) : <<a, b>> \in B => <<b, a>> \notin B,
         \A a, b, c \in Places(k + 1) : <<a, b>> \in B /\ <<b, c>> \in B => <<a, c>> \in B
  PROVE  \E q : Ordering(q, k + 1, B)
<1> DEFINE T == {j \in Places(k) : <<k + 1, p[j]>> \in B} \union {k + 1}
<1>1. T \in SUBSET Nat /\ T # {}
  BY DEF Places
<1>2. PICK at \in T : \A j \in T : at <= j
  BY <1>1, LeastNatural
<1> DEFINE q == [i \in Places(k + 1) |->
                   IF i < at THEN p[i] ELSE IF i = at THEN k + 1 ELSE p[i - 1]]
<1>3. at \in Places(k + 1) /\ Places(k) \subseteq Places(k + 1)
  BY DEF Places
<1>4. \A i \in Places(k) : p[i] \in Places(k)
  BY DEF Ordering
<1>5. \A i \in Places(k + 1) :
        /\ i < at => i \in Places(k) /\ q[i] = p[i]
        /\ i = at => q[i] = k + 1
        /\ i > at => i - 1 \in Places(k) /\ q[i] = p[i - 1]
  BY <1>3 DEF Places
<1>6. q \in [Places(k + 1) -> Places(k + 1)]
  <2>1. \A i \in Places(k + 1) : i < at \/ i = at \/ i > at
    BY <1>3 DEF Places
  <2>2. \A i \in Places(k + 1) : q[i] \in Places(k + 1)
    <3> HIDE DEF q
    <3>1. k + 1 \in Places(k + 1)
      BY DEF Places
    <3> QED
      BY <1>3, <1>4, <1>5, <2>1, <3>1
  <2> QED
    BY <2>2
<1> HIDE DEF q
<1>7. ASSUME NEW m \in Places(k + 1) PROVE \E i \in Places(k + 1) : q[i] = m
  <2>1. CASE m = k + 1
    BY <1>3, <1>5, <2>1
  <2>2. CASE m \in Places(k)
    <3>1. PICK i \in Places(k) : p[i] = m
      BY <2>2 DEF Ordering
    <3>2. CASE i < at
      BY <1>3, <1>5, <3>1, <3>2
    <3>3. CASE ~ (i < at)
      <4>1. PICK h \in Places(k + 1) : h = i + 1
        BY DEF Places
      <4>2. h > at /\ h - 1 = i
        BY <1>3, <3>3, <4>1 DEF Places
      <4>3. q[h] = p[h - 1]
        BY <1>5, <4>2
      <4> QED
        BY <3>1, <4>2, <4>3
    <3> QED
      BY <3>2, <3>3
  <2> QED
    BY <2>1, <2>2 DEF Places
<1>8. ASSUME NEW i \in Places(k + 1), NEW j \in Places(k + 1), i < j
      PROVE  <<q[j], q[i]>> \notin B
  <2>1. \A a, b \in Places(k) : a < b => <<p[b], p[a]>> \notin B
    BY DEF Ordering
  <2>2. CASE j < at
    <3>1. i < at
      BY <1>3, <1>8, <2>2 DEF Places
    <3> QED
      BY <1>5, <1>8, <2>1, <2>2, <3>1
  <2>3. CASE j = at
    <3>1. i < at /\ i \in Places(k) /\ i \notin T
      BY <1>2, <1>3, <1>8, <2>3 DEF Places
    <3>2. <<k + 1, p[i]>> \notin B
      BY <3>1
    <3> QED
      BY <1>5, <2>3, <3>1, <3>2
  <2>4. CASE j > at /\ i < at
    <3>1. i < j - 1
      BY <1>3, <2>4 DEF Places
    <3> QED
      BY <1>5, <2>1, <2>4, <3>1
  <2>5. CASE j > at /\ i = at
    <3>1. at \in Places(k) /\ at # k + 1 /\ j - 1 \in Places(k) /\ at <= j - 1
      BY <1>3, <2>5 DEF Places
    <3>2. <<k + 1, p[at]>> \in B
      BY <3>1
    <3>3. /\ p[at] \in Places(k + 1) /\ p[j - 1] \in Places(k + 1)
          /\ k + 1 \in Places(k + 1)
      BY <1>3, <1>4, <3>1 DEF Places
    <3>4. <<p[j - 1], k + 1>> \notin B
      <4>1. CASE j - 1 = at
        BY <3>2, <3>3, <4>1
      <4>2. CASE j - 1 # at
        <5>1. at < j - 1
          BY <3>1, <4>2 DEF Places
        <5>2. <<p[j - 1], p[at]>> \notin B
          BY <2>1, <3>1, <5>1
        <5> QED
          BY <3>2, <3>3, <5>2
      <4> QED
        BY <4>1, <4>2
    <3> QED
      BY <1>5, <2>5, <3>4
  <2>6. CASE j > at /\ i > at
    <3>1. i - 1 < j - 1
      BY <1>8 DEF Places
    <3> QED
      BY <1>5, <2>1, <2>6, <3>1
  <2> QED
    BY <1>3, <2>2, <2>3, <2>4, <2>5, <2>6 DEF Places
<1>9. Ordering(q, k + 1, B)
  BY <1>6, <1>7, <1>8 DEF Ordering
<1> QED
  BY <1>9

LEMMA OrderExists ==
  ASSUME NEW n \in Nat, NEW B,
         \A a, b \in Places(n) : <<a, b>> \in B => <<b, a>> \notin B,
         \A a, b, c \in Places(n) : <<a, b>> \in B /\ <<b, c>> \in B => <<a, c>> \in B
  PROVE  \E p : Ordering(p, n, B)
<1> DEFINE N == {k \in Nat : k <= n => \E p : Ordering(p, k, B)}
<1>1. 0 \in N
  <2> DEFINE p == [i \in Places(0) |-> 0]
  <2>1. Places(0) = {}
    BY DEF Places
  <2>2. Ordering(p, 0, B)
    BY <2>1 DEF Ordering
  <2> QED
    BY <2>2
<1>2. ASSUME NEW k \in Nat, k \in N PROVE k + 1 \in N
  <2> SUFFICES ASSUME k + 1 <= n PROVE \E p : Ordering(p, k + 1, B)
    OBVIOUS
  <2>1. PICK p : Ordering(p, k, B)
    BY <1>2
  <2>2. Places(k + 1) \subseteq Places(n)
    BY DEF Places
  <2> QED
    BY <2>1, <2>2, PlaceInserted
<1> HIDE DEF N
<1>3. n \in N
  BY <1>1, <1>2, SetInduction
<1> QED
  BY <1>3 DEF N
=============================================================================
