----------------------------- MODULE ListTheorems -----------------------------
(***************************************************************************)
(* Facts about lists that the proofs of this project share: induction over   *)
(* the naturals, and over a list for what Only makes of it.                  *)
(***************************************************************************)
EXTENDS Lists, SequenceTheorems, WellFoundedInduction, TLAPS

-----------------------------------------------------------------------------
(* Induction, over sets.                                                    *)

\* A non-empty set of naturals has a least member.
LEMMA NatMin ==
  ASSUME NEW S, S \subseteq Nat, S # {}
  PROVE  \E m \in S : \A k \in S : m <= k
<1> DEFINE R == OpToRel(<, Nat)
<1>1. IsWellFoundedOn(R, Nat)
  BY NatLessThanWellFounded, Zenon
<1>2. ASSUME NEW j \in Nat, NEW k \in Nat, j < k PROVE <<j, k>> \in R
  <2>1. <<j, k>> \in Nat \X Nat /\ <<j, k>>[1] < <<j, k>>[2]
    BY <1>2
  <2> QED
    BY <2>1 DEF OpToRel
<1> HIDE DEF R
<1>3. PICK m \in S : \A k \in S : ~(<<k, m>> \in R)
  BY <1>1, WFMin
<1>4. \A k \in S : ~(k < m)
  BY <1>2, <1>3
<1> QED
  BY <1>4

\* A set with 0, and with each number's successor up to n, has all up to n.
LEMMA UpTo ==
  ASSUME NEW n \in Nat, NEW S, 0 \in S, \A k \in 0 .. n - 1 : k \in S => k + 1 \in S
  PROVE  n \in S
<1> DEFINE D == {k \in 0 .. n : k \notin S}
<1> SUFFICES ASSUME D # {} PROVE FALSE
  <2>1. n \in 0 .. n
    OBVIOUS
  <2> QED
    BY <2>1
<1>1. D \subseteq Nat
  OBVIOUS
<1>2. PICK m \in D : \A k \in D : m <= k
  <2> HIDE DEF D
  <2> QED
    BY <1>1, NatMin
<1>3. m \in 0 .. n /\ m # 0 /\ m \notin S
  OBVIOUS
<1>4. m - 1 \in 0 .. n - 1 /\ (m - 1) + 1 = m /\ ~(m <= m - 1)
  BY <1>3
<1>5. m - 1 \in S
  BY <1>2, <1>4
<1> QED
  BY <1>3, <1>4, <1>5

-----------------------------------------------------------------------------
(* Lists.                                                                    *)

\* A function over a list's positions is a list.
LEMMA MappedList ==
  ASSUME NEW S, NEW T, NEW list \in Seq(S), NEW F,
         F = [i \in DOMAIN list |-> F[i]], \A i \in DOMAIN list : F[i] \in T
  PROVE  F \in Seq(T)
<1>1. PICK n \in Nat : n = Len(list)
  OBVIOUS
<1>2. F \in [1 .. n -> T]
  BY <1>1
<1> QED
  BY <1>2

-----------------------------------------------------------------------------
(* The items of a list that are in a set.                                    *)

\* f is the loop's result after each of the first m items.
Copies(f, s, S, m) ==
    f = [n \in 0 .. m |-> IF n = 0 THEN <<>>
                          ELSE IF s[n] \in S THEN Append(f[n - 1], s[n]) ELSE f[n - 1]]

\* The recursion that defines it is well founded.
LEMMA CopiesExist ==
  ASSUME NEW s, NEW S, NEW m \in Nat
  PROVE  \E f : Copies(f, s, S, m)
<1> DEFINE D == {k \in 0 .. m : \E f : Copies(f, s, S, k)}
<1>1. 0 \in D
  <2> DEFINE f == [n \in 0 .. 0 |-> <<>>]
  <2>1. Copies(f, s, S, 0)
    BY DEF Copies
  <2> QED
    BY <2>1
<1>2. ASSUME NEW k \in 0 .. m - 1, k \in D PROVE k + 1 \in D
  <2>1. PICK f : Copies(f, s, S, k)
    BY <1>2
  <2> DEFINE Next(h, n) == IF s[n] \in S THEN Append(h[n - 1], s[n]) ELSE h[n - 1]
             g == [n \in 0 .. k + 1 |-> IF n = k + 1 THEN Next(f, n) ELSE f[n]]
  <2>2. ASSUME NEW n \in 0 .. k + 1 PROVE g[n] = IF n = 0 THEN <<>> ELSE Next(g, n)
    <3>1. CASE n = 0
      <4>1. g[n] = f[n] /\ n \in 0 .. k
        BY <1>2, <3>1
      <4> QED
        BY <2>1, <3>1, <4>1 DEF Copies
    <3>2. CASE n \in 1 .. k
      <4>1. g[n] = f[n] /\ n \in 0 .. k /\ g[n - 1] = f[n - 1]
        BY <1>2, <3>2
      <4> QED
        BY <2>1, <3>2, <4>1 DEF Copies
    <3>3. CASE n = k + 1
      <4>1. g[n] = Next(f, n) /\ g[n - 1] = f[n - 1]
        BY <1>2, <3>3
      <4> QED
        BY <1>2, <3>3, <4>1
    <3> QED
      BY <1>2, <3>1, <3>2, <3>3
  <2>3. Copies(g, s, S, k + 1)
    <3>1. g = [n \in 0 .. k + 1 |-> g[n]]
      OBVIOUS
    <3> QED
      BY <2>2, <3>1 DEF Copies
  <2> QED
    BY <1>2, <2>3
<1> HIDE DEF D
<1>3. m \in D
  BY <1>1, <1>2, UpTo
<1> QED
  BY <1>3 DEF D

\* What is left of any list, step by step.
LEMMA OnlySteps ==
  ASSUME NEW T, NEW s \in Seq(T), NEW S
  PROVE  \E f : /\ Only(s, S) = f[Len(s)] /\ f[0] = <<>>
                /\ \A k \in 0 .. Len(s) - 1 :
                      f[k + 1] = IF s[k + 1] \in S THEN Append(f[k], s[k + 1]) ELSE f[k]
<1> DEFINE f == CHOOSE h : Copies(h, s, S, Len(s))
<1>1. Copies(f, s, S, Len(s))
  BY CopiesExist
<1>2. Only(s, S) = f[Len(s)]
  BY DEF Only, Copies
<1> HIDE DEF f
<1>3. PICK n \in Nat : n = Len(s)
  OBVIOUS
<1>4. 0 \in 0 .. n /\ \A k \in 0 .. n - 1 : k \in 0 .. n /\ k + 1 \in 0 .. n
                                            /\ k + 1 # 0 /\ (k + 1) - 1 = k
  BY <1>3
<1>5. f = [k \in 0 .. n |-> IF k = 0 THEN <<>>
                            ELSE IF s[k] \in S THEN Append(f[k - 1], s[k]) ELSE f[k - 1]]
  BY <1>1, <1>3 DEF Copies
<1>6. f[0] = <<>>
  BY <1>4, <1>5
<1>7. ASSUME NEW k \in 0 .. n - 1
      PROVE  f[k + 1] = IF s[k + 1] \in S THEN Append(f[k], s[k + 1]) ELSE f[k]
  BY <1>4, <1>5
<1> QED
  BY <1>2, <1>3, <1>6, <1>7

\* What is left is in the set.
LEMMA OnlyType ==
  ASSUME NEW T, NEW s \in Seq(T), NEW S
  PROVE  Only(s, S) \in Seq(T \cap S)
<1>1. PICK f : /\ Only(s, S) = f[Len(s)] /\ f[0] = <<>>
               /\ \A k \in 0 .. Len(s) - 1 :
                     f[k + 1] = IF s[k + 1] \in S THEN Append(f[k], s[k + 1]) ELSE f[k]
  BY OnlySteps
<1>2. PICK n \in Nat : n = Len(s)
  OBVIOUS
<1> DEFINE K == T \cap S
           D == {k \in 0 .. n : f[k] \in Seq(K)}
<1>3. 0 \in D
  <2>1. f[0] \in Seq(K) /\ 0 \in 0 .. n
    BY <1>1, EmptySeq
  <2> HIDE DEF K
  <2> QED
    BY <2>1
<1>4. ASSUME NEW k \in 0 .. n - 1, k \in D PROVE k + 1 \in D
  <2>1. k + 1 \in 0 .. n /\ s[k + 1] \in T /\ f[k] \in Seq(K)
    BY <1>2, <1>4
  <2>2. CASE s[k + 1] \in S
    <3>1. s[k + 1] \in K /\ f[k + 1] = Append(f[k], s[k + 1])
      BY <1>1, <1>2, <2>1, <2>2
    <3> HIDE DEF K
    <3>2. f[k + 1] \in Seq(K)
      BY <2>1, <3>1
    <3> QED
      BY <2>1, <3>2
  <2>3. CASE s[k + 1] \notin S
    BY <1>1, <1>2, <2>1, <2>3
  <2> QED
    BY <2>2, <2>3
<1> HIDE DEF D
<1>5. n \in D
  BY <1>3, <1>4, UpTo
<1> QED
  BY <1>1, <1>2, <1>5 DEF D

\* Nothing is left out of a list whose items are all in the set.
LEMMA OnlyAll ==
  ASSUME NEW T, NEW s \in Seq(T), NEW S, \A i \in DOMAIN s : s[i] \in S
  PROVE  Only(s, S) = s
<1>1. PICK f : /\ Only(s, S) = f[Len(s)] /\ f[0] = <<>>
               /\ \A k \in 0 .. Len(s) - 1 :
                     f[k + 1] = IF s[k + 1] \in S THEN Append(f[k], s[k + 1]) ELSE f[k]
  BY OnlySteps
<1>2. PICK n \in Nat : n = Len(s)
  OBVIOUS
<1> DEFINE Agrees(t, k) == t \in Seq(T) /\ Len(t) = k /\ \A i \in 1 .. k : t[i] = s[i]
           D == {k \in 0 .. n : Agrees(f[k], k)}
<1>3. 0 \in D
  <2>1. \A i \in 1 .. 0 : FALSE
    OBVIOUS
  <2>2. f[0] \in Seq(T) /\ Len(f[0]) = 0
    BY <1>1, EmptySeq
  <2>3. Agrees(f[0], 0) /\ 0 \in 0 .. n
    BY <2>1, <2>2
  <2> HIDE DEF Agrees
  <2> QED
    BY <2>3
<1>4. ASSUME NEW k \in 0 .. n - 1, k \in D PROVE k + 1 \in D
  <2>1. k + 1 \in 0 .. n /\ s[k + 1] \in T /\ k + 1 \in DOMAIN s
    BY <1>2
  <2>2. f[k + 1] = Append(f[k], s[k + 1])
    BY <1>1, <1>2, <2>1
  <2>3. PICK t \in Seq(T), x \in T : t = f[k] /\ x = s[k + 1] /\ Agrees(t, k)
    BY <1>4, <2>1
  <2>4. Append(t, x) \in Seq(T) /\ Len(Append(t, x)) = k + 1
    BY <2>3
  <2>5. ASSUME NEW i \in 1 .. k + 1 PROVE Append(t, x)[i] = s[i]
    <3>1. CASE i = k + 1
      BY <2>3, <3>1
    <3>2. CASE i \in 1 .. k
      BY <2>3, <3>2
    <3>3. i = k + 1 \/ i \in 1 .. k
      OBVIOUS
    <3> QED
      BY <3>1, <3>2, <3>3
  <2>6. Agrees(f[k + 1], k + 1)
    BY <2>2, <2>3, <2>4, <2>5
  <2> QED
    BY <2>1, <2>6
<1> HIDE DEF D
<1>5. n \in D
  BY <1>3, <1>4, UpTo
<1>6. Agrees(f[n], n)
  BY <1>5 DEF D
<1> QED
  BY <1>1, <1>2, <1>6

\* The empty list, and a list with one more item.
LEMMA OnlyEmpty == ASSUME NEW S PROVE Only(<<>>, S) = <<>>
<1>1. <<>> \in Seq({}) /\ \A i \in DOMAIN <<>> : <<>>[i] \in S
  BY EmptySeq
<1> QED
  BY <1>1, OnlyAll

LEMMA OnlyAppend ==
  ASSUME NEW T, NEW s \in Seq(T), NEW x \in T, NEW S
  PROVE  Only(Append(s, x), S) = IF x \in S THEN Append(Only(s, S), x) ELSE Only(s, S)
<1>1. PICK f : /\ Only(s, S) = f[Len(s)] /\ f[0] = <<>>
               /\ \A k \in 0 .. Len(s) - 1 :
                     f[k + 1] = IF s[k + 1] \in S THEN Append(f[k], s[k + 1]) ELSE f[k]
  BY OnlySteps
<1>2. PICK t \in Seq(T) : t = Append(s, x)
  <2>1. Append(s, x) \in Seq(T)
    OBVIOUS
  <2> QED
    BY <2>1
<1>3. PICK g : /\ Only(t, S) = g[Len(t)] /\ g[0] = <<>>
               /\ \A k \in 0 .. Len(t) - 1 :
                     g[k + 1] = IF t[k + 1] \in S THEN Append(g[k], t[k + 1]) ELSE g[k]
  BY OnlySteps
<1>4. PICK n \in Nat : n = Len(s) /\ Len(t) = n + 1 /\ n \in 0 .. (n + 1) - 1
  BY <1>2
<1>5. t[n + 1] = x /\ \A k \in 0 .. n - 1 : t[k + 1] = s[k + 1]
  BY <1>2, <1>4
<1> DEFINE D == {k \in 0 .. n : g[k] = f[k]}
<1>6. 0 \in D
  BY <1>1, <1>3
<1>7. ASSUME NEW k \in 0 .. n - 1, k \in D PROVE k + 1 \in D
  <2>1. k + 1 \in 0 .. n /\ k \in 0 .. Len(s) - 1 /\ k \in 0 .. Len(t) - 1
    BY <1>4
  <2>2. g[k] = f[k] /\ t[k + 1] = s[k + 1]
    BY <1>5, <1>7
  <2> QED
    BY <1>1, <1>3, <2>1, <2>2
<1> HIDE DEF D
<1>8. n \in D
  BY <1>6, <1>7, UpTo
<1>9. g[n + 1] = IF t[n + 1] \in S THEN Append(g[n], t[n + 1]) ELSE g[n]
  BY <1>3, <1>4
<1> QED
  BY <1>1, <1>2, <1>3, <1>4, <1>5, <1>8, <1>9 DEF D

\* A list after another.
LEMMA OnlyConcat ==
  ASSUME NEW T, NEW s \in Seq(T), NEW t \in Seq(T), NEW S
  PROVE  Only(s \o t, S) = Only(s, S) \o Only(t, S)
<1>1. PICK n \in Nat : n = Len(t)
  OBVIOUS
<1> DEFINE D == {k \in 0 .. n : \A u \in Seq(T) : Len(u) = k =>
                                   Only(s \o u, S) = Only(s, S) \o Only(u, S)}
<1>2. 0 \in D
  <2>1. ASSUME NEW u \in Seq(T), Len(u) = 0 PROVE Only(s \o u, S) = Only(s, S) \o Only(u, S)
    <3>1. u = <<>> /\ s \o u = s
      BY <2>1
    <3>2. Only(u, S) = <<>> /\ Only(s, S) \in Seq(T \cap S)
      BY <3>1, OnlyEmpty, OnlyType
    <3>3. Only(s, S) \o <<>> = Only(s, S)
      <4> DEFINE K == T \cap S
      <4>1. Only(s, S) \in Seq(K)
        BY <3>2
      <4> HIDE DEF K
      <4> QED
        BY <4>1
    <3> QED
      BY <3>1, <3>2, <3>3
  <2> QED
    BY <2>1
<1>3. ASSUME NEW k \in 0 .. n - 1, k \in D PROVE k + 1 \in D
  <2>1. ASSUME NEW u \in Seq(T), Len(u) = k + 1
        PROVE  Only(s \o u, S) = Only(s, S) \o Only(u, S)
    <3>1. PICK v \in Seq(T), x \in T : u = Append(v, x) /\ Len(v) = k
      <4> DEFINE v == SubSeq(u, 1, k)
      <4>1. v \in Seq(T) /\ Len(v) = k /\ u[k + 1] \in T /\ u = Append(v, u[k + 1])
        BY <2>1
      <4> QED
        BY <4>1
    <3>2. s \o u = Append(s \o v, x) /\ s \o v \in Seq(T)
      BY <3>1
    <3>3. Only(s \o v, S) = Only(s, S) \o Only(v, S)
      BY <1>3, <3>1
    <3>4. /\ Only(s \o u, S) = IF x \in S THEN Append(Only(s \o v, S), x) ELSE Only(s \o v, S)
          /\ Only(u, S) = IF x \in S THEN Append(Only(v, S), x) ELSE Only(v, S)
      <4>1. PICK w \in Seq(T) : w = s \o v
        BY <3>2
      <4>2. Only(Append(w, x), S) = IF x \in S THEN Append(Only(w, S), x) ELSE Only(w, S)
        BY OnlyAppend
      <4>3. Only(Append(v, x), S) = IF x \in S THEN Append(Only(v, S), x) ELSE Only(v, S)
        BY OnlyAppend
      <4> QED
        BY <3>1, <3>2, <4>1, <4>2, <4>3
    <3>5. Only(s, S) \in Seq(T \cap S) /\ Only(v, S) \in Seq(T \cap S)
      BY OnlyType
    <3>6. CASE x \in S
      <4>1. PICK K : K = T \cap S
        OBVIOUS
      <4>2. PICK a \in Seq(K), b \in Seq(K) : a = Only(s, S) /\ b = Only(v, S)
        BY <3>5, <4>1
      <4>3. x \in K
        BY <3>6, <4>1
      <4>4. Append(a \o b, x) = a \o Append(b, x)
        <5>1. <<x>> \in Seq(K) /\ a \o b \in Seq(K)
          BY <4>2, <4>3, ConcatProperties
        <5>2. Append(b, x) = b \o <<x>> /\ Append(a \o b, x) = (a \o b) \o <<x>>
          BY <4>2, <4>3, <5>1, AppendIsConcat
        <5> QED
          BY <4>2, <5>1, <5>2, ConcatAssociative
      <4> QED
        BY <3>3, <3>4, <3>6, <4>2, <4>4
    <3>7. CASE x \notin S
      BY <3>3, <3>4, <3>7
    <3> QED
      BY <3>6, <3>7
  <2>2. k + 1 \in 0 .. n
    OBVIOUS
  <2> QED
    BY <2>1, <2>2
<1> HIDE DEF D
<1>4. n \in D
  BY <1>2, <1>3, UpTo
<1> QED
  BY <1>1, <1>4 DEF D

\* A list, item by item.
LEMMA OnlyHead ==
  ASSUME NEW T, NEW t \in Seq(T), t # <<>>, NEW S
  PROVE  Only(t, S) = (IF Head(t) \in S THEN <<Head(t)>> ELSE <<>>) \o Only(Tail(t), S)
<1>1. Head(t) \in T /\ Tail(t) \in Seq(T) /\ <<>> \in Seq(T) /\ <<Head(t)>> \in Seq(T)
  OBVIOUS
<1>2. t = <<Head(t)>> \o Tail(t)
  OBVIOUS
<1>3. <<Head(t)>> = Append(<<>>, Head(t))
  OBVIOUS
<1>4. Only(<<Head(t)>>, S) = IF Head(t) \in S THEN <<Head(t)>> ELSE <<>>
  <2>1. Only(Append(<<>>, Head(t)), S)
          = IF Head(t) \in S THEN Append(Only(<<>>, S), Head(t)) ELSE Only(<<>>, S)
    BY <1>1, OnlyAppend
  <2>2. Only(<<>>, S) = <<>>
    BY OnlyEmpty
  <2> QED
    BY <1>3, <2>1, <2>2
<1>5. Only(<<Head(t)>> \o Tail(t), S) = Only(<<Head(t)>>, S) \o Only(Tail(t), S)
  <2>1. PICK h \in Seq(T), u \in Seq(T) : h = <<Head(t)>> /\ u = Tail(t)
    BY <1>1
  <2>2. Only(h \o u, S) = Only(h, S) \o Only(u, S)
    BY OnlyConcat
  <2> QED
    BY <2>1, <2>2
<1> QED
  BY <1>2, <1>4, <1>5

\* Two sets that agree on the items of a list leave the same of it.
LEMMA OnlySame ==
  ASSUME NEW T, NEW s \in Seq(T), NEW R, NEW S, \A i \in DOMAIN s : s[i] \in R <=> s[i] \in S
  PROVE  Only(s, R) = Only(s, S)
<1>1. PICK f : /\ Only(s, R) = f[Len(s)] /\ f[0] = <<>>
               /\ \A k \in 0 .. Len(s) - 1 :
                     f[k + 1] = IF s[k + 1] \in R THEN Append(f[k], s[k + 1]) ELSE f[k]
  BY OnlySteps
<1>2. PICK g : /\ Only(s, S) = g[Len(s)] /\ g[0] = <<>>
               /\ \A k \in 0 .. Len(s) - 1 :
                     g[k + 1] = IF s[k + 1] \in S THEN Append(g[k], s[k + 1]) ELSE g[k]
  BY OnlySteps
<1>3. PICK n \in Nat : n = Len(s)
  OBVIOUS
<1> DEFINE D == {k \in 0 .. n : f[k] = g[k]}
<1>4. 0 \in D
  BY <1>1, <1>2
<1>5. ASSUME NEW k \in 0 .. n - 1, k \in D PROVE k + 1 \in D
  <2>1. k + 1 \in DOMAIN s /\ k + 1 \in 0 .. n
    BY <1>3
  <2>2. s[k + 1] \in R <=> s[k + 1] \in S
    BY <2>1
  <2> QED
    BY <1>1, <1>2, <1>3, <1>5, <2>1, <2>2
<1> HIDE DEF D
<1>6. n \in D
  BY <1>4, <1>5, UpTo
<1> QED
  BY <1>1, <1>2, <1>3, <1>6 DEF D

\* What is left of a list is of the list.
LEMMA OnlyItems ==
  ASSUME NEW T, NEW s \in Seq(T), NEW S
  PROVE  Only(s, S) \in Seq({s[i] : i \in DOMAIN s} \cap S)
<1> DEFINE K == {s[i] : i \in DOMAIN s}
<1>1. s \in Seq(K)
  <2>1. s \in [1 .. Len(s) -> K] /\ Len(s) \in Nat
    OBVIOUS
  <2> HIDE DEF K
  <2> QED
    BY <2>1
<1> HIDE DEF K
<1>2. Only(s, S) \in Seq(K \cap S)
  BY <1>1, OnlyType
<1> QED
  BY <1>2 DEF K
===============================================================================
