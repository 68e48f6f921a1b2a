-------------------------- MODULE GroupCommitProofs --------------------------
(***************************************************************************)
(* QueueConsistent and ExecutedOnceAsReported of GroupCommit, for every    *)
(* number of callers and every limit.                                      *)
(*                                                                         *)
(* The library's induction theorems have an operator as parameter; here    *)
(* induction over the naturals is derived from the well-foundedness of <   *)
(* with a set as parameter, and with it the facts about the sum of sizes   *)
(* that the byte reservation needs.  The inductive invariant QInv adds to  *)
(* the two properties that only the holder of the commit lock has a group, *)
(* and in which one of queue, group and history each job is.               *)
(***************************************************************************)
EXTENDS GroupCommit, SequenceTheorems, WellFoundedInduction, TLAPS

\* Induction over the naturals, with the induction hypothesis as a set.
LEMMA SetInduction ==
    ASSUME NEW S, 0 \in S, \A n \in Nat : n \in S => n + 1 \in S
    PROVE  Nat \subseteq S
<1>. DEFINE R == OpToRel(<, Nat)
            T == {n \in Nat : n \notin S}
<1>. SUFFICES ASSUME T # {} PROVE FALSE
  OBVIOUS
<1>1. \A x, y \in Nat : y < x => <<y, x>> \in R
  BY DEF OpToRel
<1>2. IsWellFoundedOn(R, Nat)
  BY NatLessThanWellFounded
<1>. HIDE DEF R
<1>3. T \subseteq Nat
  OBVIOUS
<1>4. PICK x \in T : \A y \in T : ~(<<y, x>> \in R)
  <2>. HIDE DEF T
  <2>. QED  BY <1>2, <1>3, WFMin
<1>5. x # 0 /\ x \in Nat
  OBVIOUS
<1>6. x - 1 \in Nat /\ x - 1 < x /\ (x - 1) + 1 = x
  BY <1>5
<1>7. x - 1 \notin T
  BY <1>1, <1>4, <1>5, <1>6
<1>. QED
  BY <1>5, <1>6, <1>7

\* f is the running total of the weights of q.
IsTotal(f, w, q) ==
    /\ f \in [0 .. Len(q) -> Nat]
    /\ f[0] = 0
    /\ \A i \in 1 .. Len(q) : f[i] = f[i - 1] + w[q[i]]

\* Every sequence of calls has a running total.
LEMMA TotalExists ==
    ASSUME NEW w \in [Calls -> Nat], NEW q \in Seq(Calls)
    PROVE  \E f : IsTotal(f, w, q)
<1>. DEFINE Partial(f, n) == /\ f \in [0 .. n -> Nat]
                             /\ f[0] = 0
                             /\ \A i \in 1 .. n : f[i] = f[i - 1] + w[q[i]]
            S == {n \in Nat : n <= Len(q) => \E f : Partial(f, n)}
<1>1. Len(q) \in Nat /\ \A i \in 1 .. Len(q) : w[q[i]] \in Nat
  BY ElementOfSeq, LenProperties
<1>2. 0 \in S
  <2>1. Partial([i \in 0 .. 0 |-> 0], 0)
    OBVIOUS
  <2>. HIDE DEF Partial
  <2>. QED  BY <2>1
<1>3. ASSUME NEW n \in Nat, n \in S PROVE n + 1 \in S
  <2>. HIDE DEF Partial
  <2>. SUFFICES ASSUME n + 1 <= Len(q) PROVE \E f : Partial(f, n + 1)
    OBVIOUS
  <2>1. PICK f : Partial(f, n)
    BY <1>1, <1>3
  <2>. USE DEF Partial
  <2>. DEFINE g == [i \in 0 .. n + 1 |-> IF i = n + 1 THEN f[n] + w[q[n + 1]] ELSE f[i]]
  <2>2. w[q[n + 1]] \in Nat
    BY <1>1
  <2>3. g \in [0 .. n + 1 -> Nat]
    BY <2>1, <2>2
  <2>4. g[0] = 0
    BY <2>1
  <2>5. \A i \in 1 .. n + 1 : g[i] = g[i - 1] + w[q[i]]
    <3>. SUFFICES ASSUME NEW i \in 1 .. n + 1 PROVE g[i] = g[i - 1] + w[q[i]]
      OBVIOUS
    <3>1. i \in 0 .. n + 1 /\ i - 1 \in 0 .. n + 1 /\ i - 1 # n + 1
      OBVIOUS
    <3>2. g[i - 1] = f[i - 1]
      BY <3>1
    <3>3. CASE i = n + 1
      BY <3>1, <3>2, <3>3
    <3>4. CASE i # n + 1
      <4>1. i \in 1 .. n /\ g[i] = f[i]
        BY <3>1, <3>4
      <4>. QED  BY <2>1, <3>2, <4>1
    <3>. QED  BY <3>3, <3>4
  <2>6. Partial(g, n + 1)
    BY <2>3, <2>4, <2>5
  <2>. HIDE DEF Partial
  <2>. QED  BY <2>6
<1>4. Nat \subseteq S
  <2>. HIDE DEF S
  <2>. QED  BY <1>2, <1>3, SetInduction
<1>5. PICK f : Partial(f, Len(q))
  <2>. HIDE DEF Partial
  <2>. QED  BY <1>1, <1>4
<1>. QED  BY <1>5 DEF IsTotal

\* The running totals of a sequence and of a prefix of it agree.
LEMMA TotalPrefix ==
    ASSUME NEW w \in [Calls -> Nat], NEW q \in Seq(Calls), NEW p \in Seq(Calls),
           NEW f, NEW g, IsTotal(f, w, q), IsTotal(g, w, p),
           Len(p) <= Len(q), \A i \in 1 .. Len(p) : p[i] = q[i]
    PROVE  f[Len(p)] = g[Len(p)]
<1>. DEFINE S == {m \in Nat : m <= Len(p) => f[m] = g[m]}
<1>0. Len(q) \in Nat /\ Len(p) \in Nat
  BY LenProperties
<1>1. 0 \in S
  BY DEF IsTotal
<1>2. ASSUME NEW m \in Nat, m \in S PROVE m + 1 \in S
  <2>. SUFFICES ASSUME m + 1 <= Len(p) PROVE f[m + 1] = g[m + 1]
    OBVIOUS
  <2>1. f[m] = g[m]
    BY <1>0, <1>2
  <2>2. m + 1 \in 1 .. Len(q) /\ m + 1 \in 1 .. Len(p) /\ (m + 1) - 1 = m
    BY <1>0
  <2>3. f[m + 1] = f[m] + w[q[m + 1]] /\ g[m + 1] = g[m] + w[p[m + 1]]
    BY <2>2 DEF IsTotal
  <2>. QED  BY <2>1, <2>2, <2>3
<1>3. Nat \subseteq S
  <2>. HIDE DEF S
  <2>. QED  BY <1>1, <1>2, SetInduction
<1>. QED  BY <1>0, <1>3

\* Total is what the running totals end with.
LEMMA TotalIs ==
    ASSUME NEW w \in [Calls -> Nat], NEW q \in Seq(Calls),
           NEW f, IsTotal(f, w, q)
    PROVE  Total(w, q) = f[Len(q)]
<1>. DEFINE D(t) == [n \in 0 .. Len(q) |-> IF n = 0 THEN 0 ELSE t[n - 1] + w[q[n]]]
            total == CHOOSE t : t = D(t)
            S == {m \in Nat : m <= Len(q) => f[m] = total[m]}
<1>0. Len(q) \in Nat
  BY LenProperties
<1>1. f = D(f)
  <2>1. \A n \in 0 .. Len(q) : f[n] = D(f)[n]
    BY <1>0 DEF IsTotal
  <2>. QED  BY <2>1 DEF IsTotal
<1>2. total = D(total)
  <2>. HIDE DEF D
  <2>. QED  BY <1>1
<1>3. Total(w, q) = total[Len(q)]
  BY DEF Total
<1>. HIDE DEF total
<1>4. 0 \in S
  BY <1>0, <1>2 DEF IsTotal
<1>5. ASSUME NEW m \in Nat, m \in S PROVE m + 1 \in S
  <2>. SUFFICES ASSUME m + 1 <= Len(q) PROVE f[m + 1] = total[m + 1]
    OBVIOUS
  <2>1. f[m] = total[m] /\ m + 1 \in 0 .. Len(q) /\ m + 1 # 0 /\ (m + 1) - 1 = m
    BY <1>0, <1>5
  <2>2. total[m + 1] = D(total)[m + 1]
    <3>. HIDE DEF D
    <3>. QED  BY <1>2
  <2>3. total[m + 1] = total[m] + w[q[m + 1]]
    BY <2>1, <2>2
  <2>4. m + 1 \in 1 .. Len(q)
    BY <1>0
  <2>5. f[m + 1] = f[m] + w[q[m + 1]]
    BY <2>1, <2>4 DEF IsTotal
  <2>. QED  BY <2>1, <2>3, <2>5
<1>6. Nat \subseteq S
  <2>. HIDE DEF S
  <2>. QED  BY <1>4, <1>5, SetInduction
<1>. QED  BY <1>0, <1>3, <1>6

\* A total is a natural number.
LEMMA TotalType ==
    ASSUME NEW w \in [Calls -> Nat], NEW q \in Seq(Calls)
    PROVE  Total(w, q) \in Nat
<1>1. PICK f : IsTotal(f, w, q)
  BY TotalExists
<1>2. Len(q) \in 0 .. Len(q)
  BY LenProperties
<1>. QED  BY <1>1, <1>2, TotalIs DEF IsTotal

\* An empty queue weighs nothing.
LEMMA TotalEmpty ==
    ASSUME NEW w \in [Calls -> Nat]
    PROVE  Total(w, <<>>) = 0
<1>. DEFINE q == <<>>
<1>1. q \in Seq(Calls) /\ Len(q) = 0
  OBVIOUS
<1>2. PICK f : IsTotal(f, w, q)
  BY <1>1, TotalExists
<1>. QED  BY <1>1, <1>2, TotalIs DEF IsTotal

\* Queueing a call adds its weight.
LEMMA TotalAppend ==
    ASSUME NEW w \in [Calls -> Nat], NEW q \in Seq(Calls), NEW c \in Calls
    PROVE  Total(w, Append(q, c)) = Total(w, q) + w[c]
<1>. DEFINE p == Append(q, c)
<1>1. /\ p \in Seq(Calls) /\ Len(p) = Len(q) + 1
      /\ \A i \in 1 .. Len(q) : p[i] = q[i]
      /\ p[Len(p)] = c /\ Len(q) \in Nat
  BY AppendProperties, LenProperties
<1>. HIDE DEF p
<1>2. PICK f : IsTotal(f, w, q)
  BY TotalExists
<1>3. PICK g : IsTotal(g, w, p)
  BY <1>1, TotalExists
<1>4. f[Len(q)] = g[Len(q)]
  <2>1. Len(q) <= Len(p) /\ \A i \in 1 .. Len(q) : q[i] = p[i]
    BY <1>1
  <2>2. g[Len(q)] = f[Len(q)]
    BY <1>1, <1>2, <1>3, <2>1, TotalPrefix
  <2>. QED  BY <2>2
<1>5. Len(p) \in 1 .. Len(p) /\ Len(p) - 1 = Len(q)
  BY <1>1
<1>6. g[Len(p)] = g[Len(q)] + w[c]
  BY <1>1, <1>3, <1>5 DEF IsTotal
<1>7. Total(w, q) = f[Len(q)] /\ Total(w, p) = g[Len(p)]
  BY <1>1, <1>2, <1>3, TotalIs
<1>. QED  BY <1>4, <1>6, <1>7 DEF p

\* The total of a sequence is that of its first n calls and that of the rest.
LEMMA TotalSplit ==
    ASSUME NEW w \in [Calls -> Nat], NEW q \in Seq(Calls), NEW n \in 1 .. Len(q)
    PROVE  Total(w, q) = Total(w, SubSeq(q, 1, n)) + Total(w, SubSeq(q, n + 1, Len(q)))
<1>. DEFINE a == SubSeq(q, 1, n)
            b == SubSeq(q, n + 1, Len(q))
<1>0. Len(q) \in Nat /\ n \in Nat /\ n >= 1 /\ n <= Len(q) /\ \A i \in 1 .. Len(q) : q[i] \in Calls
  BY LenProperties, ElementOfSeq
<1>1. a \in Seq(Calls) /\ Len(a) = n /\ \A i \in 1 .. n : a[i] = q[i]
  <2>1. 1 \in Int /\ n \in Int /\ \A i \in 1 .. n : q[i] \in Calls
    BY <1>0
  <2>2. /\ a \in Seq(Calls) /\ Len(a) = IF 1 <= n THEN n - 1 + 1 ELSE 0
        /\ \A i \in 1 .. n - 1 + 1 : a[i] = q[1 + i - 1]
    BY <2>1, SubSeqProperties
  <2>. HIDE DEF a
  <2>. QED  BY <1>0, <2>2
<1>2. /\ b \in Seq(Calls) /\ Len(b) = Len(q) - n
      /\ \A i \in 1 .. Len(q) - n : b[i] = q[n + i]
  <2>1. n + 1 \in Int /\ Len(q) \in Int /\ \A i \in n + 1 .. Len(q) : q[i] \in Calls
    BY <1>0
  <2>2. /\ b \in Seq(Calls)
        /\ Len(b) = IF n + 1 <= Len(q) THEN Len(q) - (n + 1) + 1 ELSE 0
        /\ \A i \in 1 .. Len(q) - (n + 1) + 1 : b[i] = q[(n + 1) + i - 1]
    BY <2>1, SubSeqProperties
  <2>. HIDE DEF b
  <2>. QED  BY <1>0, <2>2
<1>. HIDE DEF a, b
<1>3. PICK f : IsTotal(f, w, q)
  BY TotalExists
<1>4. PICK g : IsTotal(g, w, a)
  BY <1>1, TotalExists
<1>5. PICK h : IsTotal(h, w, b)
  BY <1>2, TotalExists
<1>6. f[n] = g[n]
  <2>1. Len(a) <= Len(q) /\ \A i \in 1 .. Len(a) : a[i] = q[i]
    BY <1>0, <1>1
  <2>2. f[Len(a)] = g[Len(a)]
    BY <1>1, <1>3, <1>4, <2>1, TotalPrefix
  <2>. QED  BY <1>1, <2>2
<1>. DEFINE S == {m \in Nat : m <= Len(q) - n => f[n + m] = f[n] + h[m]}
<1>7. 0 \in S
  <2>1. n \in 0 .. Len(q) /\ n + 0 = n
    BY <1>0
  <2>2. f[n] \in Nat /\ h[0] = 0
    BY <1>3, <1>5, <2>1 DEF IsTotal
  <2>. QED  BY <2>1, <2>2
<1>8. ASSUME NEW m \in Nat, m \in S PROVE m + 1 \in S
  <2>. SUFFICES ASSUME m + 1 <= Len(q) - n PROVE f[n + (m + 1)] = f[n] + h[m + 1]
    OBVIOUS
  <2>0. f[n + m] = f[n] + h[m]
    BY <1>0, <1>8
  <2>. HIDE DEF S
  <2>1. /\ n + (m + 1) \in 1 .. Len(q) /\ (n + (m + 1)) - 1 = n + m
        /\ m + 1 \in 1 .. Len(b) /\ (m + 1) - 1 = m
        /\ n \in 0 .. Len(q) /\ m \in 0 .. Len(b)
    BY <1>0, <1>2
  <2>2. f[n + (m + 1)] = f[n + m] + w[q[n + (m + 1)]] /\ h[m + 1] = h[m] + w[b[m + 1]]
    BY <2>1, <1>3, <1>5 DEF IsTotal
  <2>3. b[m + 1] = q[n + (m + 1)] /\ b[m + 1] \in Calls
    BY <2>1, <1>2, ElementOfSeq
  <2>4. f[n] \in Nat /\ h[m] \in Nat /\ w[b[m + 1]] \in Nat
    BY <2>1, <2>3, <1>3, <1>5 DEF IsTotal
  <2>. QED  BY <2>0, <2>2, <2>3, <2>4
<1>9. Nat \subseteq S
  <2>. HIDE DEF S
  <2>. QED  BY <1>7, <1>8, SetInduction
<1>10. f[Len(q)] = f[n] + h[Len(q) - n]
  <2>1. Len(q) - n \in Nat /\ n + (Len(q) - n) = Len(q)
    BY <1>0
  <2>. QED  BY <1>9, <2>1
<1>11. Total(w, q) = f[Len(q)] /\ Total(w, a) = g[n] /\ Total(w, b) = h[Len(q) - n]
  <2>. HIDE DEF S
  <2>1. Total(w, q) = f[Len(q)]
    BY <1>3, TotalIs
  <2>2. Total(w, a) = g[Len(a)]
    BY <1>1, <1>4, TotalIs
  <2>3. Total(w, b) = h[Len(b)]
    BY <1>2, <1>5, TotalIs
  <2>. QED  BY <1>1, <1>2, <2>1, <2>2, <2>3
<1>. QED  BY <1>6, <1>10, <1>11 DEF a, b

-----------------------------------------------------------------------------
(* Sequences and the sets of their elements *)

\* A bounded set of naturals that is not empty has a maximum.
LEMMA MaxBounded ==
    ASSUME NEW k \in Nat, NEW S, S \subseteq 0 .. k, S # {}
    PROVE  Max(S) \in S
<1>. SUFFICES ASSUME ~\E x \in S : \A y \in S : x >= y PROVE FALSE
  BY DEF Max
<1>. DEFINE T == {n \in Nat : \A x \in S : x + n <= k}
<1>1. 0 \in T
  OBVIOUS
<1>2. ASSUME NEW n \in Nat, n \in T PROVE n + 1 \in T
  <2>. SUFFICES ASSUME NEW x \in S, ~(x + (n + 1) <= k) PROVE FALSE
    OBVIOUS
  <2>1. x \in Nat /\ x + n = k
    BY <1>2
  <2>2. \A y \in S : y \in Nat /\ y + n <= k
    BY <1>2
  <2>3. \A y \in S : x >= y
    BY <2>1, <2>2
  <2>. QED  BY <2>3
<1>3. Nat \subseteq T
  <2>. HIDE DEF T
  <2>. QED  BY <1>1, <1>2, SetInduction
<1>4. PICK x \in S : TRUE
  OBVIOUS
<1>5. k + 1 \in T /\ x \in Nat
  BY <1>3
<1>. QED  BY <1>5

\* The empty sequence.
LEMMA EmptySet == ToSet(<<>>) = {} /\ IsInjective(<<>>) /\ <<>> \in Seq(Calls)
BY DEF ToSet, IsInjective

\* The elements of a sequence are the values at its indices.
LEMMA InSet ==
    /\ \A s, i : i \in DOMAIN s => s[i] \in ToSet(s)
    /\ \A s, x : x \in ToSet(s) => \E i \in DOMAIN s : x = s[i]
BY DEF ToSet

\* The elements of a sequence of calls are calls.
LEMMA SetType ==
    ASSUME NEW q \in Seq(Calls)
    PROVE  ToSet(q) \subseteq Calls
BY LenProperties, ElementOfSeq DEF ToSet

\* What appending a call does to elements and injectivity.
LEMMA AppendSet ==
    ASSUME NEW q \in Seq(Calls), NEW c \in Calls
    PROVE  /\ Append(q, c) \in Seq(Calls)
           /\ Len(Append(q, c)) = Len(q) + 1
           /\ Append(q, c) # <<>>
           /\ ToSet(Append(q, c)) = ToSet(q) \cup {c}
           /\ c \notin ToSet(q) /\ IsInjective(q) => IsInjective(Append(q, c))
<1>. DEFINE p == Append(q, c)
<1>1. /\ p \in Seq(Calls) /\ Len(p) = Len(q) + 1 /\ p # <<>>
      /\ \A i \in 1 .. Len(q) : p[i] = q[i]
      /\ p[Len(p)] = c /\ Len(q) \in Nat
      /\ DOMAIN q = 1 .. Len(q) /\ DOMAIN p = 1 .. Len(p)
  BY AppendProperties, LenProperties
<1>. HIDE DEF p
<1>2. ToSet(p) = ToSet(q) \cup {c}
  BY <1>1 DEF ToSet
<1>3. c \notin ToSet(q) /\ IsInjective(q) => IsInjective(p)
  BY <1>1 DEF ToSet, IsInjective
<1>. QED  BY <1>1, <1>2, <1>3 DEF p

\* What concatenation does to elements and injectivity.
LEMMA ConcatSet ==
    ASSUME NEW q \in Seq(Calls), NEW p \in Seq(Calls)
    PROVE  /\ q \o p \in Seq(Calls)
           /\ ToSet(q \o p) = ToSet(q) \cup ToSet(p)
           /\ IsInjective(q) /\ IsInjective(p) /\ ToSet(q) \cap ToSet(p) = {}
                => IsInjective(q \o p)
<1>. DEFINE s == q \o p
<1>1. /\ s \in Seq(Calls) /\ Len(s) = Len(q) + Len(p)
      /\ \A i \in 1 .. Len(q) + Len(p) :
           s[i] = IF i <= Len(q) THEN q[i] ELSE p[i - Len(q)]
      /\ Len(q) \in Nat /\ Len(p) \in Nat
      /\ DOMAIN q = 1 .. Len(q) /\ DOMAIN p = 1 .. Len(p) /\ DOMAIN s = 1 .. Len(s)
  BY ConcatProperties, LenProperties
<1>. HIDE DEF s
<1>2. ToSet(s) \subseteq ToSet(q) \cup ToSet(p)
  <2>. SUFFICES ASSUME NEW i \in 1 .. Len(s) PROVE s[i] \in ToSet(q) \cup ToSet(p)
    <3>1. DOMAIN s = 1 .. Len(s)
      BY <1>1
    <3>. QED  BY <3>1, InSet
  <2>1. CASE i <= Len(q)
    <3>1. i \in DOMAIN q /\ s[i] = q[i]
      BY <1>1, <2>1
    <3>. QED  BY <3>1, InSet
  <2>2. CASE i > Len(q)
    <3>1. i - Len(q) \in DOMAIN p /\ s[i] = p[i - Len(q)]
      BY <1>1, <2>2
    <3>. QED  BY <3>1, InSet
  <2>. QED  BY <1>1, <2>1, <2>2
<1>3. ToSet(q) \subseteq ToSet(s)
  BY <1>1 DEF ToSet
<1>4. ToSet(p) \subseteq ToSet(s)
  <2>. SUFFICES ASSUME NEW i \in 1 .. Len(p) PROVE p[i] \in ToSet(s)
    BY <1>1 DEF ToSet
  <2>1. Len(q) + i \in 1 .. Len(s) /\ ~(Len(q) + i <= Len(q)) /\ (Len(q) + i) - Len(q) = i
    BY <1>1
  <2>2. Len(q) + i \in DOMAIN s /\ s[Len(q) + i] = p[i]
    BY <1>1, <2>1
  <2>. QED  BY <2>2, InSet
<1>5. ASSUME IsInjective(q), IsInjective(p), ToSet(q) \cap ToSet(p) = {}
      PROVE  IsInjective(s)
  <2>. SUFFICES ASSUME NEW i \in 1 .. Len(s), NEW j \in 1 .. Len(s), s[i] = s[j]
                PROVE  i = j
    BY <1>1 DEF IsInjective
  <2>1. CASE i <= Len(q) /\ j <= Len(q)
    BY <1>1, <1>5, <2>1 DEF IsInjective
  <2>2. CASE i > Len(q) /\ j > Len(q)
    <3>1. i - Len(q) \in 1 .. Len(p) /\ j - Len(q) \in 1 .. Len(p)
          /\ s[i] = p[i - Len(q)] /\ s[j] = p[j - Len(q)]
      BY <1>1, <2>2
    <3>2. i - Len(q) = j - Len(q)
      BY <1>1, <1>5, <3>1 DEF IsInjective
    <3>. QED  BY <1>1, <3>2
  <2>3. CASE i <= Len(q) /\ j > Len(q)
    <3>1. i \in DOMAIN q /\ s[i] = q[i] /\ j - Len(q) \in DOMAIN p /\ s[j] = p[j - Len(q)]
      BY <1>1, <2>3
    <3>. QED  BY <1>5, <3>1, InSet
  <2>4. CASE i > Len(q) /\ j <= Len(q)
    <3>1. j \in DOMAIN q /\ s[j] = q[j] /\ i - Len(q) \in DOMAIN p /\ s[i] = p[i - Len(q)]
      BY <1>1, <2>4
    <3>. QED  BY <1>5, <3>1, InSet
  <2>. QED  BY <1>1, <2>1, <2>2, <2>3, <2>4
<1>. QED  BY <1>1, <1>2, <1>3, <1>4, <1>5 DEF s

\* A prefix of a sequence and the rest of it.
LEMMA SubSeqParts ==
    ASSUME NEW q \in Seq(Calls), NEW n \in 0 .. Len(q)
    PROVE  /\ SubSeq(q, 1, n) \in Seq(Calls) /\ SubSeq(q, n + 1, Len(q)) \in Seq(Calls)
           /\ Len(SubSeq(q, n + 1, Len(q))) <= Len(q)
           /\ ToSet(SubSeq(q, 1, n)) \subseteq ToSet(q)
           /\ ToSet(SubSeq(q, n + 1, Len(q))) \subseteq ToSet(q)
           /\ IsInjective(q) =>
                /\ IsInjective(SubSeq(q, 1, n))
                /\ IsInjective(SubSeq(q, n + 1, Len(q)))
                /\ ToSet(SubSeq(q, 1, n)) \cap ToSet(SubSeq(q, n + 1, Len(q))) = {}
<1>. DEFINE a == SubSeq(q, 1, n)
            b == SubSeq(q, n + 1, Len(q))
<1>0. /\ Len(q) \in Nat /\ n \in Nat /\ n <= Len(q) /\ DOMAIN q = 1 .. Len(q)
      /\ \A i \in 1 .. Len(q) : q[i] \in Calls
  BY LenProperties, ElementOfSeq
<1>1. a \in Seq(Calls) /\ DOMAIN a = 1 .. n /\ \A i \in 1 .. n : a[i] = q[i]
  <2>1. 1 \in Int /\ n \in Int /\ \A i \in 1 .. n : q[i] \in Calls
    BY <1>0
  <2>2. /\ a \in Seq(Calls) /\ Len(a) = IF 1 <= n THEN n - 1 + 1 ELSE 0
        /\ \A i \in 1 .. n - 1 + 1 : a[i] = q[1 + i - 1]
    BY <2>1, SubSeqProperties
  <2>. HIDE DEF a
  <2>3. DOMAIN a = 1 .. Len(a)
    BY <2>2, LenProperties
  <2>. QED  BY <1>0, <2>2, <2>3
<1>2. /\ b \in Seq(Calls) /\ Len(b) = Len(q) - n /\ DOMAIN b = 1 .. Len(q) - n
      /\ \A i \in 1 .. Len(q) - n : b[i] = q[n + i]
  <2>1. n + 1 \in Int /\ Len(q) \in Int /\ \A i \in n + 1 .. Len(q) : q[i] \in Calls
    BY <1>0
  <2>2. /\ b \in Seq(Calls)
        /\ Len(b) = IF n + 1 <= Len(q) THEN Len(q) - (n + 1) + 1 ELSE 0
        /\ \A i \in 1 .. Len(q) - (n + 1) + 1 : b[i] = q[(n + 1) + i - 1]
    BY <2>1, SubSeqProperties
  <2>. HIDE DEF b
  <2>3. DOMAIN b = 1 .. Len(b)
    BY <2>2, LenProperties
  <2>4. Len(b) = Len(q) - n /\ Len(q) - (n + 1) + 1 = Len(q) - n
    <3>1. Len(q) \in Nat /\ n \in Nat /\ n <= Len(q)
      BY <1>0
    <3>2. Len(b) = IF n + 1 <= Len(q) THEN Len(q) - (n + 1) + 1 ELSE 0
      BY <2>2
    <3>. QED  BY ONLY <3>1, <3>2
  <2>5. \A i \in 1 .. Len(q) - n : (n + 1) + i - 1 = n + i
    BY <1>0
  <2>6. \A i \in 1 .. Len(q) - n : b[i] = q[n + i]
    BY <2>2, <2>4, <2>5
  <2>. QED  BY <2>2, <2>3, <2>4, <2>6
<1>. HIDE DEF a, b
<1>3. ToSet(a) \subseteq ToSet(q)
  BY <1>0, <1>1 DEF ToSet
<1>4. ToSet(b) \subseteq ToSet(q)
  <2>. SUFFICES ASSUME NEW i \in 1 .. Len(q) - n PROVE b[i] \in ToSet(q)
    BY <1>2, InSet
  <2>1. n + i \in DOMAIN q /\ b[i] = q[n + i]
    BY <1>0, <1>2
  <2>. QED  BY <2>1, InSet
<1>5. ASSUME IsInjective(q)
      PROVE  IsInjective(a) /\ IsInjective(b) /\ ToSet(a) \cap ToSet(b) = {}
  <2>1. IsInjective(a)
    BY <1>0, <1>1, <1>5 DEF IsInjective
  <2>2. IsInjective(b)
    <3>. SUFFICES ASSUME NEW i \in 1 .. Len(q) - n, NEW j \in 1 .. Len(q) - n, b[i] = b[j]
                  PROVE  i = j
      BY <1>2 DEF IsInjective
    <3>1. n + i \in DOMAIN q /\ n + j \in DOMAIN q /\ q[n + i] = q[n + j]
      BY <1>0, <1>2
    <3>2. n + i = n + j
      BY <1>5, <3>1 DEF IsInjective
    <3>. QED  BY <1>0, <3>2
  <2>3. ASSUME NEW i \in 1 .. n, NEW j \in 1 .. Len(q) - n, a[i] = b[j] PROVE FALSE
    <3>1. i \in DOMAIN q /\ n + j \in DOMAIN q /\ q[i] = q[n + j] /\ i # n + j
      BY <1>0, <1>1, <1>2, <2>3
    <3>. QED  BY <1>5, <3>1 DEF IsInjective
  <2>4. ToSet(a) \cap ToSet(b) = {}
    BY <1>1, <1>2, <2>3 DEF ToSet
  <2>. QED  BY <2>1, <2>2, <2>4
<1>6. Len(b) <= Len(q)
  BY <1>0, <1>2
<1>. QED  BY <1>1, <1>2, <1>3, <1>4, <1>5, <1>6 DEF a, b

-----------------------------------------------------------------------------
(* The inductive invariant *)

\* Where a call is before it has a job, where a leader has a group, and where
\* it holds the commit lock.
Fresh == {"idle", "enqueue"}
WithGroup == {"check", "execute", "publish"}
Holding == {"collect", "drain"} \cup WithGroup

\* The types of the variables, and the queue's capacity.
Shape ==
    /\ pc \in [Calls -> Leading \cup {"idle", "enqueue", "wait", "done"}]
    /\ size \in [Calls -> Sizes]
    /\ result \in [Calls -> Results] /\ returned \in [Calls -> Results]
    /\ group \in [Calls -> Seq(Calls)]
    /\ queue \in [pending : Seq(Calls), bytes : Nat, leader : BOOLEAN]
    /\ lock \in Calls \cup {"free", "poisoned"}
    /\ committed \in Seq(Calls)
    /\ Len(queue.pending) <= Capacity

\* Only the holder of the commit lock is in the leader's loop, and only a
\* leader between drain and publish has a group.
LockInv ==
    \A c \in Calls :
      /\ pc[c] \in Holding => lock = c
      /\ group[c] # <<>> => pc[c] \in WithGroup

\* No sequence names a call twice.
OnceInv ==
    /\ IsInjective(queue.pending)
    /\ IsInjective(committed)
    /\ \A d \in Calls : IsInjective(group[d])

\* A job is queued, or in a group, or executed; only a group that is about to
\* be published holds jobs that are committed.
PlaceInv ==
    /\ ToSet(queue.pending) \cap ToSet(committed) = {}
    /\ \A d \in Calls :
         /\ ToSet(group[d]) \cap ToSet(queue.pending) = {}
         /\ pc[d] # "publish" => ToSet(group[d]) \cap ToSet(committed) = {}

\* A job exists only after its call was enqueued.
StartInv ==
    \A c \in Calls :
      pc[c] \in Fresh =>
        /\ c \notin ToSet(queue.pending)
        /\ c \notin ToSet(committed)
        /\ \A d \in Calls : c \notin ToSet(group[d])

\* Only committed writes are reported as executed.
ResultInv ==
    \A c \in Calls : "ok" \in {result[c], returned[c]} => c \in ToSet(committed)

\* The inductive invariant.
QInv ==
    /\ Shape
    /\ ReservationCoversPending
    /\ PendingJobsHaveALeader
    /\ LockInv
    /\ OnceInv
    /\ PlaceInv
    /\ StartInv
    /\ ResultInv

-----------------------------------------------------------------------------
(* Every step keeps the invariant *)

\* What the assumption on the constants gives.
LEMMA Limits ==
    /\ Capacity \in Nat \ {0} /\ MaxMembers \in Nat \ {0}
    /\ Sizes \subseteq Nat
<1>1. Capacity \in Nat \ {0} /\ MaxMembers \in Nat \ {0} /\ Sizes \subseteq 1 .. MaxMembers
  BY QueueAssumption
<1>. QED  BY ONLY <1>1

\* The calls' sizes are naturals.
LEMMA SizeIsNat == Shape => size \in [Calls -> Nat]
BY Limits DEF Shape

\* The invariant holds at first.
LEMMA InitInv == Init => QInv
<1>. SUFFICES ASSUME Init PROVE QInv
  OBVIOUS
<1>1. Shape
  <2>1. Len(<<>>) <= Capacity
    BY Limits
  <2>2. queue \in [pending : Seq(Calls), bytes : Nat, leader : BOOLEAN] /\ queue.pending = <<>>
    BY DEF Init
  <2>3. pc \in [Calls -> Leading \cup {"idle", "enqueue", "wait", "done"}]
    BY DEF Init
  <2>4. group \in [Calls -> Seq(Calls)] /\ committed \in Seq(Calls)
    BY DEF Init
  <2>5. result \in [Calls -> Results] /\ returned \in [Calls -> Results]
    BY DEF Init, Results
  <2>. QED  BY <2>1, <2>2, <2>3, <2>4, <2>5 DEF Init, Shape
<1>2. size \in [Calls -> Nat]
  BY <1>1, SizeIsNat
<1>3. ReservationCoversPending
  BY <1>2, TotalEmpty DEF Init, ReservationCoversPending, Members
<1>4. PendingJobsHaveALeader /\ LockInv
  BY DEF Init, PendingJobsHaveALeader, LockInv, Holding, WithGroup
<1>5. OnceInv /\ PlaceInv /\ StartInv /\ ResultInv
  BY EmptySet DEF Init, OnceInv, PlaceInv, StartInv, ResultInv
<1>. QED  BY <1>1, <1>3, <1>4, <1>5 DEF QInv

\* A call outside the leader's loop moves on, and nothing else changes but the
\* lock's poisoning and what the call is told.
Calm(c) ==
    /\ UNCHANGED <<size, result, group, queue, committed>>
    /\ pc[c] \notin Leading /\ pc'[c] \notin Leading
    /\ pc[c] \notin Fresh => pc'[c] \notin Fresh
    /\ \A d \in Calls \ {c} : pc'[d] = pc[d]
    /\ pc' \in [Calls -> Leading \cup {"idle", "enqueue", "wait", "done"}]
    /\ returned' \in [Calls -> Results]
    /\ \A d \in Calls : returned'[d] = "ok" => "ok" \in {result[d], returned[d]}
    /\ lock' = lock

\* Such a step keeps the invariant.
LEMMA CalmInv ==
    ASSUME QInv, NEW c \in Calls, Calm(c)
    PROVE  QInv'
<1>1. Shape'
  BY DEF QInv, Shape, Calm
<1>2. ReservationCoversPending'
  BY DEF QInv, ReservationCoversPending, Members, Calm
<1>3. PendingJobsHaveALeader'
  BY DEF QInv, PendingJobsHaveALeader, Calm
<1>4. LockInv'
  BY DEF QInv, LockInv, Calm, Leading, Holding, WithGroup
<1>5. OnceInv'
  BY DEF QInv, OnceInv, Calm
<1>6. PlaceInv'
  BY DEF QInv, PlaceInv, Calm, Leading
<1>7. StartInv'
  BY DEF QInv, StartInv, Calm
<1>8. ResultInv'
  BY DEF QInv, ResultInv, Calm
<1>. QED  BY <1>1, <1>2, <1>3, <1>4, <1>5, <1>6, <1>7, <1>8 DEF QInv

\* enqueue, first half.
LEMMA CheckInv ==
    ASSUME QInv, NEW c \in Calls, Check(c)
    PROVE  QInv'
<1>1. Calm(c)
  BY DEF QInv, Shape, Check, Calm, Leading, Fresh, Results, OuterErrors
<1>. QED  BY <1>1, CalmInv

\* Job::wait.
LEMMA ReturnInv ==
    ASSUME QInv, NEW c \in Calls, Return(c) \/ GiveUp(c)
    PROVE  QInv'
<1>1. Calm(c)
  BY DEF QInv, Shape, Return, GiveUp, Calm, Leading, Fresh, Results, OuterErrors
<1>. QED  BY <1>1, CalmInv

\* enqueue, second half.
LEMMA EnqueueInv ==
    ASSUME QInv, NEW c \in Calls, Enqueue(c)
    PROVE  QInv'
<1>1. CASE ~Admits(c)
  <2>1. Calm(c)
    BY <1>1 DEF QInv, Shape, Enqueue, Calm, Leading, Fresh, Results, OuterErrors
  <2>. QED  BY <2>1, CalmInv
<1>2. CASE Admits(c)
  <2>. DEFINE q == queue.pending
  <2>0. /\ q \in Seq(Calls) /\ queue.bytes \in Nat /\ queue.leader \in BOOLEAN
        /\ size \in [Calls -> Nat] /\ size[c] \in Nat /\ Len(q) \in Nat
    <3>1. q \in Seq(Calls) /\ queue.bytes \in Nat /\ queue.leader \in BOOLEAN
      BY DEF QInv, Shape
    <3>2. size \in [Calls -> Nat]
      BY SizeIsNat DEF QInv
    <3>. QED  BY <3>1, <3>2, LenProperties
  <2>1. /\ queue' = [pending |-> Append(q, c), bytes |-> queue.bytes + size[c], leader |-> TRUE]
        /\ pc' = [pc EXCEPT ![c] = IF queue.leader THEN "wait" ELSE "lock"]
        /\ UNCHANGED <<returned, size, result, group, lock, node, committed>>
        /\ pc[c] = "enqueue" /\ Len(q) < Capacity
    BY <1>2 DEF Enqueue, Admits
  <2>2. /\ queue'.pending = Append(q, c) /\ queue'.bytes = queue.bytes + size[c]
        /\ queue'.leader = TRUE
    BY <2>1
  <2>3. pc'[c] \in {"wait", "lock"} /\ \A d \in Calls \ {c} : pc'[d] = pc[d]
    BY <2>1 DEF QInv, Shape
  <2>4. /\ Append(q, c) \in Seq(Calls) /\ Len(Append(q, c)) = Len(q) + 1
        /\ ToSet(Append(q, c)) = ToSet(q) \cup {c}
        /\ c \notin ToSet(q) /\ IsInjective(q) => IsInjective(Append(q, c))
    BY <2>0, AppendSet
  <2>5. c \notin ToSet(q) /\ c \notin ToSet(committed) /\ \A d \in Calls : c \notin ToSet(group[d])
    BY <2>1 DEF QInv, StartInv, Fresh
  <2>6. Shape'
    <3>1. Len(q) + 1 <= Capacity
      BY <2>0, <2>1, Limits
    <3>2. queue' \in [pending : Seq(Calls), bytes : Nat, leader : BOOLEAN]
      BY <2>0, <2>1, <2>4
    <3>3. pc' \in [Calls -> Leading \cup {"idle", "enqueue", "wait", "done"}]
      BY <2>1 DEF QInv, Shape, Leading
    <3>. QED  BY <2>1, <2>2, <2>4, <3>1, <3>2, <3>3 DEF QInv, Shape
  <2>7. ReservationCoversPending'
    <3>1. Total(size, Append(q, c)) = Total(size, q) + size[c]
      BY <2>0, TotalAppend
    <3>. QED  BY <2>1, <2>2, <3>1 DEF QInv, ReservationCoversPending, Members
  <2>8. PendingJobsHaveALeader'
    <3>1. CASE queue.leader
      BY <2>1, <2>2, <2>3, <3>1 DEF QInv, PendingJobsHaveALeader, Leading
    <3>2. CASE ~queue.leader
      <4>1. pc'[c] = "lock"
        BY <2>1, <3>2 DEF QInv, Shape
      <4>. QED  BY <2>2, <4>1 DEF PendingJobsHaveALeader, Leading
    <3>. QED  BY <3>1, <3>2
  <2>9. LockInv'
    BY <2>1, <2>3 DEF QInv, LockInv, Holding, WithGroup
  <2>10. OnceInv'
    BY <2>1, <2>2, <2>4, <2>5 DEF QInv, OnceInv
  <2>11. PlaceInv'
    BY <2>1, <2>2, <2>3, <2>4, <2>5 DEF QInv, PlaceInv
  <2>12. StartInv'
    BY <2>1, <2>2, <2>3, <2>4 DEF QInv, StartInv, Fresh
  <2>13. ResultInv'
    BY <2>1 DEF QInv, ResultInv
  <2>. QED  BY <2>6, <2>7, <2>8, <2>9, <2>10, <2>11, <2>12, <2>13 DEF QInv
<1>. QED  BY <1>1, <1>2

\* Publishing an outer error acknowledges no write.
LEMMA PublishedError ==
    ASSUME QInv, NEW q, NEW r \in OuterErrors
    PROVE  /\ Published(q, r) \in [Calls -> Results]
           /\ \A d \in Calls : Published(q, r)[d] = "ok" => result[d] = "ok"
<1>1. r \in Results /\ r # "ok"
  BY DEF Results, OuterErrors
<1>. QED  BY <1>1 DEF Published, QInv, Shape

\* An emptied queue: the reservation is gone and nobody needs a leader.
LEMMA EmptyQueue ==
    ASSUME QInv, UNCHANGED size,
           queue' = [pending |-> <<>>, bytes |-> 0, leader |-> FALSE]
    PROVE  /\ queue' \in [pending : Seq(Calls), bytes : Nat, leader : BOOLEAN]
           /\ queue'.pending = <<>> /\ Len(queue'.pending) <= Capacity
           /\ ToSet(queue'.pending) = {} /\ IsInjective(queue'.pending)
           /\ ReservationCoversPending'
           /\ PendingJobsHaveALeader'
<1>1. queue'.pending = <<>> /\ queue'.bytes = 0 /\ queue'.leader = FALSE
  OBVIOUS
<1>2. queue' \in [pending : Seq(Calls), bytes : Nat, leader : BOOLEAN]
  BY EmptySet
<1>3. Len(queue'.pending) <= Capacity
  BY <1>1, Limits
<1>4. ReservationCoversPending'
  <2>1. Total(size, <<>>) = 0
    BY SizeIsNat, TotalEmpty DEF QInv
  <2>. QED  BY <1>1, <2>1 DEF ReservationCoversPending, Members
<1>5. PendingJobsHaveALeader'
  BY <1>1 DEF PendingJobsHaveALeader
<1>. QED  BY <1>1, <1>2, <1>3, <1>4, <1>5, EmptySet

\* fail_pending, by a shutdown or by a leader that finds the lock poisoned.
LEMMA FailPendingInv ==
    ASSUME QInv, NEW r \in OuterErrors, FailPending(r),
           UNCHANGED <<size, returned, group, lock, committed>>,
           pc' \in [Calls -> Leading \cup {"idle", "enqueue", "wait", "done"}],
           \A d \in Calls : pc'[d] = pc[d] \/ (pc[d] = "lock" /\ pc'[d] = "wait")
    PROVE  QInv'
<1>1. /\ queue' = [pending |-> <<>>, bytes |-> 0, leader |-> FALSE]
      /\ result' \in [Calls -> Results]
      /\ \A d \in Calls : result'[d] = "ok" => result[d] = "ok"
  BY PublishedError DEF FailPending
<1>2. /\ queue' \in [pending : Seq(Calls), bytes : Nat, leader : BOOLEAN]
      /\ queue'.pending = <<>> /\ Len(queue'.pending) <= Capacity
      /\ ToSet(queue'.pending) = {} /\ IsInjective(queue'.pending)
      /\ ReservationCoversPending'
      /\ PendingJobsHaveALeader'
  BY <1>1, EmptyQueue
<1>3. Shape'
  BY <1>1, <1>2 DEF QInv, Shape
<1>4. LockInv'
  BY DEF QInv, LockInv, Holding, WithGroup
<1>5. OnceInv'
  BY <1>2 DEF QInv, OnceInv
<1>6. PlaceInv'
  BY <1>2 DEF QInv, PlaceInv
<1>7. StartInv'
  BY <1>2 DEF QInv, StartInv, Fresh
<1>8. ResultInv'
  BY <1>1 DEF QInv, ResultInv
<1>. QED  BY <1>2, <1>3, <1>4, <1>5, <1>6, <1>7, <1>8 DEF QInv

\* The second step of cancel_operations.
LEMMA CancelPendingInv ==
    ASSUME QInv, CancelPending
    PROVE  QInv'
<1>1. "unavailable" \in OuterErrors
  BY DEF OuterErrors
<1>2. /\ FailPending("unavailable") /\ UNCHANGED <<size, returned, group, lock, committed>>
      /\ pc' = pc
  BY DEF CancelPending
<1>3. pc' \in [Calls -> Leading \cup {"idle", "enqueue", "wait", "done"}]
  BY <1>2 DEF QInv, Shape
<1>. QED  BY <1>1, <1>2, <1>3, FailPendingInv

\* The leader takes the lock or finds it poisoned.
LEMMA LockInvariant ==
    ASSUME QInv, NEW c \in Calls, Lock(c)
    PROVE  QInv'
<1>1. CASE lock = "poisoned"
  <2>0. "poisoned" # "free" /\ "fatal" \in OuterErrors
    BY DEF OuterErrors
  <2>1. /\ FailPending("fatal") /\ UNCHANGED <<size, returned, group, lock, committed>>
        /\ pc' = [pc EXCEPT ![c] = "wait"] /\ pc[c] = "lock"
    BY <1>1, <2>0 DEF Lock
  <2>2. pc' \in [Calls -> Leading \cup {"idle", "enqueue", "wait", "done"}]
    BY <2>1 DEF QInv, Shape
  <2>3. \A d \in Calls : pc'[d] = pc[d] \/ (pc[d] = "lock" /\ pc'[d] = "wait")
    BY <2>1 DEF QInv, Shape
  <2>. QED  BY <2>0, <2>1, <2>2, <2>3, FailPendingInv
<1>2. CASE lock = "free"
  <2>1. /\ lock' = c /\ pc' = [pc EXCEPT ![c] = "collect"] /\ pc[c] = "lock"
        /\ UNCHANGED <<queue, result, size, returned, group, committed>>
    BY <1>2 DEF Lock
  <2>2. pc'[c] = "collect" /\ \A d \in Calls \ {c} : pc'[d] = pc[d]
    BY <2>1 DEF QInv, Shape
  <2>3. pc' \in [Calls -> Leading \cup {"idle", "enqueue", "wait", "done"}]
    BY <2>1 DEF QInv, Shape, Leading
  <2>4. Shape'
    BY <2>1, <2>3 DEF QInv, Shape
  <2>5. ReservationCoversPending'
    BY <2>1 DEF QInv, ReservationCoversPending, Members
  <2>6. PendingJobsHaveALeader'
    BY <2>1, <2>2 DEF QInv, PendingJobsHaveALeader, Leading
  <2>7. \A d \in Calls : pc[d] \notin Holding
    BY <1>2, QueueAssumption DEF QInv, LockInv
  <2>8. LockInv'
    BY <2>1, <2>2, <2>7 DEF QInv, LockInv, Holding, WithGroup
  <2>9. OnceInv' /\ ResultInv'
    BY <2>1 DEF QInv, OnceInv, ResultInv
  <2>10. PlaceInv'
    BY <2>1, <2>2 DEF QInv, PlaceInv
  <2>11. StartInv'
    BY <2>1, <2>2 DEF QInv, StartInv, Fresh
  <2>. QED  BY <2>4, <2>5, <2>6, <2>8, <2>9, <2>10, <2>11 DEF QInv
<1>. QED  BY <1>1, <1>2 DEF Lock

\* The leader of an empty queue leaves.
LEMMA LeaveInv ==
    ASSUME QInv, NEW c \in Calls, pc[c] \in {"collect", "drain"}, queue.pending = <<>>,
           LeaveQueue(c), UNCHANGED <<size, result, returned, group, committed>>
    PROVE  QInv'
<1>1. /\ lock' = "free" /\ pc' = [pc EXCEPT ![c] = "wait"]
      /\ queue' = [queue EXCEPT !.leader = FALSE]
  BY DEF LeaveQueue, StepDown
<1>2. /\ queue' \in [pending : Seq(Calls), bytes : Nat, leader : BOOLEAN]
      /\ queue'.pending = <<>> /\ queue'.bytes = queue.bytes /\ queue'.leader = FALSE
      /\ queue'.pending = queue.pending
  BY <1>1 DEF QInv, Shape
<1>3. pc'[c] = "wait" /\ \A d \in Calls \ {c} : pc'[d] = pc[d]
  BY <1>1 DEF QInv, Shape
<1>4. pc' \in [Calls -> Leading \cup {"idle", "enqueue", "wait", "done"}]
  BY <1>1 DEF QInv, Shape
<1>5. lock = c
  BY DEF QInv, LockInv, Holding
<1>6. Shape'
  BY <1>1, <1>2, <1>4 DEF QInv, Shape
<1>7. ReservationCoversPending'
  BY <1>2 DEF QInv, ReservationCoversPending, Members
<1>8. PendingJobsHaveALeader'
  BY <1>2 DEF PendingJobsHaveALeader
<1>9. \A d \in Calls \ {c} : pc[d] \notin Holding
  BY <1>5 DEF QInv, LockInv
<1>10. LockInv'
  BY <1>1, <1>3, <1>9 DEF QInv, LockInv, Holding, WithGroup
<1>11. OnceInv' /\ ResultInv'
  BY <1>2 DEF QInv, OnceInv, ResultInv
<1>12. PlaceInv'
  BY <1>2, <1>3 DEF QInv, PlaceInv
<1>13. StartInv'
  BY <1>2, <1>3 DEF QInv, StartInv, Fresh
<1>. QED  BY <1>6, <1>7, <1>8, <1>10, <1>11, <1>12, <1>13 DEF QInv

\* A step of the leader within its loop that only moves it on.
LEMMA MoveOn ==
    ASSUME QInv, NEW c \in Calls, NEW x,
           \/ pc[c] = "collect" /\ x = "drain"
           \/ pc[c] = "check" /\ x = "execute",
           pc' = [pc EXCEPT ![c] = x],
           UNCHANGED <<queue, lock, size, result, returned, group, committed>>
    PROVE  QInv'
<1>1. pc'[c] = x /\ \A d \in Calls \ {c} : pc'[d] = pc[d]
  BY DEF QInv, Shape
<1>2. pc' \in [Calls -> Leading \cup {"idle", "enqueue", "wait", "done"}]
  BY DEF QInv, Shape, Leading
<1>3. Shape'
  BY <1>2 DEF QInv, Shape
<1>4. ReservationCoversPending'
  BY DEF QInv, ReservationCoversPending, Members
<1>5. PendingJobsHaveALeader'
  BY <1>1 DEF QInv, PendingJobsHaveALeader, Leading
<1>6. LockInv'
  BY <1>1 DEF QInv, LockInv, Holding, WithGroup
<1>7. OnceInv' /\ ResultInv'
  BY DEF QInv, OnceInv, ResultInv
<1>8. PlaceInv'
  BY <1>1 DEF QInv, PlaceInv
<1>9. StartInv'
  BY <1>1 DEF QInv, StartInv, Fresh
<1>. QED  BY <1>3, <1>4, <1>5, <1>6, <1>7, <1>8, <1>9 DEF QInv

\* collect_until_full_or_timeout.
LEMMA CollectInv ==
    ASSUME QInv, NEW c \in Calls, Collect(c)
    PROVE  QInv'
<1>1. CASE queue.pending = <<>>
  BY <1>1, LeaveInv DEF Collect
<1>2. CASE queue.pending # <<>>
  BY <1>2, MoveOn DEF Collect
<1>. QED  BY <1>1, <1>2

\* drain_next_group takes at least one job and no more than there are.
LEMMA GroupLengthType ==
    ASSUME queue.pending \in Seq(Calls), queue.pending # <<>>
    PROVE  GroupLength \in 1 .. Len(queue.pending)
<1>. DEFINE S == {1} \cup {n \in 1 .. Len(queue.pending) :
                             Members(SubSeq(queue.pending, 1, n)) <= MaxMembers}
<1>1. Len(queue.pending) \in Nat \ {0}
  BY EmptySeq
<1>2. S \subseteq 1 .. Len(queue.pending) /\ S # {}
  BY <1>1
<1>3. S \subseteq 0 .. Len(queue.pending)
  BY <1>1, <1>2
<1>. HIDE DEF S
<1>4. Max(S) \in S
  BY <1>1, <1>2, <1>3, MaxBounded
<1>. QED  BY <1>2, <1>4 DEF S, GroupLength

\* drain_next_group.
LEMMA DrainInv ==
    ASSUME QInv, NEW c \in Calls, Drain(c)
    PROVE  QInv'
<1>1. CASE queue.pending = <<>>
  BY <1>1, LeaveInv DEF Drain
<1>2. CASE queue.pending # <<>>
  <2>0. PICK q : q = queue.pending
    OBVIOUS
  <2>1. PICK n : n = GroupLength
    OBVIOUS
  <2>2. q \in Seq(Calls) /\ Len(q) <= Capacity /\ Len(q) \in Nat
    BY <2>0, LenProperties DEF QInv, Shape
  <2>3. n \in 1 .. Len(q) /\ n \in 0 .. Len(q)
    BY <1>2, <2>0, <2>1, <2>2, GroupLengthType
  <2>4. PICK a : a = SubSeq(q, 1, n)
    OBVIOUS
  <2>5. PICK b : b = SubSeq(q, n + 1, Len(q))
    OBVIOUS
  <2>6. /\ a \in Seq(Calls) /\ b \in Seq(Calls) /\ Len(b) <= Len(q)
        /\ ToSet(a) \subseteq ToSet(q) /\ ToSet(b) \subseteq ToSet(q)
        /\ IsInjective(a) /\ IsInjective(b) /\ ToSet(a) \cap ToSet(b) = {}
    <3>1. IsInjective(q)
      BY <2>0 DEF QInv, OnceInv
    <3>. QED  BY <2>2, <2>3, <2>4, <2>5, <3>1, SubSeqParts
  <2>7. /\ pc[c] = "drain" /\ pc' = [pc EXCEPT ![c] = "check"]
        /\ group' = [group EXCEPT ![c] = a]
        /\ queue' = [queue EXCEPT !.pending = b, !.bytes = queue.bytes - Members(a)]
        /\ UNCHANGED <<lock, size, result, returned, node, committed>>
    BY <1>2, <2>0, <2>1, <2>4, <2>5, Zenon DEF Drain, Drained
  <2>8. Total(size, a) \in Nat /\ Total(size, b) \in Nat /\ queue.bytes - Members(a) = Total(size, b)
    <3>1. size \in [Calls -> Nat]
      BY SizeIsNat DEF QInv
    <3>2. Total(size, q) = Total(size, a) + Total(size, b)
      BY <2>2, <2>3, <2>4, <2>5, <3>1, TotalSplit
    <3>3. queue.bytes = Total(size, q) /\ Members(a) = Total(size, a)
      BY <2>0 DEF QInv, ReservationCoversPending, Members
    <3>4. Total(size, a) \in Nat /\ Total(size, b) \in Nat
      BY <2>6, <3>1, TotalType
    <3>. QED  BY <3>2, <3>3, <3>4
  <2>9. /\ queue' \in [pending : Seq(Calls), bytes : Nat, leader : BOOLEAN]
        /\ queue'.pending = b /\ queue'.bytes = Total(size, b) /\ queue'.leader = queue.leader
    BY <2>6, <2>7, <2>8 DEF QInv, Shape
  <2>10. pc'[c] = "check" /\ \A d \in Calls \ {c} : pc'[d] = pc[d]
    BY <2>7 DEF QInv, Shape
  <2>11. group'[c] = a /\ \A d \in Calls \ {c} : group'[d] = group[d]
    BY <2>7 DEF QInv, Shape
  <2>12. Shape'
    <3>1. pc' \in [Calls -> Leading \cup {"idle", "enqueue", "wait", "done"}]
      BY <2>7 DEF QInv, Shape, Leading
    <3>2. group' \in [Calls -> Seq(Calls)]
      BY <2>6, <2>7 DEF QInv, Shape
    <3>3. Len(queue'.pending) <= Capacity
      <4>1. Len(b) \in Nat /\ Capacity \in Nat
        BY <2>6, Limits, LenProperties
      <4>. QED  BY <2>2, <2>6, <2>9, <4>1
    <3>. QED  BY <2>7, <2>9, <3>1, <3>2, <3>3 DEF QInv, Shape
  <2>13. ReservationCoversPending'
    BY <2>7, <2>9 DEF ReservationCoversPending, Members
  <2>14. PendingJobsHaveALeader'
    <3>1. queue.leader
      BY <1>2 DEF QInv, PendingJobsHaveALeader
    <3>. QED  BY <2>9, <2>10, <3>1 DEF PendingJobsHaveALeader, Leading
  <2>15. \A d \in Calls \ {c} : pc[d] \notin Holding
    BY <2>7 DEF QInv, LockInv, Holding
  <2>16. LockInv'
    BY <2>7, <2>10, <2>11 DEF QInv, LockInv, Holding, WithGroup
  <2>17. OnceInv'
    BY <2>6, <2>7, <2>9, <2>11 DEF QInv, OnceInv
  <2>18. PlaceInv'
    <3>1. /\ ToSet(q) \cap ToSet(committed) = {}
          /\ \A d \in Calls : ToSet(group[d]) \cap ToSet(q) = {}
      BY <2>0 DEF QInv, PlaceInv
    <3>2. ToSet(b) \cap ToSet(committed) = {} /\ ToSet(a) \cap ToSet(committed) = {}
      BY <2>6, <3>1
    <3>3. \A d \in Calls : ToSet(group'[d]) \cap ToSet(b) = {}
      BY <2>6, <2>11, <3>1
    <3>4. \A d \in Calls : pc'[d] # "publish" => ToSet(group'[d]) \cap ToSet(committed) = {}
      BY <2>10, <2>11, <3>2 DEF QInv, PlaceInv
    <3>. QED  BY <2>7, <2>9, <3>2, <3>3, <3>4 DEF PlaceInv
  <2>19. StartInv'
    <3>1. \A d \in Calls : pc[d] \in Fresh => d \notin ToSet(q)
      BY <2>0 DEF QInv, StartInv
    <3>. QED  BY <2>6, <2>7, <2>9, <2>10, <2>11, <3>1 DEF QInv, StartInv, Fresh
  <2>20. ResultInv'
    BY <2>7 DEF QInv, ResultInv
  <2>. QED  BY <2>12, <2>13, <2>14, <2>16, <2>17, <2>18, <2>19, <2>20 DEF QInv
<1>. QED  BY <1>1, <1>2

\* Committed only grows, by jobs of the leader's group.
Grows(c) ==
    /\ committed' \in Seq(Calls) /\ IsInjective(committed')
    /\ ToSet(committed) \subseteq ToSet(committed')
    /\ ToSet(committed') \subseteq ToSet(committed) \cup ToSet(group[c])

\* A leader that fails its group leaves the queue empty and the lock free.
LEMMA GroupFailsInv ==
    ASSUME QInv, NEW c \in Calls, pc[c] \in WithGroup, NEW r \in OuterErrors,
           GroupFails(c, r), Grows(c), UNCHANGED <<size, returned>>
    PROVE  QInv'
<1>1. /\ queue' = [pending |-> <<>>, bytes |-> 0, leader |-> FALSE]
      /\ result' = Published(group[c] \o queue.pending, r)
      /\ group' = [group EXCEPT ![c] = <<>>]
      /\ lock' = "free" /\ pc' = [pc EXCEPT ![c] = "wait"]
  BY DEF GroupFails, StepDown
<1>2. /\ queue' \in [pending : Seq(Calls), bytes : Nat, leader : BOOLEAN]
      /\ queue'.pending = <<>> /\ Len(queue'.pending) <= Capacity
      /\ ToSet(queue'.pending) = {} /\ IsInjective(queue'.pending)
      /\ ReservationCoversPending'
      /\ PendingJobsHaveALeader'
  BY <1>1, EmptyQueue
<1>3. result' \in [Calls -> Results] /\ \A d \in Calls : result'[d] = "ok" => result[d] = "ok"
  BY <1>1, PublishedError
<1>4. pc'[c] = "wait" /\ \A d \in Calls \ {c} : pc'[d] = pc[d]
  BY <1>1 DEF QInv, Shape
<1>5. group'[c] = <<>> /\ \A d \in Calls \ {c} : group'[d] = group[d]
  BY <1>1 DEF QInv, Shape
<1>6. \A d \in Calls \ {c} : pc[d] \notin Holding /\ group[d] = <<>>
  BY DEF QInv, LockInv, Holding
<1>7. Shape'
  <2>1. pc' \in [Calls -> Leading \cup {"idle", "enqueue", "wait", "done"}]
    BY <1>1 DEF QInv, Shape
  <2>2. group' \in [Calls -> Seq(Calls)]
    BY <1>1, EmptySet DEF QInv, Shape
  <2>. QED  BY <1>1, <1>2, <1>3, <2>1, <2>2 DEF QInv, Shape, Grows
<1>8. LockInv'
  BY <1>1, <1>4, <1>5, <1>6 DEF LockInv, Holding, WithGroup
<1>9. \A d \in Calls : group'[d] = <<>>
  BY <1>5, <1>6
<1>10. OnceInv'
  BY <1>2, <1>9, EmptySet DEF OnceInv, Grows
<1>11. PlaceInv'
  BY <1>2, <1>9, EmptySet DEF PlaceInv
<1>12. StartInv'
  BY <1>2, <1>4, <1>9, EmptySet DEF QInv, StartInv, Fresh, Grows
<1>13. ResultInv'
  BY <1>3 DEF QInv, ResultInv, Grows
<1>. QED  BY <1>2, <1>7, <1>8, <1>10, <1>11, <1>12, <1>13 DEF QInv

\* A step that commits nothing.
LEMMA GrowsNothing ==
    ASSUME QInv, NEW c \in Calls, UNCHANGED committed
    PROVE  Grows(c)
BY DEF QInv, Shape, OnceInv, Grows

\* The checks before execution.
LEMMA PrecheckInv ==
    ASSUME QInv, NEW c \in Calls, Precheck(c)
    PROVE  QInv'
<1>1. CASE node.fatal \/ node.inactive \/ node.cancelled
  <2>1. PICK r : r = IF node.fatal THEN "fatal" ELSE "unavailable"
    OBVIOUS
  <2>2. /\ r \in OuterErrors /\ GroupFails(c, r) /\ UNCHANGED <<size, returned, committed>>
        /\ pc[c] \in WithGroup
    BY <1>1, <2>1 DEF Precheck, OuterErrors, WithGroup
  <2>. QED  BY <2>2, GroupFailsInv, GrowsNothing
<1>2. CASE ~(node.fatal \/ node.inactive \/ node.cancelled)
  BY <1>2, MoveOn DEF Precheck
<1>. QED  BY <1>1, <1>2

\* The execution of a group.
LEMMA ExecuteInv ==
    ASSUME QInv, NEW c \in Calls, Execute(c)
    PROVE  QInv'
<1>0. pc[c] = "execute" /\ pc[c] \in WithGroup /\ UNCHANGED <<size, returned>>
  BY DEF Execute, WithGroup
<1>1. PICK n \in 0 .. Len(group[c]) : committed' = committed \o SubSeq(group[c], 1, n)
  BY DEF Execute
<1>2. Grows(c)
  <2>1. PICK a : a = SubSeq(group[c], 1, n)
    OBVIOUS
  <2>2. group[c] \in Seq(Calls) /\ IsInjective(group[c])
    BY DEF QInv, Shape, OnceInv
  <2>3. a \in Seq(Calls) /\ ToSet(a) \subseteq ToSet(group[c]) /\ IsInjective(a)
    BY <2>1, <2>2, SubSeqParts
  <2>4. ToSet(group[c]) \cap ToSet(committed) = {}
    BY <1>0 DEF QInv, PlaceInv
  <2>5. committed \in Seq(Calls) /\ IsInjective(committed) /\ committed' = committed \o a
    BY <1>1, <2>1 DEF QInv, Shape, OnceInv
  <2>6. ToSet(committed) \cap ToSet(a) = {}
    BY <2>3, <2>4
  <2>7. /\ committed' \in Seq(Calls) /\ IsInjective(committed')
        /\ ToSet(committed') = ToSet(committed) \cup ToSet(a)
    BY <2>3, <2>5, <2>6, ConcatSet
  <2>. QED  BY <2>3, <2>7 DEF Grows
<1>3. CASE GroupFails(c, "fatal")
  <2>1. "fatal" \in OuterErrors
    BY DEF OuterErrors
  <2>. QED  BY <1>0, <1>2, <1>3, <2>1, GroupFailsInv
<1>4. CASE pc' = [pc EXCEPT ![c] = "publish"] /\ UNCHANGED <<queue, result, group, lock>>
  <2>1. pc'[c] = "publish" /\ \A d \in Calls \ {c} : pc'[d] = pc[d]
    BY <1>4 DEF QInv, Shape
  <2>2. Shape'
    <3>1. pc' \in [Calls -> Leading \cup {"idle", "enqueue", "wait", "done"}]
      BY <1>4 DEF QInv, Shape, Leading
    <3>. QED  BY <1>0, <1>2, <1>4, <3>1 DEF QInv, Shape, Grows
  <2>3. ReservationCoversPending'
    BY <1>0, <1>4 DEF QInv, ReservationCoversPending, Members
  <2>4. PendingJobsHaveALeader'
    BY <1>4, <2>1 DEF QInv, PendingJobsHaveALeader, Leading
  <2>5. LockInv'
    BY <1>0, <1>4, <2>1 DEF QInv, LockInv, Holding, WithGroup
  <2>6. OnceInv'
    BY <1>2, <1>4 DEF QInv, OnceInv, Grows
  <2>7. \A d \in Calls \ {c} : group[d] = <<>>
    BY <1>0 DEF QInv, LockInv, Holding
  <2>8. PlaceInv'
    <3>1. ToSet(queue.pending) \cap ToSet(committed') = {}
      BY <1>2 DEF QInv, PlaceInv, Grows
    <3>2. \A d \in Calls : pc'[d] # "publish" => ToSet(group[d]) = {}
      BY <2>1, <2>7, EmptySet
    <3>. QED  BY <1>4, <3>1, <3>2 DEF QInv, PlaceInv
  <2>9. StartInv'
    BY <1>0, <1>2, <1>4, <2>1 DEF QInv, StartInv, Fresh, Grows
  <2>10. ResultInv'
    BY <1>0, <1>2, <1>4 DEF QInv, ResultInv, Grows
  <2>. QED  BY <2>2, <2>3, <2>4, <2>5, <2>6, <2>8, <2>9, <2>10 DEF QInv
<1>. QED  BY <1>3, <1>4 DEF Execute

\* The publication of a group's results.
LEMMA PublishInv ==
    ASSUME QInv, NEW c \in Calls, Publish(c)
    PROVE  QInv'
<1>0. /\ pc[c] = "publish" /\ pc[c] \in WithGroup
      /\ UNCHANGED <<size, returned, committed>> /\ Grows(c)
  BY GrowsNothing DEF Publish, WithGroup
<1>1. CASE GroupFails(c, "unavailable") \/ GroupFails(c, "fatal")
  <2>1. {"unavailable", "fatal"} \subseteq OuterErrors
    BY DEF OuterErrors
  <2>. QED  BY <1>0, <1>1, <2>1, GroupFailsInv
<1>2. CASE /\ result' = MemberResults(c)
           /\ group' = [group EXCEPT ![c] = <<>>]
           /\ pc' = [pc EXCEPT ![c] = "collect"]
           /\ UNCHANGED <<queue, lock>>
  <2>1. pc'[c] = "collect" /\ \A d \in Calls \ {c} : pc'[d] = pc[d]
    BY <1>2 DEF QInv, Shape
  <2>2. group'[c] = <<>> /\ \A d \in Calls \ {c} : group'[d] = group[d]
    BY <1>2 DEF QInv, Shape
  <2>3. /\ result' \in [Calls -> Results]
        /\ \A d \in Calls : result'[d] = "ok" => result[d] = "ok" \/ d \in ToSet(committed)
    BY <1>2 DEF QInv, Shape, MemberResults, Results
  <2>4. \A d \in Calls \ {c} : group[d] = <<>>
    BY <1>0 DEF QInv, LockInv, Holding
  <2>5. Shape'
    <3>1. pc' \in [Calls -> Leading \cup {"idle", "enqueue", "wait", "done"}]
      BY <1>2 DEF QInv, Shape, Leading
    <3>2. group' \in [Calls -> Seq(Calls)]
      BY <1>2, EmptySet DEF QInv, Shape
    <3>. QED  BY <1>0, <1>2, <2>3, <3>1, <3>2 DEF QInv, Shape
  <2>6. ReservationCoversPending'
    BY <1>0, <1>2 DEF QInv, ReservationCoversPending, Members
  <2>7. PendingJobsHaveALeader'
    BY <1>2, <2>1 DEF QInv, PendingJobsHaveALeader, Leading
  <2>8. LockInv'
    BY <1>0, <1>2, <2>1, <2>2 DEF QInv, LockInv, Holding, WithGroup
  <2>9. \A d \in Calls : group'[d] = <<>>
    BY <2>2, <2>4
  <2>10. OnceInv'
    BY <1>0, <1>2, <2>9, EmptySet DEF QInv, OnceInv
  <2>11. PlaceInv'
    BY <1>0, <1>2, <2>9, EmptySet DEF QInv, PlaceInv
  <2>12. StartInv'
    BY <1>0, <1>2, <2>1, <2>9, EmptySet DEF QInv, StartInv, Fresh
  <2>13. ResultInv'
    BY <1>0, <2>3 DEF QInv, ResultInv
  <2>. QED  BY <2>5, <2>6, <2>7, <2>8, <2>10, <2>11, <2>12, <2>13 DEF QInv
<1>. QED  BY <1>1, <1>2 DEF Publish

\* Flags, the poisoning of a free lock and stuttering leave the queue alone.
LEMMA AloneInv ==
    ASSUME QInv, UNCHANGED <<pc, size, result, returned, group, queue, committed>>,
           lock' = lock \/ (lock = "free" /\ lock' = "poisoned")
    PROVE  QInv'
<1>1. Shape'
  BY DEF QInv, Shape
<1>2. ReservationCoversPending'
  BY DEF QInv, ReservationCoversPending, Members
<1>3. LockInv'
  BY QueueAssumption DEF QInv, LockInv
<1>4. PendingJobsHaveALeader' /\ OnceInv' /\ PlaceInv' /\ StartInv' /\ ResultInv'
  BY DEF QInv, PendingJobsHaveALeader, OnceInv, PlaceInv, StartInv, ResultInv
<1>. QED  BY <1>1, <1>2, <1>3, <1>4 DEF QInv

\* Every step keeps the invariant.
LEMMA NextInv == QInv /\ [Next]_vars => QInv'
<1>. SUFFICES ASSUME QInv, [Next]_vars PROVE QInv'
  OBVIOUS
<1>1. ASSUME NEW c \in Calls,
             Check(c) \/ Enqueue(c) \/ Leader(c) \/ Return(c) \/ GiveUp(c)
      PROVE  QInv'
  BY <1>1, CheckInv, EnqueueInv, ReturnInv, LockInvariant, CollectInv, DrainInv,
     PrecheckInv, ExecuteInv, PublishInv DEF Leader
<1>2. CASE Cancel \/ Disturb \/ UNCHANGED vars
  BY <1>2, AloneInv DEF Cancel, Disturb, vars
<1>3. CASE CancelPending
  BY <1>3, CancelPendingInv
<1>. QED  BY <1>1, <1>2, <1>3 DEF Next

\* The invariant always holds.
LEMMA Invariance == Spec => []QInv
BY InitInv, NextInv, PTL DEF Spec

-----------------------------------------------------------------------------
(* Theorems *)

\* QueueConsistent for any number of callers and any limits: the queue never
\* outgrows its capacity, enqueue's and drain_next_group's running byte count is
\* always the sum over exactly the queued jobs, and while a job is queued some
\* caller leads.
THEOREM QueueConsistentHolds == Spec => []QueueConsistent
<1>1. QInv => QueueConsistent
  <2>. SUFFICES ASSUME QInv PROVE QueueConsistent
    OBVIOUS
  <2>1. queue.pending \in Seq(Calls)
    BY DEF QInv, Shape
  <2>2. ToSet(queue.pending) \subseteq Calls
    BY <2>1, SetType
  <2>3. TypeOK
    BY <2>2 DEF QInv, Shape, TypeOK
  <2>. QED  BY <2>3 DEF QInv, QueueConsistent
<1>. QED  BY <1>1, Invariance, PTL

\* ExecutedOnceAsReported for any number of callers: no job is drained or
\* committed twice, also with two registered leaders, and a caller that gets
\* the results of its members has a committed write.
THEOREM ExecutedOnceHolds == Spec => []ExecutedOnceAsReported
<1>1. QInv => ExecutedOnceAsReported
  <2>. SUFFICES ASSUME QInv PROVE ExecutedOnceAsReported
    OBVIOUS
  <2>1. \A c, d \in Calls : c # d => group[c] = <<>> \/ group[d] = <<>>
    BY DEF QInv, LockInv, Holding
  <2>2. \A c, d \in Calls : c # d => ToSet(group[c]) \cap ToSet(group[d]) = {}
    BY <2>1, EmptySet
  <2>3. EachJobExecutedOnce
    BY <2>2 DEF QInv, OnceInv, PlaceInv, EachJobExecutedOnce
  <2>4. AcknowledgedIsCommitted
    BY DEF QInv, ResultInv, AcknowledgedIsCommitted
  <2>. QED  BY <2>3, <2>4 DEF ExecutedOnceAsReported
<1>. QED  BY <1>1, Invariance, PTL


=============================================================================
