---------------------------- MODULE ContextProofs -----------------------------
(***************************************************************************)
(* The inductive invariants of the two modules that choose what a model's  *)
(* context shows, and the theorems that follow from them. RepoMap: for any *)
(* files, texts and orders, any limits and any number of edits and         *)
(* refreshes. Compaction: for any sizes, any number of calls in a turn,    *)
(* any room for the history and any length of the log.                     *)
(*                                                                         *)
(* The lemmas about sequences come first; InOrder, the selection that both *)
(* modules make, is treated once. Compaction's invariant says of the       *)
(* history in use that its facts are in order and its turns whole, that    *)
(* what it lacks is older than what it has and is covered by exactly one   *)
(* summary, and that what a summary replaced was read for it, was the      *)
(* task's own message or is repeated elsewhere; and of a prompt that it    *)
(* shows a recent part of that history in whole turns.                     *)
(***************************************************************************)
EXTENDS RepoMap, Compaction, FiniteSetTheorems, WellFoundedInduction, TLAPS

-----------------------------------------------------------------------------
(* Numbers and recursion *)

\* Among some naturals one is the least.
LEMMA LeastOfNaturals ==
    ASSUME NEW T, T \subseteq Nat, T # {}
    PROVE  \E x \in T : \A y \in T : x <= y
<1>1. PICK x \in T : \A y \in T : ~(<<y, x>> \in OpToRel(<, Nat))
  BY NatLessThanWellFounded, WFMin
<1>2. \A y \in T : ~(y < x)
  BY <1>1 DEF OpToRel
<1>. QED
  BY <1>2

\* The next number up to N.
LEMMA NextUpTo ==
    ASSUME NEW N \in Nat, NEW n \in 0 .. N, n + 1 <= N
    PROVE  n + 1 \in 1 .. N /\ n + 1 \in 0 .. N /\ (n + 1) - 1 = n /\ n \in Nat
OBVIOUS

\* A set that has 0 and with a number the next one, up to N, has all up to N.
LEMMA UpTo ==
    ASSUME NEW N \in Nat, NEW T, 0 \in T, \A n \in 0 .. N : n \in T /\ n + 1 <= N => n + 1 \in T
    PROVE  0 .. N \subseteq T
<1>. DEFINE Missing == (0 .. N) \ T
<1>1. SUFFICES Missing # {} => FALSE
  OBVIOUS
<1>2. HAVE Missing # {}
<1>3. PICK k \in Missing : \A m \in Missing : k <= m
  <2>1. Missing \subseteq Nat
    OBVIOUS
  <2>. HIDE DEF Missing
  <2>. QED  BY <1>2, <2>1, LeastOfNaturals
<1>4. k \in 0 .. N /\ k # 0 /\ k - 1 \in 0 .. N
  OBVIOUS
<1>5. k - 1 \in T
  BY <1>3, <1>4
<1>6. (k - 1) + 1 = k /\ (k - 1) + 1 <= N
  BY <1>4
<1>. QED
  BY <1>4, <1>5, <1>6

\* f is what a recursion from a by step yields up to N.
Unfolds(f, N, a, step) == f[0] = a /\ \A n \in 1 .. N : f[n] = step[<<f[n - 1], n>>]

\* Every recursion over the numbers up to N has a solution.
LEMMA Recursion ==
    ASSUME NEW N \in Nat, NEW T, NEW a \in T, NEW step \in [T \X (1 .. N) -> T]
    PROVE  \E f \in [0 .. N -> T] : Unfolds(f, N, a, step)
<1>. DEFINE Solved == {n \in 0 .. N : \E f \in [0 .. n -> T] : Unfolds(f, n, a, step)}
<1>1. 0 \in Solved
  <2>. DEFINE f == [i \in 0 .. 0 |-> a]
  <2>1. f \in [0 .. 0 -> T] /\ Unfolds(f, 0, a, step)
    BY DEF Unfolds
  <2>. HIDE DEF f
  <2>. QED  BY <2>1
<1>2. ASSUME NEW n \in 0 .. N, n \in Solved, n + 1 <= N PROVE n + 1 \in Solved
  <2>1. PICK f \in [0 .. n -> T] : Unfolds(f, n, a, step)
    BY <1>2
  <2>. DEFINE x == step[<<f[n], n + 1>>]
              g == [i \in 0 .. n + 1 |-> IF i = n + 1 THEN x ELSE f[i]]
  <2>2. n \in Nat /\ n + 1 \in 1 .. N /\ n + 1 \in 0 .. N
    BY <1>2
  <2>3. x \in T
    <3>1. f[n] \in T
      BY <2>2
    <3>2. <<f[n], n + 1>> \in T \X (1 .. N)
      BY <2>2, <3>1
    <3>. QED  BY <3>2
  <2>. HIDE DEF x
  <2>4. /\ g[n + 1] = x
        /\ \A i \in 0 .. n : g[i] = f[i]
    BY <2>2
  <2>5. g \in [0 .. n + 1 -> T]
    BY <2>2, <2>3
  <2>. HIDE DEF g
  <2>6. g[0] = a
    BY <2>1, <2>2, <2>4 DEF Unfolds
  <2>7. ASSUME NEW m \in 1 .. n + 1 PROVE g[m] = step[<<g[m - 1], m>>]
    <3>1. m - 1 \in 0 .. n /\ g[m - 1] = f[m - 1]
      BY <2>2, <2>4
    <3>2. CASE m = n + 1
      <4>1. m - 1 = n
        BY <2>2, <3>2
      <4>. QED  BY <2>4, <3>1, <3>2, <4>1 DEF x
    <3>3. CASE m # n + 1
      <4>1. m \in 1 .. n /\ m \in 0 .. n
        BY <2>2, <3>3
      <4>. QED  BY <2>1, <2>4, <3>1, <4>1 DEF Unfolds
    <3>. QED  BY <3>2, <3>3
  <2>8. Unfolds(g, n + 1, a, step)
    BY <2>6, <2>7 DEF Unfolds
  <2>. QED  BY <2>2, <2>5, <2>8
<1>3. N \in Solved
  <2>. HIDE DEF Solved
  <2>1. 0 .. N \subseteq Solved
    BY <1>1, <1>2, UpTo
  <2>. QED  BY <2>1
<1>. QED
  BY <1>3

-----------------------------------------------------------------------------
(* Sequences *)

Distinct(s) == \A i, j \in DOMAIN s : s[i] = s[j] => i = j

\* The recursion of InOrder.
Keeps(f, order, S) ==
    f = [n \in 0 .. Len(order) |->
            IF n = 0 THEN <<>>
            ELSE IF order[n] \in S THEN Append(f[n - 1], order[n]) ELSE f[n - 1]]

LEMMA InOrderUnfolds ==
    ASSUME NEW T, NEW order \in Seq(T), NEW S
    PROVE  \E f : Keeps(f, order, S) /\ InOrder(order, S) = f[Len(order)]
<1>. DEFINE N == Len(order)
            step == [p \in Seq(T) \X (1 .. N) |->
                        IF order[p[2]] \in S THEN Append(p[1], order[p[2]]) ELSE p[1]]
<1>1. N \in Nat /\ \A n \in 1 .. N : order[n] \in T
  OBVIOUS
<1>2. step \in [Seq(T) \X (1 .. N) -> Seq(T)]
  BY <1>1
<1>3. \A q \in Seq(T), n \in 1 .. N :
          step[<<q, n>>] = IF order[n] \in S THEN Append(q, order[n]) ELSE q
  OBVIOUS
<1>4. PICK f \in [0 .. N -> Seq(T)] : Unfolds(f, N, <<>>, step)
  <2>1. <<>> \in Seq(T)
    OBVIOUS
  <2>. HIDE DEF step, N
  <2>. QED  BY <1>1, <1>2, <2>1, Recursion
<1>. HIDE DEF step
<1>5. ASSUME NEW n \in 0 .. N
      PROVE  f[n] = IF n = 0 THEN <<>>
                    ELSE IF order[n] \in S THEN Append(f[n - 1], order[n]) ELSE f[n - 1]
  <2>1. CASE n = 0
    BY <1>4, <2>1 DEF Unfolds
  <2>2. CASE n # 0
    <3>1. n \in 1 .. N /\ n - 1 \in 0 .. N
      BY <1>1, <2>2
    <3>2. f[n - 1] \in Seq(T)
      BY <3>1
    <3>3. f[n] = step[<<f[n - 1], n>>]
      BY <1>4, <3>1 DEF Unfolds
    <3>. QED  BY <1>3, <2>2, <3>1, <3>2, <3>3
  <2>. QED  BY <2>1, <2>2
<1>6. f = [n \in 0 .. N |-> f[n]]
  OBVIOUS
<1>7. Keeps(f, order, S)
  BY <1>5, <1>6 DEF Keeps
<1>8. InOrder(order, S) = (CHOOSE g : Keeps(g, order, S))[Len(order)]
  BY DEF InOrder, Keeps
<1>9. Keeps(CHOOSE g : Keeps(g, order, S), order, S)
  <2>. HIDE DEF Keeps
  <2>. QED  BY <1>7, Zenon
<1>. QED
  BY <1>8, <1>9

\* The members of an order that are in S, each once, and nothing else.
LEMMA InOrderFacts ==
    ASSUME NEW T, NEW order \in Seq(T), Distinct(order), NEW S
    PROVE  /\ InOrder(order, S) \in Seq(T)
           /\ ToSet(InOrder(order, S)) = ToSet(order) \cap S
           /\ Distinct(InOrder(order, S))
<1>. DEFINE N == Len(order)
            Right(q, n) == /\ q \in Seq(T)
                           /\ ToSet(q) = {order[i] : i \in 1 .. n} \cap S
                           /\ Distinct(q)
<1>1. PICK f : Keeps(f, order, S) /\ InOrder(order, S) = f[N]
  BY InOrderUnfolds
<1>2. N \in Nat /\ DOMAIN order = 1 .. N /\ \A n \in 1 .. N : order[n] \in T
  OBVIOUS
<1>3. \A n \in 0 .. N :
          f[n] = IF n = 0 THEN <<>>
                 ELSE IF order[n] \in S THEN Append(f[n - 1], order[n]) ELSE f[n - 1]
  BY <1>1 DEF Keeps
<1>. DEFINE Good == {n \in 0 .. N : Right(f[n], n)}
<1>4. 0 \in Good
  <2>1. f[0] = <<>>
    BY <1>2, <1>3
  <2>. DEFINE q == <<>>
  <2>2. DOMAIN q = {} /\ q \in Seq(T)
    OBVIOUS
  <2>. HIDE DEF q
  <2>3. ToSet(q) = {} /\ Distinct(q)
    BY <2>2 DEF ToSet, Distinct
  <2>4. {order[i] : i \in 1 .. 0} = {}
    OBVIOUS
  <2>5. f[0] = q /\ 0 \in 0 .. N
    BY <1>2, <2>1 DEF q
  <2>6. Right(q, 0)
    BY <2>2, <2>3, <2>4
  <2>. HIDE DEF Right
  <2>. QED  BY <2>5, <2>6
<1>5. ASSUME NEW n \in 0 .. N, n \in Good, n + 1 <= N PROVE n + 1 \in Good
  <2>1. n + 1 \in 1 .. N /\ n + 1 \in 0 .. N /\ n + 1 # 0 /\ (n + 1) - 1 = n /\ n \in Nat
    BY <1>2, <1>5
  <2>2. f[n + 1] = IF order[n + 1] \in S THEN Append(f[n], order[n + 1]) ELSE f[n]
    BY <1>3, <2>1
  <2>3. f[n] \in Seq(T) /\ ToSet(f[n]) = {order[i] : i \in 1 .. n} \cap S /\ Distinct(f[n])
    BY <1>5
  <2>4. {order[i] : i \in 1 .. n + 1} = {order[i] : i \in 1 .. n} \cup {order[n + 1]}
    BY <2>1
  <2>5. CASE order[n + 1] \notin S
    BY <2>1, <2>2, <2>3, <2>4, <2>5
  <2>6. CASE order[n + 1] \in S
    <3>. DEFINE q == f[n]
                x == order[n + 1]
                r == Append(q, x)
    <3>1. x \in T /\ x \notin ToSet(q)
      <4>1. \A i \in 1 .. n : order[i] # order[n + 1]
        BY <1>2, <2>1 DEF Distinct
      <4>. QED  BY <1>2, <2>1, <2>3, <4>1
    <3>. HIDE DEF q, x
    <3>2. q \in Seq(T)
      BY <2>3 DEF q
    <3>3. /\ r \in Seq(T) /\ Len(q) \in Nat /\ DOMAIN q = 1 .. Len(q)
          /\ DOMAIN r = 1 .. Len(q) + 1
          /\ r[Len(q) + 1] = x /\ \A i \in 1 .. Len(q) : r[i] = q[i]
      BY <3>1, <3>2
    <3>. HIDE DEF r
    <3>4. ToSet(r) = ToSet(q) \cup {x}
      BY <3>3 DEF ToSet
    <3>5. \A i \in 1 .. Len(q) : q[i] # x
      BY <3>1, <3>3 DEF ToSet
    <3>6. Distinct(q)
      BY <2>3 DEF q
    <3>7. Distinct(r)
      <4>. SUFFICES ASSUME NEW i \in 1 .. Len(q) + 1, NEW j \in 1 .. Len(q) + 1, r[i] = r[j]
                    PROVE  i = j
        BY <3>3 DEF Distinct
      <4>1. CASE i \in 1 .. Len(q) /\ j \in 1 .. Len(q)
        BY <3>3, <3>6, <4>1 DEF Distinct
      <4>2. CASE i = Len(q) + 1 /\ j \in 1 .. Len(q)
        BY <3>3, <3>5, <4>2
      <4>3. CASE i \in 1 .. Len(q) /\ j = Len(q) + 1
        BY <3>3, <3>5, <4>3
      <4>. QED  BY <3>3, <4>1, <4>2, <4>3
    <3>8. f[n + 1] = r
      BY <2>2, <2>6 DEF r, q, x
    <3>9. ToSet(r) = {order[i] : i \in 1 .. n + 1} \cap S
      BY <2>3, <2>4, <2>6, <3>4 DEF q, x
    <3>. QED  BY <2>1, <3>3, <3>7, <3>8, <3>9
  <2>. QED  BY <2>5, <2>6
<1>6. N \in Good
  <2>. HIDE DEF Good
  <2>1. 0 .. N \subseteq Good
    BY <1>2, <1>4, <1>5, UpTo, Zenon
  <2>. QED  BY <1>2, <2>1
<1>7. {order[i] : i \in 1 .. N} = ToSet(order)
  BY <1>2 DEF ToSet
<1>. QED
  BY <1>1, <1>6, <1>7

\* A part of a sequence.
LEMMA Section ==
    ASSUME NEW T, NEW s \in Seq(T), NEW k \in Nat, k <= Len(s)
    PROVE  /\ SubSeq(s, 1, k) \in Seq(T)
           /\ Len(SubSeq(s, 1, k)) = k
           /\ \A i \in 1 .. k : SubSeq(s, 1, k)[i] = s[i]
<1>1. Len(s) \in Nat /\ DOMAIN s = 1 .. Len(s)
  OBVIOUS
<1>2. \A i \in 1 .. k : s[i] \in T /\ i \in 1 .. Len(s)
  BY <1>1
<1>3. SubSeq(s, 1, k) \in Seq(T)
  BY <1>1, <1>2
<1>4. Len(SubSeq(s, 1, k)) = k
  BY <1>1
<1>5. \A i \in 1 .. k : SubSeq(s, 1, k)[i] = s[i]
  BY <1>1, <1>2
<1>. QED
  BY <1>3, <1>4, <1>5

\* The beginning of a sequence of distinct files.
LEMMA BeginningFacts ==
    ASSUME NEW s \in Seq(Files), Distinct(s), NEW k \in Nat, k <= Len(s)
    PROVE  /\ SubSeq(s, 1, k) \in Seq(Files)
           /\ Len(SubSeq(s, 1, k)) = k
           /\ ToSet(SubSeq(s, 1, k)) \subseteq ToSet(s)
           /\ Distinct(SubSeq(s, 1, k))
           /\ k = Len(s) => SubSeq(s, 1, k) = s
<1>1. PICK q : q = SubSeq(s, 1, k)
  OBVIOUS
<1>2. q \in Seq(Files) /\ Len(q) = k /\ \A i \in 1 .. k : q[i] = s[i]
  BY <1>1, Section, Zenon
<1>3. DOMAIN s = 1 .. Len(s) /\ Len(s) \in Nat /\ DOMAIN q = 1 .. k
  BY <1>2
<1>4. \A i \in 1 .. k : i \in 1 .. Len(s)
  BY <1>3
<1>5. ToSet(q) \subseteq ToSet(s)
  BY <1>2, <1>3, <1>4 DEF ToSet
<1>6. Distinct(q)
  BY <1>2, <1>3, <1>4 DEF Distinct
<1>7. k = Len(s) => q = s
  BY <1>2, <1>3
<1>. QED
  BY <1>1, <1>2, <1>5, <1>6, <1>7, Zenon

LEMMA FirstFacts ==
    ASSUME NEW s \in Seq(Files), Distinct(s), NEW n \in Nat
    PROVE  /\ First(n, s) \in Seq(Files)
           /\ ToSet(First(n, s)) \subseteq ToSet(s)
           /\ Distinct(First(n, s))
           /\ Len(First(n, s)) <= n
           /\ Len(s) <= n => First(n, s) = s
<1>1. PICK k : k = IF Len(s) < n THEN Len(s) ELSE n
  OBVIOUS
<1>2. Len(s) \in Nat
  OBVIOUS
<1>3. k \in Nat /\ k <= Len(s) /\ k <= n /\ (Len(s) <= n => k = Len(s))
  BY <1>1, <1>2
<1>4. First(n, s) = SubSeq(s, 1, k)
  BY <1>1 DEF First
<1>5. /\ First(n, s) \in Seq(Files) /\ Len(First(n, s)) = k
      /\ ToSet(First(n, s)) \subseteq ToSet(s) /\ Distinct(First(n, s))
      /\ k = Len(s) => First(n, s) = s
  BY <1>3, <1>4, BeginningFacts, Zenon
<1>. QED
  BY <1>3, <1>5

\* As many files as places, when they are distinct.
LEMMA CountOfDistinct ==
    ASSUME NEW T, NEW s \in Seq(T), Distinct(s)
    PROVE  IsFiniteSet(ToSet(s)) /\ Cardinality(ToSet(s)) = Len(s)
<1>1. Len(s) \in Nat /\ DOMAIN s = 1 .. Len(s)
  OBVIOUS
<1>. DEFINE N == Len(s)
            f == [i \in 1 .. N |-> s[i]]
<1>2. f \in Bijection(1 .. N, ToSet(s))
  BY <1>1 DEF Bijection, Injection, Surjection, IsInjective, ToSet, Distinct
<1>. HIDE DEF f
<1>3. ExistsBijection(1 .. N, ToSet(s))
  BY <1>2 DEF ExistsBijection
<1>. HIDE DEF N
<1>4. IsFiniteSet(1 .. N) /\ Cardinality(1 .. N) = N
  <2>1. N \in Int /\ 1 \in Int /\ N - 1 + 1 = N /\ (1 > N => N = 0)
    BY <1>1 DEF N
  <2>. QED  BY <2>1, FS_Interval
<1>5. IsFiniteSet(ToSet(s)) /\ Cardinality(ToSet(s)) = Cardinality(1 .. N)
  BY <1>3, <1>4, FS_Bijection
<1>. QED
  BY <1>4, <1>5 DEF N

LEMMA TailFacts ==
    ASSUME NEW s \in Seq(Files), Distinct(s), s # <<>>
    PROVE  /\ Head(s) \in Files /\ Tail(s) \in Seq(Files) /\ Distinct(Tail(s))
           /\ ToSet(s) = {Head(s)} \cup ToSet(Tail(s)) /\ Head(s) \notin ToSet(Tail(s))
<1>1. /\ Len(s) \in Nat /\ Len(s) >= 1 /\ DOMAIN s = 1 .. Len(s)
      /\ \A i \in 1 .. Len(s) : s[i] \in Files
  OBVIOUS
<1>2. PICK t : t = Tail(s)
  OBVIOUS
<1>3. t \in Seq(Files) /\ Len(t) = Len(s) - 1
  BY <1>1, <1>2
<1>4. \A i \in 1 .. Len(s) - 1 : t[i] = s[i + 1]
  BY <1>1, <1>2
<1>5. DOMAIN t = 1 .. Len(s) - 1
  BY <1>1, <1>3
<1>6. PICK h : h = s[1]
  OBVIOUS
<1>7. Head(s) = h /\ h \in Files /\ 1 \in 1 .. Len(s)
  BY <1>1, <1>6
<1>8. ToSet(s) = {h} \cup ToSet(t)
  <2>1. ASSUME NEW i \in 1 .. Len(s) PROVE s[i] \in {h} \cup ToSet(t)
    <3>1. CASE i = 1
      BY <1>6, <3>1
    <3>2. CASE i # 1
      <4>1. i - 1 \in 1 .. Len(s) - 1 /\ (i - 1) + 1 = i
        BY <1>1, <3>2
      <4>2. t[i - 1] = s[i]
        BY <1>4, <4>1
      <4>. QED  BY <1>5, <4>1, <4>2 DEF ToSet
    <3>. QED  BY <3>1, <3>2
  <2>2. ASSUME NEW i \in 1 .. Len(s) - 1 PROVE t[i] \in ToSet(s)
    <3>1. i + 1 \in 1 .. Len(s)
      BY <1>1
    <3>. QED  BY <1>1, <1>4, <3>1 DEF ToSet
  <2>. QED  BY <1>1, <1>5, <1>6, <1>7, <2>1, <2>2 DEF ToSet
<1>9. ASSUME NEW i \in 1 .. Len(s) - 1 PROVE t[i] # h
  <2>1. i + 1 \in 1 .. Len(s) /\ i + 1 # 1
    BY <1>1
  <2>. QED  BY <1>1, <1>4, <1>6, <1>7, <2>1 DEF Distinct
<1>10. Distinct(t)
  <2>. SUFFICES ASSUME NEW i \in 1 .. Len(s) - 1, NEW j \in 1 .. Len(s) - 1, t[i] = t[j]
                PROVE  i = j
    BY <1>5 DEF Distinct
  <2>1. i + 1 \in 1 .. Len(s) /\ j + 1 \in 1 .. Len(s)
    BY <1>1
  <2>2. i + 1 = j + 1
    BY <1>1, <1>4, <2>1 DEF Distinct
  <2>. QED  BY <2>2
<1>11. h \notin ToSet(t)
  BY <1>5, <1>9 DEF ToSet
<1>. QED
  BY <1>2, <1>3, <1>7, <1>8, <1>10, <1>11

\* An order that is as long as there are files has each of them once.
LEMMA OrderIsDistinct ==
    ASSUME NEW s \in Seq(Files), ToSet(s) = Files, Len(s) = Cardinality(Files)
    PROVE  Distinct(s) /\ IsFiniteSet(Files)
<1>1. Len(s) \in Nat /\ DOMAIN s = 1 .. Len(s)
  OBVIOUS
<1>. DEFINE N == Len(s)
            f == [i \in 1 .. N |-> s[i]]
<1>2. f \in Surjection(1 .. N, Files)
  BY <1>1 DEF Surjection, ToSet
<1>3. \A i \in 1 .. N : f[i] = s[i]
  OBVIOUS
<1>. HIDE DEF f
<1>4. IsFiniteSet(1 .. N) /\ Cardinality(1 .. N) = N
  <2>1. N \in Int /\ 1 \in Int /\ N - 1 + 1 = N /\ (1 > N => N = 0)
    BY <1>1
  <2>. HIDE DEF N
  <2>. QED  BY <2>1, FS_Interval
<1>5. f \in Injection(1 .. N, Files)
  BY <1>2, <1>4, FS_SurjSameCardinalityImpliesInj, Zenon
<1>6. IsFiniteSet(Files)
  BY <1>2, <1>4, FS_Surjection, Zenon
<1>7. Distinct(s)
  BY <1>1, <1>3, <1>5 DEF Injection, IsInjective, Distinct
<1>. QED
  BY <1>6, <1>7

LEMMA OrderFacts ==
    /\ ScanOrder \in Seq(Files) /\ Distinct(ScanOrder) /\ ToSet(ScanOrder) = Files
    /\ PathOrder \in Seq(Files) /\ Distinct(PathOrder) /\ ToSet(PathOrder) = Files
    /\ IsFiniteSet(Files)
<1>1. ScanOrder \in Seq(Files) /\ ToSet(ScanOrder) = Files /\ Len(ScanOrder) = Cardinality(Files)
  BY OrderAssumption DEF ToSet
<1>2. PathOrder \in Seq(Files) /\ ToSet(PathOrder) = Files /\ Len(PathOrder) = Cardinality(Files)
  BY OrderAssumption DEF ToSet
<1>. QED
  BY <1>1, <1>2, OrderIsDistinct

-----------------------------------------------------------------------------
(* The repository map: the inductive invariant *)

\* The types of the state, beyond what TypeOK says of them.
Shapes ==
    /\ disk \in [Files -> [text : Texts \cup {None}, at : Nat]]
    /\ tick \in Nat
    /\ cache \in [Files -> {NoEntry} \cup [mark : Nat \X Nat, text : Texts]]
    /\ todo \in Seq(Files)
    /\ mark = <<>> \/ mark \in Nat \X Nat
    /\ during \in [Files -> SUBSET (Texts \cup {None})]
    /\ racy \subseteq Files
    /\ changed \in BOOLEAN /\ lost \in BOOLEAN
    /\ DOMAIN parsed \subseteq Files /\ parsed = [f \in DOMAIN parsed |-> parsed[f]]
    /\ \A f \in DOMAIN parsed : parsed[f] \in Texts

\* What is listed and not yet parsed comes once, and there is nothing of it and no
\* change between refreshes.
Queue ==
    /\ Distinct(todo)
    /\ Cardinality(ToSet(todo) \cup DOMAIN parsed) <= MaxFiles
    /\ pc = "idle" => ~changed /\ todo = <<>> /\ DOMAIN parsed = {}

\* An entry that would be taken for current is, or its file was rewritten under its mark.
EntriesAreTrue ==
    \A f \in Files :
        Cached(f) /\ Exists(f) /\ cache[f].mark = Fingerprint(f)
            => cache[f].text = disk[f].text \/ f \in racy

\* What is parsed was in its file during the refresh and is in the cache, and what is
\* in the cache is parsed or will be looked at.
ParsedIsTrue ==
    \A f \in DOMAIN parsed : /\ parsed[f] \in during[f] \/ f \in racy
                             /\ Cached(f) /\ cache[f].text = parsed[f]

NothingIsForgotten ==
    pc # "idle" =>
        \A f \in Files :
           /\ disk[f].text \in during[f]
           /\ Cached(f) => f \in ToSet(todo) \cup DOMAIN parsed
           /\ \/ cut \/ during[f] \cap (Large \cup {None}) # {}
              \/ f \in ToSet(todo) \cup DOMAIN parsed

Answered == pc \in {"answered", "drawn"}

\* The snapshot has the entries of the cache, unless they have changed since.
SnapshotIsTheCache ==
    snapshot.built /\ ~lost /\ (changed => Answered) =>
        /\ DOMAIN snapshot.files = {f \in Files : Cached(f)}
        /\ \A f \in DOMAIN snapshot.files : snapshot.files[f] = cache[f].text

AnswerIsTheSnapshot ==
    /\ Answered => todo = <<>> /\ snapshot.built
    /\ pc = "answered" => /\ answer.files = snapshot.files /\ answer.edges = snapshot.edges
                          /\ answer.parsed = DOMAIN parsed /\ answer.cut = cut

IInv ==
    /\ Shapes /\ TypeOK /\ Queue /\ EntriesAreTrue /\ ParsedIsTrue /\ NothingIsForgotten
    /\ SnapshotIsTheCache /\ AnswerIsTheSnapshot

\* The invariant is what the run checks, and more.
LEMMA InvariantImplies == IInv => MapIsTrue
<1>. SUFFICES ASSUME IInv PROVE NeverStale /\ NothingIsMissing
  BY DEF IInv, MapIsTrue
<1>. SUFFICES ASSUME pc = "answered", ~lost
              PROVE  /\ \A f \in DOMAIN answer.files : answer.files[f] \in during[f] \/ f \in racy
                     /\ answer.parsed = DOMAIN answer.files
                     /\ \A f \in Files : \/ answer.cut \/ during[f] \cap (Large \cup {None}) # {}
                                         \/ f \in DOMAIN answer.files
  BY DEF NeverStale, NothingIsMissing
<1>1. /\ answer.files = snapshot.files /\ answer.parsed = DOMAIN parsed /\ answer.cut = cut
      /\ snapshot.built /\ todo = <<>>
  BY DEF IInv, AnswerIsTheSnapshot, Answered
<1>2. /\ DOMAIN snapshot.files = {f \in Files : Cached(f)}
      /\ \A f \in DOMAIN snapshot.files : snapshot.files[f] = cache[f].text
  BY <1>1 DEF IInv, SnapshotIsTheCache, Answered
<1>3. ToSet(todo) = {}
  BY <1>1 DEF ToSet
<1>4. \A f \in Files : /\ Cached(f) => f \in DOMAIN parsed
                       /\ \/ cut \/ during[f] \cap (Large \cup {None}) # {}
                          \/ f \in DOMAIN parsed
  BY <1>3 DEF IInv, NothingIsForgotten
<1>5. DOMAIN parsed \subseteq Files
  BY DEF IInv, Shapes
<1>6. \A f \in DOMAIN parsed : /\ parsed[f] \in during[f] \/ f \in racy
                               /\ Cached(f) /\ cache[f].text = parsed[f]
  BY DEF IInv, ParsedIsTrue
<1>7. DOMAIN snapshot.files = DOMAIN parsed
  BY <1>2, <1>4, <1>5, <1>6
<1>8. \A f \in DOMAIN snapshot.files : snapshot.files[f] \in during[f] \/ f \in racy
  BY <1>2, <1>6, <1>7
<1>. QED
  BY <1>1, <1>4, <1>7, <1>8

LEMMA InitEstablishes == Init => IInv
<1>. SUFFICES ASSUME Init PROVE IInv
  OBVIOUS
<1>1. pc = "idle" /\ todo = <<>> /\ mark = <<>> /\ changed = FALSE /\ parsed = Empty /\ lost = FALSE
      /\ tick = 0 /\ ~snapshot.built /\ racy = {}
      /\ cache = [f \in Files |-> NoEntry] /\ during = [f \in Files |-> {}]
  BY DEF Init, NoSnapshot
<1>2. PICK held \in [Files -> Texts \cup {None}] :
          /\ \A f \in Files : held[f] \in May[f] \cup {None}
          /\ disk = [f \in Files |-> [text |-> held[f], at |-> 0]]
  BY DEF Init
<1>3. DOMAIN parsed = {} /\ ToSet(todo) = {} /\ Distinct(todo) /\ todo \in Seq(Files)
  BY <1>1 DEF Empty, ToSet, Distinct
<1>4. Shapes
  <2>1. disk \in [Files -> [text : Texts \cup {None}, at : Nat]]
    BY <1>2
  <2>2. parsed = [f \in DOMAIN parsed |-> parsed[f]]
    BY <1>1 DEF Empty
  <2>3. cache \in [Files -> {NoEntry} \cup [mark : Nat \X Nat, text : Texts]]
    BY <1>1
  <2>4. during \in [Files -> SUBSET (Texts \cup {None})]
    BY <1>1
  <2>5. changed \in BOOLEAN /\ lost \in BOOLEAN /\ tick \in Nat /\ racy \subseteq Files
    BY <1>1
  <2>. QED  BY <1>1, <1>3, <2>1, <2>2, <2>3, <2>4, <2>5, Zenon DEF Shapes
<1>5. Cardinality(ToSet(todo) \cup DOMAIN parsed) = 0
  BY <1>3, FS_EmptySet
<1>6. \A f \in Files : ~Cached(f)
  BY <1>1 DEF Cached
<1>7. TypeOK
  <2>1. ASSUME NEW f \in Files
        PROVE  disk[f].text \in May[f] \cup {None} /\ disk[f].at \in 0 .. tick
    <3>1. held[f] \in May[f] \cup {None}
      BY <1>2
    <3>2. disk[f] = [text |-> held[f], at |-> 0]
      BY <1>2
    <3>3. disk[f].text = held[f] /\ disk[f].at = 0
      BY <3>2
    <3>4. 0 \in 0 .. tick
      BY <1>1
    <3>. QED  BY <3>1, <3>3, <3>4, Zenon
  <2>2. Cardinality(DOMAIN parsed) <= MaxFiles
    BY <1>3, FS_EmptySet, TextAssumption
  <2>. QED  BY <1>1, <1>3, <1>6, <2>1, <2>2 DEF TypeOK
<1>8. Queue
  BY <1>1, <1>3, <1>5, TextAssumption DEF Queue
<1>. QED
  BY <1>1, <1>3, <1>4, <1>6, <1>7, <1>8
  DEF IInv, EntriesAreTrue, ParsedIsTrue, NothingIsForgotten, SnapshotIsTheCache,
      AnswerIsTheSnapshot, Answered

-----------------------------------------------------------------------------
(* The repository map: every step keeps the invariant *)

\* What the first of the queue leaves behind it when it is parsed or skipped.
LEMMA QueueShrinks ==
    ASSUME IInv, todo # <<>>, todo' = Tail(todo), pc' = "stat",
           DOMAIN parsed' \subseteq DOMAIN parsed \cup {Head(todo)}
    PROVE  /\ Head(todo) \in Files /\ Head(todo) \notin DOMAIN parsed
           /\ todo' \in Seq(Files)
           /\ ToSet(todo) = {Head(todo)} \cup ToSet(todo')
           /\ DOMAIN parsed' \subseteq Files /\ ToSet(todo') \cap DOMAIN parsed' = {}
           /\ Cardinality(DOMAIN parsed') <= MaxFiles
           /\ Queue'
<1>. DEFINE f == Head(todo)
            old == ToSet(todo) \cup DOMAIN parsed
            new == ToSet(todo') \cup DOMAIN parsed'
<1>1. /\ f \in Files /\ todo' \in Seq(Files) /\ Distinct(todo')
      /\ ToSet(todo) = {f} \cup ToSet(todo') /\ f \notin ToSet(todo')
  BY TailFacts DEF IInv, Shapes, Queue
<1>2. ToSet(todo) \cap DOMAIN parsed = {} /\ DOMAIN parsed \subseteq Files
  BY DEF IInv, TypeOK, Shapes
<1>3. DOMAIN parsed' \subseteq Files /\ ToSet(todo') \cap DOMAIN parsed' = {}
  BY <1>1, <1>2
<1>4. old \subseteq Files /\ new \subseteq old /\ DOMAIN parsed' \subseteq new
  <2>1. ToSet(todo) \subseteq Files
    BY DEF IInv, Shapes, ToSet
  <2>. QED  BY <1>1, <1>2, <2>1
<1>5. Cardinality(old) <= MaxFiles
  BY DEF IInv, Queue
<1>. HIDE DEF old, new
<1>6. /\ IsFiniteSet(old) /\ IsFiniteSet(new)
      /\ Cardinality(new) <= Cardinality(old)
      /\ Cardinality(DOMAIN parsed') <= Cardinality(new)
  BY <1>4, OrderFacts, FS_Subset, Zenon
<1>7. /\ Cardinality(old) \in Nat /\ Cardinality(new) \in Nat
      /\ Cardinality(DOMAIN parsed') \in Nat /\ MaxFiles \in Nat
  BY <1>4, <1>6, FS_Subset, FS_CardinalityType, TextAssumption
<1>8. Cardinality(new) <= MaxFiles /\ Cardinality(DOMAIN parsed') <= MaxFiles
  BY <1>5, <1>6, <1>7
<1>9. Queue'
  BY <1>1, <1>8 DEF Queue, new, Distinct
<1>. QED
  BY <1>1, <1>2, <1>3, <1>8, <1>9

\* A file that is gone is dropped from the cache and from what is left to do.
LEMMA SkipKeeps ==
    ASSUME IInv, pc \in {"stat", "read"}, todo # <<>>, ~Exists(Head(todo)), Skip(Head(todo)),
           racy' = racy \/ racy' = racy \ {Head(todo)},
           UNCHANGED <<world, snapshot, cut, answer, refreshes, shown, during, lost>>
    PROVE  IInv'
<1>. DEFINE f == Head(todo)
<1>1. /\ todo' = Tail(todo) /\ pc' = "stat" /\ changed' = TRUE
      /\ parsed' = parsed /\ mark' = mark /\ cache' = Drop({f})
      /\ disk' = disk /\ tick' = tick /\ snapshot' = snapshot /\ cut' = cut
      /\ during' = during /\ lost' = lost
  BY DEF Skip, world
<1>2. /\ f \in Files /\ f \notin DOMAIN parsed /\ todo' \in Seq(Files)
      /\ ToSet(todo) = {f} \cup ToSet(todo') /\ ToSet(todo') \cap DOMAIN parsed' = {}
      /\ Cardinality(DOMAIN parsed') <= MaxFiles /\ Queue'
  BY <1>1, QueueShrinks
<1>. HIDE DEF f
<1>3. disk[f].text = None
  BY DEF Exists, f
<1>4. cache' = [g \in Files |-> IF g = f THEN NoEntry ELSE cache[g]]
  BY <1>1 DEF Drop
<1>5. \A g \in Files : Cached(g)' => Cached(g) /\ g # f /\ cache'[g] = cache[g]
  BY <1>4 DEF Cached
<1>6. \A g \in Files : Cached(g) /\ g # f => Cached(g)' /\ cache'[g] = cache[g]
  BY <1>4 DEF Cached
<1>7. Shapes'
  <2>1. cache' \in [Files -> {NoEntry} \cup [mark : Nat \X Nat, text : Texts]]
    BY <1>4 DEF IInv, Shapes
  <2>2. racy' \subseteq Files
    BY DEF IInv, Shapes
  <2>3. /\ disk' \in [Files -> [text : Texts \cup {None}, at : Nat]] /\ tick' \in Nat
        /\ mark' = <<>> \/ mark' \in Nat \X Nat
        /\ during' \in [Files -> SUBSET (Texts \cup {None})]
    BY <1>1 DEF IInv, Shapes
  <2>4. /\ changed' \in BOOLEAN /\ lost' \in BOOLEAN
        /\ DOMAIN parsed' \subseteq Files /\ parsed' = [g \in DOMAIN parsed' |-> parsed'[g]]
        /\ \A g \in DOMAIN parsed' : parsed'[g] \in Texts
    BY <1>1 DEF IInv, Shapes
  <2>. QED  BY <1>2, <2>1, <2>2, <2>3, <2>4, Zenon DEF Shapes
<1>8. TypeOK'
  BY <1>1, <1>2, <1>5 DEF IInv, TypeOK
<1>9. EntriesAreTrue'
  <2>. SUFFICES ASSUME NEW g \in Files, Cached(g)', Exists(g)', cache'[g].mark = Fingerprint(g)'
                PROVE  cache'[g].text = disk'[g].text \/ g \in racy'
    BY DEF EntriesAreTrue
  <2>1. Cached(g) /\ g # f /\ cache'[g] = cache[g]
    BY <1>5
  <2>2. Exists(g) /\ Fingerprint(g)' = Fingerprint(g)
    BY <1>1 DEF Exists, Fingerprint
  <2>3. cache[g].text = disk[g].text \/ g \in racy
    BY <2>1, <2>2 DEF IInv, EntriesAreTrue
  <2>. QED  BY <1>1, <2>1, <2>3 DEF f
<1>10. ParsedIsTrue'
  <2>. SUFFICES ASSUME NEW g \in DOMAIN parsed
                PROVE  /\ parsed[g] \in during[g] \/ g \in racy'
                       /\ Cached(g)' /\ cache'[g].text = parsed[g]
    BY <1>1 DEF ParsedIsTrue
  <2>1. g \in Files /\ g # f
    BY <1>2 DEF IInv, Shapes
  <2>2. /\ parsed[g] \in during[g] \/ g \in racy
        /\ Cached(g) /\ cache[g].text = parsed[g]
    BY DEF IInv, ParsedIsTrue
  <2>. QED  BY <1>6, <2>1, <2>2 DEF f
<1>11. NothingIsForgotten'
  <2>. SUFFICES ASSUME NEW g \in Files
                PROVE  /\ disk[g].text \in during[g]
                       /\ Cached(g)' => g \in ToSet(todo') \cup DOMAIN parsed
                       /\ \/ cut \/ during[g] \cap (Large \cup {None}) # {}
                          \/ g \in ToSet(todo') \cup DOMAIN parsed
    BY <1>1 DEF NothingIsForgotten
  <2>1. /\ disk[g].text \in during[g]
        /\ Cached(g) => g \in ToSet(todo) \cup DOMAIN parsed
        /\ \/ cut \/ during[g] \cap (Large \cup {None}) # {}
           \/ g \in ToSet(todo) \cup DOMAIN parsed
    BY DEF IInv, NothingIsForgotten
  <2>2. CASE g = f
    <3>1. None \in during[g] \cap (Large \cup {None})
      BY <1>3, <2>1, <2>2
    <3>. QED  BY <1>5, <2>1, <2>2, <3>1
  <2>3. CASE g # f
    BY <1>2, <1>5, <2>1, <2>3
  <2>. QED  BY <2>2, <2>3
<1>12. SnapshotIsTheCache'
  BY <1>1 DEF SnapshotIsTheCache, Answered
<1>13. AnswerIsTheSnapshot'
  BY <1>1 DEF AnswerIsTheSnapshot, Answered
<1>. QED
  BY <1>2, <1>7, <1>8, <1>9, <1>10, <1>11, <1>12, <1>13 DEF IInv

LEMMA FingerprintFacts ==
    ASSUME IInv, NEW f \in Files, Exists(f)
    PROVE  /\ Fingerprint(f) \in Nat \X Nat
           /\ disk[f].text \in Texts /\ disk[f].text # None /\ disk[f].text \in May[f]
<1>1. disk[f] \in [text : Texts \cup {None}, at : Nat]
  BY DEF IInv, Shapes
<1>2. disk[f].text \in Texts /\ disk[f].text # None
  BY <1>1 DEF Exists
<1>3. disk[f].text \in May[f]
  BY <1>2 DEF IInv, TypeOK
<1>4. Size[disk[f].text] \in Nat
  BY <1>2, TextAssumption
<1>. QED
  BY <1>1, <1>2, <1>3, <1>4 DEF Fingerprint

\* What Add leaves in parsed.
\* RunHistory.append of anything but a summary keeps the history in use whole.
LEMMA AddFacts ==
    ASSUME IInv, NEW f \in Files, NEW text \in Texts, Add(f, text)
    PROVE  /\ DOMAIN parsed' = DOMAIN parsed \cup {f}
           /\ parsed' = [g \in DOMAIN parsed' |-> parsed'[g]]
           /\ parsed'[f] = text
           /\ \A g \in DOMAIN parsed : g # f => parsed'[g] = parsed[g]
           /\ \A g \in DOMAIN parsed' : parsed'[g] \in Texts
<1>1. parsed' = [g \in DOMAIN parsed \cup {f} |-> IF g = f THEN text ELSE parsed[g]]
  BY DEF Add
<1>2. \A g \in DOMAIN parsed : parsed[g] \in Texts
  BY DEF IInv, Shapes
<1>. QED
  BY <1>1, <1>2

\* A file whose entry has its fingerprint is taken from the cache.
LEMMA HitKeeps ==
    ASSUME IInv, pc = "stat", todo # <<>>, Exists(Head(todo)), Cached(Head(todo)),
           cache[Head(todo)].mark = Fingerprint(Head(todo)),
           Add(Head(todo), cache[Head(todo)].text), todo' = Tail(todo),
           UNCHANGED <<world, pc, cache, changed, mark, snapshot, cut, answer, refreshes,
                       shown, during, racy, lost>>
    PROVE  IInv'
<1>. DEFINE f == Head(todo)
            text == cache[f].text
<1>1. /\ disk' = disk /\ tick' = tick /\ pc' = pc /\ cache' = cache /\ changed' = changed
      /\ mark' = mark /\ snapshot' = snapshot /\ cut' = cut /\ answer' = answer
      /\ during' = during /\ racy' = racy /\ lost' = lost
  BY DEF world
<1>2. f \in Files
  BY TailFacts DEF IInv, Shapes, Queue
<1>3. text \in Texts
  <2>1. cache[f] \in {NoEntry} \cup [mark : Nat \X Nat, text : Texts]
    BY <1>2 DEF IInv, Shapes
  <2>. QED  BY <2>1 DEF Cached
<1>4. /\ DOMAIN parsed' = DOMAIN parsed \cup {f}
      /\ parsed' = [g \in DOMAIN parsed' |-> parsed'[g]]
      /\ parsed'[f] = text
      /\ \A g \in DOMAIN parsed : g # f => parsed'[g] = parsed[g]
      /\ \A g \in DOMAIN parsed' : parsed'[g] \in Texts
  <2>1. Add(f, text)
    OBVIOUS
  <2>. HIDE DEF f, text
  <2>. QED  BY <1>2, <1>3, <2>1, AddFacts, Zenon
<1>5. /\ f \notin DOMAIN parsed /\ todo' \in Seq(Files)
      /\ ToSet(todo) = {f} \cup ToSet(todo') /\ DOMAIN parsed' \subseteq Files
      /\ ToSet(todo') \cap DOMAIN parsed' = {}
      /\ Cardinality(DOMAIN parsed') <= MaxFiles /\ Queue'
  BY <1>1, <1>4, QueueShrinks
<1>6. text \in during[f] \/ f \in racy
  <2>1. text = disk[f].text \/ f \in racy
    BY <1>2 DEF IInv, EntriesAreTrue
  <2>2. disk[f].text \in during[f]
    BY <1>2 DEF IInv, NothingIsForgotten
  <2>. QED  BY <2>1, <2>2
<1>7. Cached(f)
  OBVIOUS
<1>. HIDE DEF f
<1>8. Shapes'
  BY <1>1, <1>4, <1>5 DEF IInv, Shapes
<1>9. TypeOK'
  <2>1. pc' # "read"
    BY <1>1
  <2>. QED  BY <1>1, <1>5, <2>1 DEF IInv, TypeOK, Cached
<1>10. EntriesAreTrue'
  BY <1>1 DEF IInv, EntriesAreTrue, Cached, Exists, Fingerprint
<1>11. ParsedIsTrue'
  <2>. SUFFICES ASSUME NEW g \in DOMAIN parsed'
                PROVE  /\ parsed'[g] \in during[g] \/ g \in racy
                       /\ Cached(g) /\ cache[g].text = parsed'[g]
    BY <1>1 DEF ParsedIsTrue, Cached
  <2>1. CASE g = f
    BY <1>4, <1>6, <1>7, <2>1
  <2>2. CASE g # f
    BY <1>4, <2>2 DEF IInv, ParsedIsTrue
  <2>. QED  BY <2>1, <2>2
<1>12. ToSet(todo') \cup DOMAIN parsed' = ToSet(todo) \cup DOMAIN parsed
  BY <1>4, <1>5
<1>13. NothingIsForgotten'
  BY <1>1, <1>12 DEF IInv, NothingIsForgotten, Cached
<1>14. SnapshotIsTheCache'
  BY <1>1 DEF IInv, SnapshotIsTheCache, Answered, Cached
<1>15. AnswerIsTheSnapshot'
  BY <1>1 DEF AnswerIsTheSnapshot, Answered
<1>. QED
  BY <1>5, <1>8, <1>9, <1>10, <1>11, <1>13, <1>14, <1>15 DEF IInv

\* A file whose entry is not current will be read.
LEMMA MissKeeps ==
    ASSUME IInv, pc = "stat", todo # <<>>, Exists(Head(todo)),
           mark' = Fingerprint(Head(todo)), pc' = "read",
           UNCHANGED <<world, todo, cache, changed, parsed, snapshot, cut, answer, refreshes,
                       shown, during, racy, lost>>
    PROVE  IInv'
<1>1. /\ disk' = disk /\ tick' = tick /\ todo' = todo /\ cache' = cache /\ changed' = changed
      /\ parsed' = parsed /\ snapshot' = snapshot /\ cut' = cut
      /\ during' = during /\ racy' = racy /\ lost' = lost
  BY DEF world
<1>2. mark' \in Nat \X Nat /\ mark' # <<>>
  <2>1. Head(todo) \in Files
    BY TailFacts DEF IInv, Shapes, Queue
  <2>2. Fingerprint(Head(todo)) \in Nat \X Nat
    BY <2>1, FingerprintFacts
  <2>3. Fingerprint(Head(todo)) # <<>>
    BY DEF Fingerprint
  <2>. QED  BY <2>2, <2>3
<1>3. Shapes'
  BY <1>1, <1>2 DEF IInv, Shapes
<1>4. TypeOK'
  BY <1>1, <1>2 DEF IInv, TypeOK, Cached
<1>5. Queue'
  BY <1>1 DEF IInv, Queue
<1>6. EntriesAreTrue'
  BY <1>1 DEF IInv, EntriesAreTrue, Cached, Exists, Fingerprint
<1>7. ParsedIsTrue'
  BY <1>1 DEF IInv, ParsedIsTrue, Cached
<1>8. NothingIsForgotten'
  BY <1>1 DEF IInv, NothingIsForgotten, Cached
<1>9. SnapshotIsTheCache'
  BY <1>1 DEF IInv, SnapshotIsTheCache, Answered, Cached
<1>10. AnswerIsTheSnapshot'
  BY <1>1 DEF AnswerIsTheSnapshot, Answered
<1>. QED
  BY <1>3, <1>4, <1>5, <1>6, <1>7, <1>8, <1>9, <1>10 DEF IInv

LEMMA StatKeeps == IInv /\ Stat => IInv'
<1>. SUFFICES ASSUME IInv, Stat PROVE IInv'
  OBVIOUS
<1>1. CASE ~Exists(Head(todo)) /\ Skip(Head(todo))
  BY <1>1, SkipKeeps DEF Stat
<1>2. CASE /\ Exists(Head(todo)) /\ Cached(Head(todo))
           /\ cache[Head(todo)].mark = Fingerprint(Head(todo))
           /\ Add(Head(todo), cache[Head(todo)].text) /\ todo' = Tail(todo)
           /\ UNCHANGED <<pc, cache, changed, mark>>
  BY <1>2, HitKeeps DEF Stat
<1>3. CASE /\ Exists(Head(todo)) /\ mark' = Fingerprint(Head(todo)) /\ pc' = "read"
           /\ UNCHANGED <<todo, cache, changed, parsed>>
  BY <1>3, MissKeeps DEF Stat
<1>. QED
  BY <1>1, <1>2, <1>3 DEF Stat

\* What is read is what the file holds, whatever it held when its fingerprint was taken.
LEMMA ParseKeeps ==
    ASSUME IInv, pc = "read", Exists(Head(todo)), disk[Head(todo)].text \notin Deep,
           cache' = [cache EXCEPT ![Head(todo)] = [mark |-> mark, text |-> disk[Head(todo)].text]],
           changed' = TRUE, Add(Head(todo), disk[Head(todo)].text),
           todo' = Tail(todo), pc' = "stat", racy' = racy \ {Head(todo)},
           UNCHANGED <<world, mark, snapshot, cut, answer, refreshes, shown, during, lost>>
    PROVE  IInv'
<1>. DEFINE f == Head(todo)
            text == disk[f].text
<1>1. /\ disk' = disk /\ tick' = tick /\ mark' = mark /\ snapshot' = snapshot /\ cut' = cut
      /\ during' = during /\ lost' = lost
  BY DEF world
<1>2. todo # <<>> /\ mark # <<>>
  BY DEF IInv, TypeOK
<1>3. f \in Files
  BY <1>2, TailFacts DEF IInv, Shapes, Queue
<1>4. text \in Texts /\ text # None /\ text \in May[f] \ Deep
  BY <1>3, FingerprintFacts
<1>5. /\ DOMAIN parsed' = DOMAIN parsed \cup {f}
      /\ parsed' = [g \in DOMAIN parsed' |-> parsed'[g]]
      /\ parsed'[f] = text
      /\ \A g \in DOMAIN parsed : g # f => parsed'[g] = parsed[g]
      /\ \A g \in DOMAIN parsed' : parsed'[g] \in Texts
  <2>1. Add(f, text)
    OBVIOUS
  <2>. HIDE DEF f, text
  <2>. QED  BY <1>3, <1>4, <2>1, AddFacts, Zenon
<1>6. /\ f \notin DOMAIN parsed /\ todo' \in Seq(Files)
      /\ ToSet(todo) = {f} \cup ToSet(todo') /\ DOMAIN parsed' \subseteq Files
      /\ ToSet(todo') \cap DOMAIN parsed' = {}
      /\ Cardinality(DOMAIN parsed') <= MaxFiles /\ Queue'
  BY <1>2, <1>5, QueueShrinks
<1>7. text \in during[f]
  BY <1>3 DEF IInv, NothingIsForgotten
<1>8. cache' = [g \in Files |-> IF g = f THEN [mark |-> mark, text |-> text] ELSE cache[g]]
  BY DEF IInv, Shapes
<1>9. racy' = racy \ {f}
  OBVIOUS
<1>. HIDE DEF f
<1>10. cache'[f] # NoEntry /\ cache'[f].text = text
  <2>1. cache'[f] = [mark |-> mark, text |-> text]
    BY <1>3, <1>8
  <2>2. cache'[f].text = text
    BY <2>1
  <2>. HIDE DEF text
  <2>3. cache'[f] # NoEntry
    BY <1>4, <2>2 DEF NoEntry
  <2>. QED  BY <2>2, <2>3
<1>11. \A g \in Files : g # f => cache'[g] = cache[g] /\ (Cached(g)' <=> Cached(g))
  BY <1>8 DEF Cached
<1>12. Shapes'
  <2>1. mark \in Nat \X Nat
    BY <1>2 DEF IInv, Shapes
  <2>2. cache' \in [Files -> {NoEntry} \cup [mark : Nat \X Nat, text : Texts]]
    <3>1. [mark |-> mark, text |-> text] \in [mark : Nat \X Nat, text : Texts]
      BY <1>4, <2>1
    <3>2. cache \in [Files -> {NoEntry} \cup [mark : Nat \X Nat, text : Texts]]
      BY DEF IInv, Shapes
    <3>. QED  BY <1>8, <3>1, <3>2
  <2>. QED  BY <1>1, <1>5, <1>6, <1>9, <2>2 DEF IInv, Shapes
<1>13. TypeOK'
  <2>1. \A g \in Files : Cached(g)' => cache'[g].text \in May[g] \ Deep
    BY <1>4, <1>10, <1>11 DEF IInv, TypeOK, Cached
  <2>2. pc' # "read"
    OBVIOUS
  <2>. QED  BY <1>1, <1>6, <2>1, <2>2 DEF IInv, TypeOK
<1>14. EntriesAreTrue'
  <2>. SUFFICES ASSUME NEW g \in Files, Cached(g)', Exists(g)', cache'[g].mark = Fingerprint(g)'
                PROVE  cache'[g].text = disk'[g].text \/ g \in racy'
    BY DEF EntriesAreTrue
  <2>1. CASE g = f
    BY <1>1, <1>10, <2>1
  <2>2. CASE g # f
    <3>1. Cached(g) /\ Exists(g) /\ cache[g].mark = Fingerprint(g) /\ cache'[g] = cache[g]
      BY <1>1, <1>11, <2>2 DEF Exists, Fingerprint
    <3>2. cache[g].text = disk[g].text \/ g \in racy
      BY <3>1 DEF IInv, EntriesAreTrue
    <3>. QED  BY <1>1, <1>9, <2>2, <3>1, <3>2
  <2>. QED  BY <2>1, <2>2
<1>15. ParsedIsTrue'
  <2>. SUFFICES ASSUME NEW g \in DOMAIN parsed'
                PROVE  /\ parsed'[g] \in during[g] \/ g \in racy'
                       /\ Cached(g)' /\ cache'[g].text = parsed'[g]
    BY <1>1 DEF ParsedIsTrue
  <2>1. CASE g = f
    BY <1>5, <1>7, <1>10, <2>1 DEF Cached
  <2>2. CASE g # f
    <3>1. g \in DOMAIN parsed /\ g \in Files /\ parsed'[g] = parsed[g]
      BY <1>5, <1>6, <2>2
    <3>2. /\ parsed[g] \in during[g] \/ g \in racy
          /\ Cached(g) /\ cache[g].text = parsed[g]
      BY <3>1 DEF IInv, ParsedIsTrue
    <3>. QED  BY <1>9, <1>11, <2>2, <3>1, <3>2
  <2>. QED  BY <2>1, <2>2
<1>16. ToSet(todo') \cup DOMAIN parsed' = ToSet(todo) \cup DOMAIN parsed
  BY <1>5, <1>6
<1>17. NothingIsForgotten'
  <2>. SUFFICES ASSUME NEW g \in Files
                PROVE  /\ disk[g].text \in during[g]
                       /\ Cached(g)' => g \in ToSet(todo) \cup DOMAIN parsed
                       /\ \/ cut \/ during[g] \cap (Large \cup {None}) # {}
                          \/ g \in ToSet(todo) \cup DOMAIN parsed
    BY <1>1, <1>16 DEF NothingIsForgotten
  <2>1. /\ disk[g].text \in during[g]
        /\ Cached(g) => g \in ToSet(todo) \cup DOMAIN parsed
        /\ \/ cut \/ during[g] \cap (Large \cup {None}) # {}
           \/ g \in ToSet(todo) \cup DOMAIN parsed
    BY DEF IInv, NothingIsForgotten
  <2>2. Cached(g)' => Cached(g) \/ g = f
    BY <1>11
  <2>3. f \in ToSet(todo)
    BY <1>6
  <2>. QED  BY <2>1, <2>2, <2>3
<1>18. SnapshotIsTheCache'
  BY DEF SnapshotIsTheCache, Answered
<1>19. AnswerIsTheSnapshot'
  BY DEF AnswerIsTheSnapshot, Answered
<1>. QED
  BY <1>6, <1>12, <1>13, <1>14, <1>15, <1>17, <1>18, <1>19 DEF IInv

LEMMA ReadKeeps == IInv /\ Read => IInv'
<1>. SUFFICES ASSUME IInv, Read PROVE IInv'
  OBVIOUS
<1>1. todo # <<>> /\ pc = "read"
  BY DEF Read, IInv, TypeOK
<1>2. CASE ~Exists(Head(todo)) /\ Skip(Head(todo))
  BY <1>1, <1>2, SkipKeeps DEF Read
<1>3. CASE Exists(Head(todo))
  BY <1>1, <1>3, ParseKeeps DEF Read
<1>. QED
  BY <1>2, <1>3 DEF Read

LEMMA LeaveKeeps == IInv /\ Leave => IInv'
<1>. SUFFICES ASSUME IInv, Leave PROVE IInv'
  OBVIOUS
<1>1. /\ pc \in {"stat", "read"} /\ pc' = "idle" /\ lost' = (lost \/ changed)
      /\ todo' = <<>> /\ mark' = <<>> /\ changed' = FALSE /\ parsed' = Empty
      /\ during' = [f \in Files |-> {}]
      /\ disk' = disk /\ tick' = tick /\ cache' = cache /\ snapshot' = snapshot /\ racy' = racy
  BY DEF Leave, Forgotten, world
<1>2. /\ DOMAIN parsed' = {} /\ ToSet(todo') = {} /\ Distinct(todo') /\ todo' \in Seq(Files)
      /\ parsed' = [f \in DOMAIN parsed' |-> parsed'[f]]
  BY <1>1 DEF Empty, ToSet, Distinct
<1>3. Shapes'
  <2>1. during' \in [Files -> SUBSET (Texts \cup {None})] /\ changed' \in BOOLEAN
    BY <1>1
  <2>2. lost' \in BOOLEAN
    BY <1>1
  <2>. QED  BY <1>1, <1>2, <2>1, <2>2 DEF IInv, Shapes
<1>4. /\ Cardinality(ToSet(todo') \cup DOMAIN parsed') <= MaxFiles
      /\ Cardinality(DOMAIN parsed') <= MaxFiles
  BY <1>2, FS_EmptySet, TextAssumption
<1>5. TypeOK'
  BY <1>1, <1>2, <1>4 DEF IInv, TypeOK, Cached
<1>6. Queue'
  BY <1>1, <1>2, <1>4 DEF Queue
<1>7. EntriesAreTrue'
  BY <1>1 DEF IInv, EntriesAreTrue, Cached, Exists, Fingerprint
<1>8. SnapshotIsTheCache'
  <2>. SUFFICES ASSUME snapshot.built, ~lost, ~changed
                PROVE  /\ DOMAIN snapshot.files = {f \in Files : Cached(f)}
                       /\ \A f \in DOMAIN snapshot.files : snapshot.files[f] = cache[f].text
    BY <1>1 DEF SnapshotIsTheCache, Answered, Cached
  <2>. QED  BY DEF IInv, SnapshotIsTheCache
<1>. QED
  BY <1>1, <1>2, <1>3, <1>5, <1>6, <1>7, <1>8
  DEF IInv, ParsedIsTrue, NothingIsForgotten, AnswerIsTheSnapshot, Answered

LEMMA DoneKeeps == IInv /\ Done => IInv'
<1>. SUFFICES ASSUME IInv, Done PROVE IInv'
  OBVIOUS
<1>1. /\ pc = "drawn" /\ pc' = "idle" /\ lost' = lost
      /\ todo' = <<>> /\ mark' = <<>> /\ changed' = FALSE /\ parsed' = Empty
      /\ during' = [f \in Files |-> {}]
      /\ disk' = disk /\ tick' = tick /\ cache' = cache /\ snapshot' = snapshot /\ racy' = racy
  BY DEF Done, Forgotten, world
<1>2. /\ DOMAIN parsed' = {} /\ ToSet(todo') = {} /\ Distinct(todo') /\ todo' \in Seq(Files)
      /\ parsed' = [f \in DOMAIN parsed' |-> parsed'[f]]
  BY <1>1 DEF Empty, ToSet, Distinct
<1>3. Shapes'
  <2>1. during' \in [Files -> SUBSET (Texts \cup {None})] /\ changed' \in BOOLEAN
    BY <1>1
  <2>. QED  BY <1>1, <1>2, <2>1 DEF IInv, Shapes
<1>4. /\ Cardinality(ToSet(todo') \cup DOMAIN parsed') <= MaxFiles
      /\ Cardinality(DOMAIN parsed') <= MaxFiles
  BY <1>2, FS_EmptySet, TextAssumption
<1>5. TypeOK'
  BY <1>1, <1>2, <1>4 DEF IInv, TypeOK, Cached
<1>6. Queue'
  BY <1>1, <1>2, <1>4 DEF Queue
<1>7. EntriesAreTrue'
  BY <1>1 DEF IInv, EntriesAreTrue, Cached, Exists, Fingerprint
<1>8. SnapshotIsTheCache'
  <2>. SUFFICES ASSUME snapshot.built, ~lost
                PROVE  /\ DOMAIN snapshot.files = {f \in Files : Cached(f)}
                       /\ \A f \in DOMAIN snapshot.files : snapshot.files[f] = cache[f].text
    BY <1>1 DEF SnapshotIsTheCache, Answered, Cached
  <2>. QED  BY <1>1 DEF IInv, SnapshotIsTheCache, Answered
<1>. QED
  BY <1>1, <1>2, <1>3, <1>5, <1>6, <1>7, <1>8
  DEF IInv, ParsedIsTrue, NothingIsForgotten, AnswerIsTheSnapshot, Answered

\* What is handed out is what was parsed, or a snapshot that says the same.
LEMMA AnswerKeeps == IInv /\ Answer => IInv'
<1>. SUFFICES ASSUME IInv, Answer PROVE IInv'
  OBVIOUS
<1>1. /\ pc = "stat" /\ todo = <<>> /\ pc' = "answered"
      /\ disk' = disk /\ tick' = tick /\ cache' = cache /\ todo' = todo /\ mark' = mark
      /\ changed' = changed /\ parsed' = parsed /\ cut' = cut /\ during' = during /\ racy' = racy
  BY DEF Answer, world
<1>2. \/ /\ ~changed /\ snapshot.built
         /\ answer' = [files |-> snapshot.files, edges |-> snapshot.edges,
                       parsed |-> DOMAIN parsed, cut |-> cut]
         /\ snapshot' = snapshot /\ lost' = lost
      \/ /\ snapshot' = [built |-> TRUE, files |-> parsed, edges |-> Edges(parsed)]
         /\ answer' = [files |-> parsed, edges |-> Edges(parsed),
                       parsed |-> DOMAIN parsed, cut |-> cut]
         /\ lost' = FALSE
  BY DEF Answer
<1>3. Shapes'
  <2>1. lost' \in BOOLEAN
    BY <1>2 DEF IInv, Shapes
  <2>. QED  BY <1>1, <2>1 DEF IInv, Shapes
<1>4. TypeOK'
  BY <1>1 DEF IInv, TypeOK, Cached
<1>5. Queue'
  BY <1>1 DEF IInv, Queue
<1>6. EntriesAreTrue'
  BY <1>1 DEF IInv, EntriesAreTrue, Cached, Exists, Fingerprint
<1>7. ParsedIsTrue'
  BY <1>1 DEF IInv, ParsedIsTrue, Cached
<1>8. NothingIsForgotten'
  BY <1>1 DEF IInv, NothingIsForgotten, Cached
<1>9. SnapshotIsTheCache'
  <2>1. CASE ~changed /\ snapshot' = snapshot /\ lost' = lost
    BY <1>1, <2>1 DEF IInv, SnapshotIsTheCache, Cached
  <2>2. CASE snapshot' = [built |-> TRUE, files |-> parsed, edges |-> Edges(parsed)]
    <3>1. snapshot'.files = parsed
      BY <2>2
    <3>2. ToSet(todo) = {}
      BY <1>1 DEF ToSet
    <3>3. DOMAIN parsed = {f \in Files : Cached(f)}
      <4>1. \A f \in Files : Cached(f) => f \in DOMAIN parsed
        BY <1>1, <3>2 DEF IInv, NothingIsForgotten
      <4>2. DOMAIN parsed \subseteq Files /\ \A f \in DOMAIN parsed : Cached(f)
        BY DEF IInv, Shapes, ParsedIsTrue
      <4>. QED  BY <4>1, <4>2
    <3>4. \A f \in DOMAIN parsed : parsed[f] = cache[f].text
      BY DEF IInv, ParsedIsTrue
    <3>. QED  BY <1>1, <3>1, <3>3, <3>4 DEF SnapshotIsTheCache, Cached
  <2>. QED  BY <1>2, <2>1, <2>2
<1>10. AnswerIsTheSnapshot'
  <2>1. snapshot'.built /\ answer'.files = snapshot'.files /\ answer'.edges = snapshot'.edges
        /\ answer'.parsed = DOMAIN parsed /\ answer'.cut = cut
    BY <1>2
  <2>. QED  BY <1>1, <2>1 DEF AnswerIsTheSnapshot
<1>. QED
  BY <1>3, <1>4, <1>5, <1>6, <1>7, <1>8, <1>9, <1>10 DEF IInv

LEMMA RenderKeeps == IInv /\ Render => IInv'
<1>. SUFFICES ASSUME IInv, Render PROVE IInv'
  OBVIOUS
<1>1. /\ pc = "answered" /\ pc' = "drawn"
      /\ disk' = disk /\ tick' = tick /\ cache' = cache /\ todo' = todo /\ mark' = mark
      /\ changed' = changed /\ parsed' = parsed /\ cut' = cut /\ during' = during
      /\ racy' = racy /\ snapshot' = snapshot /\ lost' = lost
  BY DEF Render, world
<1>2. Shapes' /\ TypeOK' /\ Queue'
  BY <1>1 DEF IInv, Shapes, TypeOK, Queue, Cached
<1>3. EntriesAreTrue' /\ ParsedIsTrue' /\ NothingIsForgotten'
  BY <1>1 DEF IInv, EntriesAreTrue, ParsedIsTrue, NothingIsForgotten, Cached, Exists, Fingerprint
<1>4. SnapshotIsTheCache'
  BY <1>1 DEF IInv, SnapshotIsTheCache, Answered, Cached
<1>5. AnswerIsTheSnapshot'
  BY <1>1 DEF IInv, AnswerIsTheSnapshot, Answered
<1>. QED
  BY <1>2, <1>3, <1>4, <1>5 DEF IInv

\* An edit leaves the fingerprint of an entry to its file only when the entry is still
\* right or when it is counted as a race.
LEMMA EditKeeps == ASSUME NEW f \in Files, IInv, Edit(f) PROVE IInv'
<1>1. PICK text \in May[f] \cup {None}, now \in tick .. MaxTick :
          /\ pc \in {"idle", "stat", "read"} /\ text # disk[f].text
          /\ tick' = now
          /\ disk' = [disk EXCEPT ![f] = [text |-> text, at |-> now]]
          /\ during' = IF pc = "idle" THEN during ELSE [during EXCEPT ![f] = @ \cup {text}]
          /\ racy' = IF Cached(f) /\ text # None /\ cache[f].mark = <<now, Size[text]>>
                        /\ cache[f].text # text
                     THEN racy \cup {f} ELSE racy
          /\ UNCHANGED <<pc, cache, snapshot, todo, mark, changed, parsed, cut, answer,
                         refreshes, shown, lost>>
  BY DEF Edit
<1>2. now \in Nat /\ tick <= now
  BY <1>1, TextAssumption DEF IInv, Shapes
<1>3. text \in Texts \cup {None}
  BY <1>1, TextAssumption
<1>4. disk' = [g \in Files |-> IF g = f THEN [text |-> text, at |-> now] ELSE disk[g]]
  BY <1>1 DEF IInv, Shapes
<1>5. disk'[f] = [text |-> text, at |-> now] /\ \A g \in Files : g # f => disk'[g] = disk[g]
  BY <1>4
<1>6. /\ during' \in [Files -> SUBSET (Texts \cup {None})]
      /\ \A g \in Files : during[g] \subseteq during'[g]
      /\ pc # "idle" => text \in during'[f]
  <2>1. during \in [Files -> SUBSET (Texts \cup {None})]
    BY DEF IInv, Shapes
  <2>2. CASE pc = "idle"
    BY <1>1, <2>1, <2>2
  <2>3. CASE pc # "idle"
    <3>1. during' = [g \in Files |-> IF g = f THEN during[f] \cup {text} ELSE during[g]]
      BY <1>1, <2>1, <2>3
    <3>. QED  BY <1>3, <2>1, <3>1
  <2>. QED  BY <2>2, <2>3
<1>7. racy \subseteq racy' /\ racy' \subseteq Files
  BY <1>1 DEF IInv, Shapes
<1>8. Shapes'
  <2>1. disk' \in [Files -> [text : Texts \cup {None}, at : Nat]]
    BY <1>2, <1>3, <1>4 DEF IInv, Shapes
  <2>. QED  BY <1>1, <1>2, <1>6, <1>7, <2>1 DEF IInv, Shapes
<1>9. TypeOK'
  <2>1. ASSUME NEW g \in Files
        PROVE  disk'[g].text \in May[g] \cup {None} /\ disk'[g].at \in 0 .. tick'
    <3>1. CASE g = f
      BY <1>1, <1>2, <1>5, <3>1
    <3>2. CASE g # f
      <4>1. disk[g].text \in May[g] \cup {None} /\ disk[g].at \in 0 .. tick /\ tick \in Nat
        BY DEF IInv, TypeOK, Shapes
      <4>. QED  BY <1>1, <1>2, <1>5, <3>2, <4>1
    <3>. QED  BY <3>1, <3>2
  <2>. QED  BY <1>1, <2>1 DEF IInv, TypeOK, Cached
<1>10. Queue'
  BY <1>1 DEF IInv, Queue
<1>11. EntriesAreTrue'
  <2>. SUFFICES ASSUME NEW g \in Files, Cached(g), disk'[g].text # None,
                       cache[g].mark = <<disk'[g].at, Size[disk'[g].text]>>
                PROVE  cache[g].text = disk'[g].text \/ g \in racy'
    BY <1>1 DEF EntriesAreTrue, Cached, Exists, Fingerprint
  <2>1. CASE g = f
    BY <1>1, <1>5, <2>1
  <2>2. CASE g # f
    BY <1>5, <1>7, <2>2 DEF IInv, EntriesAreTrue, Exists, Fingerprint
  <2>. QED  BY <2>1, <2>2
<1>12. ParsedIsTrue'
  <2>1. DOMAIN parsed \subseteq Files
    BY DEF IInv, Shapes
  <2>. QED  BY <1>1, <1>6, <1>7, <2>1 DEF IInv, ParsedIsTrue, Cached
<1>13. NothingIsForgotten'
  <2>. SUFFICES ASSUME pc # "idle", NEW g \in Files
                PROVE  /\ disk'[g].text \in during'[g]
                       /\ Cached(g) => g \in ToSet(todo) \cup DOMAIN parsed
                       /\ \/ cut \/ during'[g] \cap (Large \cup {None}) # {}
                          \/ g \in ToSet(todo) \cup DOMAIN parsed
    BY <1>1 DEF NothingIsForgotten, Cached
  <2>1. /\ disk[g].text \in during[g]
        /\ Cached(g) => g \in ToSet(todo) \cup DOMAIN parsed
        /\ \/ cut \/ during[g] \cap (Large \cup {None}) # {}
           \/ g \in ToSet(todo) \cup DOMAIN parsed
    BY DEF IInv, NothingIsForgotten
  <2>2. disk'[g].text \in during'[g]
    BY <1>5, <1>6, <2>1
  <2>3. during[g] \subseteq during'[g]
    BY <1>6
  <2>. QED  BY <2>1, <2>2, <2>3
<1>14. SnapshotIsTheCache'
  BY <1>1 DEF IInv, SnapshotIsTheCache, Answered, Cached
<1>15. AnswerIsTheSnapshot'
  BY <1>1 DEF AnswerIsTheSnapshot, Answered
<1>. QED
  BY <1>8, <1>9, <1>10, <1>11, <1>12, <1>13, <1>14, <1>15 DEF IInv

\* The scan lists files, never too many, and all there are unless it was cut.
LEMMA ListedFacts ==
    ASSUME NEW n \in 0 .. Len(ScanOrder)
    PROVE  /\ Listed(n) \subseteq Files /\ Cardinality(Listed(n)) <= MaxFiles
           /\ n = Len(ScanOrder) /\ Cardinality(Scanned(n)) <= MaxFiles =>
                 Listed(n) = {f \in Files : Exists(f) /\ disk[f].text \notin Large}
<1>. DEFINE all == InOrder(ScanOrder, Scanned(n))
            some == First(MaxFiles, all)
<1>1. /\ First(n, ScanOrder) \in Seq(Files) /\ ToSet(First(n, ScanOrder)) \subseteq Files
      /\ Len(ScanOrder) <= n => First(n, ScanOrder) = ScanOrder
  <2>1. n \in Nat
    OBVIOUS
  <2>. QED  BY <2>1, OrderFacts, FirstFacts
<1>2. Scanned(n) \subseteq Files
  BY <1>1 DEF Scanned
<1>3. all \in Seq(Files) /\ ToSet(all) = Scanned(n) /\ Distinct(all)
  <2>1. /\ all \in Seq(Files) /\ ToSet(all) = ToSet(ScanOrder) \cap Scanned(n)
        /\ Distinct(all)
    <3>1. ScanOrder \in Seq(Files) /\ Distinct(ScanOrder)
      BY OrderFacts
    <3>2. PICK S : S = Scanned(n)
      OBVIOUS
    <3>. QED  BY <3>1, <3>2, InOrderFacts
  <2>. QED  BY <1>2, <2>1, OrderFacts
<1>. HIDE DEF all
<1>4. MaxFiles \in Nat
  BY TextAssumption
<1>5. /\ some \in Seq(Files) /\ ToSet(some) \subseteq Files /\ Distinct(some)
      /\ Len(some) <= MaxFiles
      /\ Len(all) <= MaxFiles => some = all
  BY <1>2, <1>3, <1>4, FirstFacts
<1>6. Cardinality(Scanned(n)) = Len(all) /\ Cardinality(ToSet(some)) = Len(some)
  <2>. HIDE DEF some
  <2>. QED  BY <1>3, <1>5, CountOfDistinct
<1>7. Listed(n) = ToSet(some)
  BY DEF Listed, all
<1>. HIDE DEF some
<1>8. ASSUME n = Len(ScanOrder), Cardinality(Scanned(n)) <= MaxFiles
      PROVE  Listed(n) = {f \in Files : Exists(f) /\ disk[f].text \notin Large}
  <2>1. Listed(n) = Scanned(n)
    BY <1>3, <1>5, <1>6, <1>7, <1>8
  <2>2. First(n, ScanOrder) = ScanOrder
    BY <1>1, <1>8
  <2>. QED  BY <2>1, <2>2, OrderFacts DEF Scanned
<1>. QED
  BY <1>5, <1>6, <1>7, <1>8

LEMMA RefreshKeeps == IInv /\ Refresh => IInv'
<1>. SUFFICES ASSUME IInv, Refresh PROVE IInv'
  OBVIOUS
<1>1. PICK n \in 0 .. Len(ScanOrder) :
          /\ pc = "idle" /\ pc' = "stat"
          /\ todo' = InOrder(PathOrder, Listed(n))
          /\ cut' = (n < Len(ScanOrder) \/ Cardinality(Scanned(n)) > MaxFiles)
          /\ Purge(Listed(n))
          /\ parsed' = Empty /\ mark' = <<>>
          /\ during' = [f \in Files |-> {disk[f].text}]
          /\ UNCHANGED <<world, snapshot, racy, lost>>
  BY DEF Refresh
<1>. DEFINE gone == {f \in Files : Cached(f) /\ f \notin Listed(n)}
<1>2. /\ disk' = disk /\ tick' = tick /\ snapshot' = snapshot /\ racy' = racy /\ lost' = lost
      /\ DOMAIN parsed' = {} /\ parsed' = [f \in DOMAIN parsed' |-> parsed'[f]]
      /\ cache' = [f \in Files |-> IF f \in gone THEN NoEntry ELSE cache[f]]
      /\ changed' = (gone # {})
  BY <1>1 DEF world, Empty, Purge, Drop
<1>3. /\ Listed(n) \subseteq Files /\ Cardinality(Listed(n)) <= MaxFiles
      /\ n = Len(ScanOrder) /\ Cardinality(Scanned(n)) <= MaxFiles =>
            Listed(n) = {f \in Files : Exists(f) /\ disk[f].text \notin Large}
  BY ListedFacts
<1>4. todo' \in Seq(Files) /\ ToSet(todo') = Listed(n) /\ Distinct(todo')
  <2>1. PICK q : q = InOrder(PathOrder, Listed(n))
    OBVIOUS
  <2>2. q \in Seq(Files) /\ ToSet(q) = Files \cap Listed(n) /\ Distinct(q)
    BY <2>1, OrderFacts, InOrderFacts
  <2>3. todo' = q
    BY <1>1, <2>1
  <2>. QED  BY <1>3, <2>2, <2>3
<1>5. ASSUME NEW f \in Files
      PROVE  /\ cache'[f] # NoEntry => cache'[f] = cache[f] /\ Cached(f) /\ f \in Listed(n)
             /\ gone = {} => cache'[f] = cache[f]
  BY <1>2 DEF Cached
<1>6. Shapes'
  <2>1. cache' \in [Files -> {NoEntry} \cup [mark : Nat \X Nat, text : Texts]]
    BY <1>2 DEF IInv, Shapes
  <2>2. during' \in [Files -> SUBSET (Texts \cup {None})]
    <3>1. \A f \in Files : disk[f].text \in Texts \cup {None}
      BY DEF IInv, Shapes
    <3>. QED  BY <1>1, <3>1
  <2>3. changed' \in BOOLEAN
    BY <1>2
  <2>4. /\ disk' \in [Files -> [text : Texts \cup {None}, at : Nat]] /\ tick' \in Nat
        /\ racy' \subseteq Files /\ lost' \in BOOLEAN
    BY <1>2 DEF IInv, Shapes
  <2>. QED  BY <1>1, <1>2, <1>4, <2>1, <2>2, <2>3, <2>4, Zenon DEF Shapes
<1>7. ToSet(todo') \cup DOMAIN parsed' = Listed(n)
  BY <1>2, <1>4
<1>8. TypeOK'
  <2>1. Cardinality(DOMAIN parsed') <= MaxFiles
    BY <1>2, FS_EmptySet, TextAssumption
  <2>2. \A f \in Files : cache'[f] # NoEntry => cache'[f].text \in May[f] \ Deep
    BY <1>5 DEF IInv, TypeOK
  <2>. QED  BY <1>1, <1>2, <2>1, <2>2 DEF IInv, TypeOK, Cached
<1>9. Queue'
  BY <1>1, <1>3, <1>4, <1>7 DEF Queue
<1>10. EntriesAreTrue'
  <2>. SUFFICES ASSUME NEW f \in Files, cache'[f] # NoEntry, Exists(f)', cache'[f].mark = Fingerprint(f)'
                PROVE  cache'[f].text = disk[f].text \/ f \in racy
    BY <1>2 DEF EntriesAreTrue, Cached
  <2>1. cache'[f] = cache[f] /\ Cached(f) /\ Exists(f) /\ cache[f].mark = Fingerprint(f)
    BY <1>2, <1>5 DEF Exists, Fingerprint
  <2>. QED  BY <2>1 DEF IInv, EntriesAreTrue
<1>11. ParsedIsTrue'
  BY <1>2 DEF ParsedIsTrue
<1>12. NothingIsForgotten'
  <2>. SUFFICES ASSUME NEW f \in Files
                PROVE  /\ disk[f].text \in during'[f]
                       /\ cache'[f] # NoEntry => f \in Listed(n)
                       /\ \/ cut' \/ during'[f] \cap (Large \cup {None}) # {}
                          \/ f \in Listed(n)
    BY <1>2, <1>7 DEF NothingIsForgotten, Cached
  <2>1. during'[f] = {disk[f].text}
    BY <1>1
  <2>2. CASE cut'
    BY <1>5, <2>1, <2>2
  <2>3. CASE ~cut'
    <3>1. n = Len(ScanOrder) /\ Cardinality(Scanned(n)) <= MaxFiles
      <4>1. n \in Nat /\ Len(ScanOrder) \in Nat /\ n <= Len(ScanOrder)
        BY OrderFacts
      <4>2. Cardinality(Scanned(n)) \in Nat /\ MaxFiles \in Nat
        <5>1. ToSet(First(n, ScanOrder)) \subseteq Files
          BY <4>1, OrderFacts, FirstFacts
        <5>2. Scanned(n) \subseteq Files
          BY <5>1 DEF Scanned
        <5>3. IsFiniteSet(Scanned(n))
          BY <5>2, OrderFacts, FS_Subset, Zenon
        <5>4. Cardinality(Scanned(n)) \in Nat
          BY <5>3, FS_CardinalityType, Zenon
        <5>. QED  BY <5>4, TextAssumption
      <4>3. ~(n < Len(ScanOrder)) /\ ~(Cardinality(Scanned(n)) > MaxFiles)
        BY <1>1, <2>3, Zenon
      <4>. QED  BY <4>1, <4>2, <4>3
    <3>2. Exists(f) /\ disk[f].text \notin Large => f \in Listed(n)
      BY <1>3, <3>1
    <3>. QED  BY <1>5, <2>1, <3>2 DEF Exists
  <2>. QED  BY <2>2, <2>3
<1>13. SnapshotIsTheCache'
  <2>. SUFFICES ASSUME snapshot.built, ~lost, gone = {}
                PROVE  /\ DOMAIN snapshot.files = {f \in Files : cache'[f] # NoEntry}
                       /\ \A f \in DOMAIN snapshot.files : snapshot.files[f] = cache'[f].text
    <3>. HIDE DEF gone
    <3>1. snapshot' = snapshot /\ lost' = lost /\ (~changed' => gone = {})
      BY <1>2
    <3>2. ~Answered'
      BY <1>1 DEF Answered
    <3>. QED  BY <3>1, <3>2 DEF SnapshotIsTheCache, Cached
  <2>1. ~changed
    BY <1>1 DEF IInv, Queue
  <2>2. /\ DOMAIN snapshot.files = {f \in Files : Cached(f)}
        /\ \A f \in DOMAIN snapshot.files : snapshot.files[f] = cache[f].text
    BY <2>1 DEF IInv, SnapshotIsTheCache
  <2>. QED  BY <1>5, <2>2 DEF Cached
<1>14. AnswerIsTheSnapshot'
  BY <1>1 DEF AnswerIsTheSnapshot, Answered
<1>. QED
  BY <1>6, <1>8, <1>9, <1>10, <1>11, <1>12, <1>13, <1>14 DEF IInv

LEMMA StepKeeps == IInv /\ [Next]_vars => IInv'
<1>. SUFFICES ASSUME IInv, [Next]_vars PROVE IInv'
  OBVIOUS
<1>1. CASE UNCHANGED vars
  BY <1>1 DEF vars, IInv, Shapes, TypeOK, Queue, EntriesAreTrue, ParsedIsTrue, NothingIsForgotten,
     SnapshotIsTheCache, AnswerIsTheSnapshot, Answered, Cached, Exists, Fingerprint
<1>2. CASE Refresh
  BY <1>2, RefreshKeeps
<1>3. CASE Stat
  BY <1>3, StatKeeps
<1>4. CASE Read
  BY <1>4, ReadKeeps
<1>5. CASE Answer
  BY <1>5, AnswerKeeps
<1>6. CASE Leave
  BY <1>6, LeaveKeeps
<1>7. CASE Render
  BY <1>7, RenderKeeps
<1>8. CASE Done
  BY <1>8, DoneKeeps
<1>9. CASE \E f \in Files : Edit(f)
  BY <1>9, EditKeeps
<1>. QED
  BY <1>1, <1>2, <1>3, <1>4, <1>5, <1>6, <1>7, <1>8, <1>9 DEF Next, Step

\* Cache, queue and snapshot belong together at every place of a refresh.
THEOREM MapInvariance == Spec => []IInv
<1>1. Init => IInv
  BY InitEstablishes
<1>2. IInv /\ [Next]_vars => IInv'
  BY StepKeeps
<1>. QED
  BY <1>1, <1>2, PTL DEF Spec

\* The map shows the files as they are, all of them or with a word that it does not,
\* whatever is edited between the scan, the stat and the read, and however often a
\* refresh was left (RepoMap.refresh).
THEOREM TheMapIsTrue == Spec => []MapIsTrue
<1>1. Spec => []IInv
  BY MapInvariance
<1>2. IInv => MapIsTrue
  BY InvariantImplies
<1>. QED
  BY <1>1, <1>2, PTL

-----------------------------------------------------------------------------
(* The repository map: the graph *)

\* What a snapshot has of each file is a text.
Mapped(files) == DOMAIN files \subseteq Files /\ \A f \in DOMAIN files : files[f] \in Texts

\* Every edge joins two symbols, and there is the edge back, whatever the names mean.
LEMMA EdgesJoinSymbols ==
    ASSUME NEW files, NEW e \in Edges(files)
    PROVE  /\ e[1] \in Symbols(files) /\ e[2] \in Symbols(files)
           /\ e[1] # e[2] /\ <<e[2], e[1]>> \in Edges(files)
<1>1. PICK contains : contains = UNION {{<<<<f, d.of>>, <<f, d.name>>>> : d \in Defs[files[f]]}
                                           : f \in DOMAIN files}
  OBVIOUS
<1>2. PICK uses : uses = UNION {UNION {{<<<<f, u.by>>, c>> : c \in Candidates(files, f, u)}
                                          : u \in Uses[files[f]]} : f \in DOMAIN files}
  OBVIOUS
<1>3. PICK tests : tests = UNION {{<<s, u>> : u \in Tested(files, s)} :
                           s \in {x \in Symbols(files) : x[2] # Module /\ IsTest(x)}}
  OBVIOUS
<1>4. PICK out : out = {x \in contains \cup uses \cup tests :
                           x[1] # x[2] /\ {x[1], x[2]} \subseteq Symbols(files)}
  OBVIOUS
<1>5. Edges(files) = out \cup {<<x[2], x[1]>> : x \in out}
  BY <1>1, <1>2, <1>3, <1>4 DEF Edges
<1>6. \A x \in contains \cup uses \cup tests : x = <<x[1], x[2]>>
  <2>1. \A x \in contains : \E u, v : x = <<u, v>>
    BY <1>1
  <2>2. \A x \in uses : \E u, v : x = <<u, v>>
    BY <1>2
  <2>3. \A x \in tests : \E u, v : x = <<u, v>>
    BY <1>3
  <2>4. \A x : (\E u, v : x = <<u, v>>) => x = <<x[1], x[2]>>
    OBVIOUS
  <2>. QED  BY <2>1, <2>2, <2>3, <2>4
<1>7. ASSUME NEW x \in out
      PROVE  x[1] \in Symbols(files) /\ x[2] \in Symbols(files) /\ x = <<x[1], x[2]>> /\ x[1] # x[2]
  BY <1>4, <1>6, <1>7
<1>8. CASE e \in out
  BY <1>5, <1>7, <1>8
<1>9. CASE e \in {<<x[2], x[1]>> : x \in out}
  <2>1. PICK x \in out : e = <<x[2], x[1]>>
    BY <1>9
  <2>2. e[1] = x[2] /\ e[2] = x[1]
    BY <2>1
  <2>. QED  BY <1>5, <1>7, <2>2
<1>. QED
  BY <1>5, <1>8, <1>9

\* The graph handed out is that of the files it is handed out with.
GraphInv ==
    snapshot.built => Mapped(snapshot.files) /\ snapshot.edges = Edges(snapshot.files)

LEMMA GraphInvKept == IInv /\ GraphInv /\ [Next]_vars => GraphInv'
<1>. SUFFICES ASSUME IInv, GraphInv, [Next]_vars PROVE GraphInv'
  OBVIOUS
<1>1. CASE UNCHANGED snapshot
  BY <1>1 DEF GraphInv, Mapped
<1>2. CASE snapshot' = [built |-> TRUE, files |-> parsed, edges |-> Edges(parsed)]
  <2>1. Mapped(parsed)
    BY DEF IInv, Shapes, Mapped
  <2>2. snapshot'.files = parsed /\ snapshot'.edges = Edges(parsed)
    BY <1>2
  <2>. QED  BY <2>1, <2>2 DEF GraphInv, Mapped
<1>. QED
  BY <1>1, <1>2 DEF Next, Step, Refresh, Stat, Read, Answer, Leave, Render, Done, Edit, vars

\* The graph joins symbols of the map only and can be walked back, whatever files went
\* away between two refreshes (_resolve_graph, _add_edge).
THEOREM TheGraphIsWithin == Spec => []EdgesAreWithin
<1>1. Init => IInv /\ GraphInv
  BY InitEstablishes DEF Init, GraphInv, NoSnapshot
<1>2. IInv /\ GraphInv /\ [Next]_vars => IInv' /\ GraphInv'
  BY StepKeeps, GraphInvKept
<1>3. IInv /\ GraphInv => EdgesAreWithin
  <2>. SUFFICES ASSUME IInv, GraphInv, pc = "answered", NEW e \in answer.edges
                PROVE  /\ {e[1], e[2]} \subseteq Symbols(answer.files)
                       /\ e[1] # e[2] /\ <<e[2], e[1]>> \in answer.edges
    BY DEF EdgesAreWithin
  <2>1. answer.files = snapshot.files /\ answer.edges = snapshot.edges /\ snapshot.built
    BY DEF IInv, AnswerIsTheSnapshot, Answered
  <2>2. Mapped(snapshot.files) /\ snapshot.edges = Edges(snapshot.files)
    BY <2>1 DEF GraphInv
  <2>. QED  BY <2>1, <2>2, EdgesJoinSymbols
<1>. QED
  BY <1>1, <1>2, <1>3, PTL DEF Spec

-----------------------------------------------------------------------------
(* The repository map: the best of some symbols *)

\* What is at least what is at least c is at least c, for fractions.
LEMMA FractionsAreOrdered ==
    ASSUME NEW a \in Nat, NEW b \in Nat, NEW c \in Nat,
           NEW p \in Nat \ {0}, NEW q \in Nat \ {0}, NEW r \in Nat \ {0},
           a * q >= b * p, b * r >= c * q
    PROVE  a * r >= c * p
<1>1. (a * q) * r >= (b * p) * r
  <2>1. \A x, y, z \in Nat : x >= y => x * z >= y * z
    OBVIOUS
  <2>2. a * q \in Nat /\ b * p \in Nat
    OBVIOUS
  <2>. QED  BY <2>1, <2>2
<1>2. (b * r) * p >= (c * q) * p
  <2>1. \A x, y, z \in Nat : x >= y => x * z >= y * z
    OBVIOUS
  <2>2. b * r \in Nat /\ c * q \in Nat
    OBVIOUS
  <2>. QED  BY <2>1, <2>2
<1>3. (a * r) * q >= (c * p) * q
  <2>1. (a * q) * r = (a * r) * q /\ (b * p) * r = (b * r) * p /\ (c * q) * p = (c * p) * q
    OBVIOUS
  <2>2. {(a * r) * q, (b * r) * p, (c * p) * q} \subseteq Nat
    OBVIOUS
  <2>. QED  BY <1>1, <1>2, <2>1, <2>2
<1>4. \A x, y \in Nat : x * q >= y * q => x >= y
  <2>. SUFFICES ASSUME NEW x \in Nat, NEW y \in Nat, x < y PROVE x * q < y * q
    OBVIOUS
  <2>1. PICK d \in Nat \ {0} : y = x + d
    <3>1. y - x \in Nat \ {0} /\ y = x + (y - x)
      OBVIOUS
    <3>. QED  BY <3>1
  <2>2. y * q = x * q + d * q
    BY <2>1
  <2>3. d * q > 0 /\ d * q \in Nat /\ x * q \in Nat
    OBVIOUS
  <2>. QED  BY <2>2, <2>3
<1>5. a * r \in Nat /\ c * p \in Nat
  OBVIOUS
<1>. QED
  BY <1>3, <1>4, <1>5

\* Among finitely many there is a best one, when any two can be compared.
LEMMA BestOfMany ==
    ASSUME NEW S, IsFiniteSet(S), S # {}, NEW R,
           \A x, y \in S : <<x, y>> \in R \/ <<y, x>> \in R,
           \A x, y, z \in S : <<x, y>> \in R /\ <<y, z>> \in R => <<x, z>> \in R
    PROVE  \E x \in S : \A y \in S : <<x, y>> \in R
<1>. DEFINE N == Cardinality(S)
            Best(Q) == \E x \in Q : \A y \in Q : <<x, y>> \in R
            T == {n \in 0 .. N : \A Q \in SUBSET S : Cardinality(Q) = n /\ Q # {} => Best(Q)}
<1>1. N \in Nat
  BY FS_CardinalityType
<1>2. \A Q \in SUBSET S : IsFiniteSet(Q)
  BY FS_Subset
<1>3. 0 \in T
  <2>1. \A Q \in SUBSET S : Cardinality(Q) = 0 => Q = {}
    BY <1>2, FS_EmptySet
  <2>. QED  BY <1>1, <2>1
<1>4. ASSUME NEW n \in 0 .. N, n \in T, n + 1 <= N PROVE n + 1 \in T
  <2>1. n \in Nat /\ n + 1 \in 0 .. N
    BY <1>1, <1>4
  <2>2. \A Q \in SUBSET S : Cardinality(Q) = n /\ Q # {} => Best(Q)
    BY <1>4
  <2>. SUFFICES ASSUME NEW Q \in SUBSET S, Cardinality(Q) = n + 1, Q # {}
                PROVE  Best(Q)
    BY <2>1
  <2>. HIDE DEF T, N
  <2>3. PICK z \in Q : TRUE
    OBVIOUS
  <2>. DEFINE P == Q \ {z}
  <2>4. Cardinality(P) = n
    <3>1. Cardinality(P) = Cardinality(Q) - 1
      BY <1>2, <2>3, FS_RemoveElement
    <3>. QED  BY <2>1, <3>1
  <2>5. P \in SUBSET S /\ z \in S /\ Q = P \cup {z}
    BY <2>3
  <2>. HIDE DEF P
  <2>6. CASE P = {}
    <3>1. \A y \in Q : y = z
      BY <2>5, <2>6
    <3>. QED  BY <2>3, <2>5, <3>1
  <2>7. CASE P # {}
    <3>1. PICK x \in P : \A y \in P : <<x, y>> \in R
      BY <2>2, <2>4, <2>5, <2>7
    <3>2. x \in S /\ x \in Q /\ \A y \in P : y \in S
      BY <2>5
    <3>3. CASE <<x, z>> \in R
      BY <2>5, <3>1, <3>2, <3>3
    <3>4. CASE <<x, z>> \notin R
      <4>1. <<z, x>> \in R /\ <<z, z>> \in R
        BY <2>5, <3>2, <3>4
      <4>2. \A y \in P : <<z, y>> \in R
        BY <2>5, <3>1, <3>2, <4>1
      <4>. QED  BY <2>3, <2>5, <4>1, <4>2
    <3>. QED  BY <3>3, <3>4
  <2>. QED  BY <2>6, <2>7
<1>5. N \in T
  <2>. HIDE DEF T, N
  <2>1. 0 .. N \subseteq T
    BY <1>1, <1>3, <1>4, UpTo, Zenon
  <2>. QED  BY <1>1, <2>1
<1>. QED
  BY <1>5

-----------------------------------------------------------------------------
(* The repository map: the selection *)

LEMMA PathRankType == ASSUME NEW f \in Files PROVE PathRank(f) \in Nat
<1>1. \E i \in DOMAIN PathOrder : PathOrder[i] = f
  BY OrderFacts DEF ToSet
<1>2. PathRank(f) \in DOMAIN PathOrder
  BY <1>1 DEF PathRank
<1>3. DOMAIN PathOrder \subseteq Nat
  BY OrderFacts
<1>. QED
  BY <1>2, <1>3

LEMMA RankedFacts ==
    ASSUME NEW files, Mapped(files), NEW score \in Scores
    PROVE  /\ IsFiniteSet(Ranked(files, score))
           /\ Ranked(files, score) \subseteq Files \X Names
           /\ \A s \in Ranked(files, score) :
                 score[s] \in Nat \ {0} /\ Line(files, s) \in Nat /\ PathRank(s[1]) \in Nat
<1>. DEFINE of(f) == {<<f, d.name>> : d \in Defs[files[f]]}
<1>1. Ranked(files, score) \subseteq UNION {of(f) : f \in DOMAIN files}
  BY DEF Ranked, Symbols
<1>2. \A f \in DOMAIN files : f \in Files /\ files[f] \in Texts
  BY DEF Mapped
<1>3. IsFiniteSet(UNION {of(f) : f \in DOMAIN files})
  <2>1. ASSUME NEW f \in DOMAIN files PROVE IsFiniteSet(of(f))
    <3>1. IsFiniteSet(Defs[files[f]])
      BY <1>2, ScoreAssumption
    <3>2. [d \in Defs[files[f]] |-> <<f, d.name>>] \in Surjection(Defs[files[f]], of(f))
      BY DEF Surjection
    <3>. HIDE DEF of
    <3>. QED  BY <3>1, <3>2, FS_Surjection, Zenon
  <2>2. IsFiniteSet({of(f) : f \in DOMAIN files})
    <3>1. IsFiniteSet(DOMAIN files)
      BY OrderFacts, FS_Subset DEF Mapped
    <3>2. [f \in DOMAIN files |-> of(f)] \in Surjection(DOMAIN files, {of(f) : f \in DOMAIN files})
      BY DEF Surjection
    <3>. HIDE DEF of
    <3>. QED  BY <3>1, <3>2, FS_Surjection, Zenon
  <2>3. \A Q \in {of(f) : f \in DOMAIN files} : IsFiniteSet(Q)
    BY <2>1
  <2>. HIDE DEF of
  <2>. QED  BY <2>2, <2>3, FS_UNION
<1>4. ASSUME NEW s \in Ranked(files, score)
      PROVE  /\ s \in Files \X Names
             /\ score[s] \in Nat \ {0} /\ Line(files, s) \in Nat /\ PathRank(s[1]) \in Nat
  <2>1. PICK f \in DOMAIN files : s \in of(f)
    BY <1>1
  <2>2. PICK d \in Defs[files[f]] : s = <<f, d.name>>
    BY <2>1
  <2>3. d.name \in Names /\ f \in Files
    BY <1>2, NameAssumption
  <2>4. s \in Files \X Names /\ s[1] = f /\ s[2] = d.name
    BY <2>2, <2>3
  <2>5. score[s] \in Nat \ {0}
    <3>1. score[<<f, d.name>>] \in Nat
      BY <2>3, ScoreAssumption
    <3>2. score[s] > 0
      BY DEF Ranked
    <3>. QED  BY <2>2, <3>1, <3>2
  <2>6. Line(files, s) \in Nat
    <3>1. PICK g \in Defs[files[f]] : g = CHOOSE x \in Defs[files[f]] : x.name = s[2]
      BY <2>4
    <3>2. Line(files, s) = g.line
      BY <2>4, <3>1 DEF Line
    <3>. QED  BY <1>2, <3>2, ScoreAssumption
  <2>. QED  BY <2>3, <2>4, <2>5, <2>6, PathRankType
<1>. HIDE DEF of
<1>5. IsFiniteSet(Ranked(files, score))
  BY <1>1, <1>3, FS_Subset
<1>. QED
  BY <1>4, <1>5

\* How many symbols of its file are chosen makes a symbol worth less.
Weight(chosen, x) == 100 + 35 * Cardinality({i \in DOMAIN chosen : chosen[i][1] = x[1]})

LEMMA WeightType ==
    ASSUME NEW T, NEW chosen \in Seq(T), NEW x
    PROVE  Weight(chosen, x) \in Nat \ {0}
<1>. DEFINE Q == {i \in DOMAIN chosen : chosen[i][1] = x[1]}
<1>1. Len(chosen) \in Nat /\ DOMAIN chosen = 1 .. Len(chosen)
  OBVIOUS
<1>2. Q \subseteq 1 .. Len(chosen)
  BY <1>1
<1>3. IsFiniteSet(1 .. Len(chosen))
  BY <1>1, FS_Interval
<1>. HIDE DEF Q
<1>4. IsFiniteSet(Q)
  BY <1>2, <1>3, FS_Subset, Zenon
<1>5. Cardinality(Q) \in Nat
  BY <1>4, FS_CardinalityType, Zenon
<1>. QED
  BY <1>5 DEF Weight, Q

\* Any two symbols can be compared, and the comparison is an order.
LEMMA PreferenceOrders ==
    ASSUME NEW files, Mapped(files), NEW score \in Scores,
           NEW chosen \in Seq(Ranked(files, score)),
           NEW x \in Ranked(files, score), NEW y \in Ranked(files, score),
           NEW z \in Ranked(files, score)
    PROVE  /\ Preferred(files, score, chosen, x, y) \/ Preferred(files, score, chosen, y, x)
           /\ Preferred(files, score, chosen, x, y) /\ Preferred(files, score, chosen, y, z)
                 => Preferred(files, score, chosen, x, z)
<1>. DEFINE R == Ranked(files, score)
            w(u) == Weight(chosen, u)
            m(u, v) == score[u] * w(v)
<1>1. \A u \in R : /\ score[u] \in Nat \ {0} /\ Line(files, u) \in Nat
                           /\ PathRank(u[1]) \in Nat /\ w(u) \in Nat \ {0}
  BY RankedFacts, WeightType
<1>. HIDE DEF R
<1>2. \A u, v \in R :
          Preferred(files, score, chosen, u, v) <=>
             \/ m(u, v) > m(v, u)
             \/ m(u, v) = m(v, u) /\ score[u] > score[v]
             \/ m(u, v) = m(v, u) /\ score[u] = score[v] /\ Line(files, u) < Line(files, v)
             \/ m(u, v) = m(v, u) /\ score[u] = score[v] /\ Line(files, u) = Line(files, v)
                /\ PathRank(u[1]) >= PathRank(v[1])
  BY DEF Preferred, Weight
<1>3. \A u, v \in R : m(u, v) \in Nat
  <2>1. \A a, b \in Nat : a * b \in Nat
    OBVIOUS
  <2>. HIDE DEF w
  <2>. QED  BY <1>1, <2>1
<1>4. \A u, v, t \in R :
          m(u, v) >= m(v, u) /\ m(v, t) >= m(t, v) => m(u, t) >= m(t, u)
  <2>. HIDE DEF w
  <2>. QED  BY <1>1, FractionsAreOrdered, Zenon
<1>. HIDE DEF m, w
<1>. x \in R /\ y \in R /\ z \in R
  BY DEF R
<1>5. Preferred(files, score, chosen, x, y) \/ Preferred(files, score, chosen, y, x)
  <2>1. m(x, y) \in Nat /\ m(y, x) \in Nat
    BY <1>3
  <2>2. /\ score[x] \in Nat /\ Line(files, x) \in Nat /\ PathRank(x[1]) \in Nat
        /\ score[y] \in Nat /\ Line(files, y) \in Nat /\ PathRank(y[1]) \in Nat
    BY <1>1
  <2>. QED  BY <1>2, <2>1, <2>2
<1>6. ASSUME Preferred(files, score, chosen, x, y), Preferred(files, score, chosen, y, z)
      PROVE  Preferred(files, score, chosen, x, z)
  <2>1. m(x, y) >= m(y, x) /\ m(y, z) >= m(z, y)
    BY <1>2, <1>3, <1>6
  <2>2. m(x, z) >= m(z, x)
    BY <1>4, <2>1
  <2>3. CASE m(x, z) > m(z, x)
    BY <1>2, <2>3
  <2>4. CASE m(x, z) = m(z, x)
    <3>1. m(y, x) = m(x, y) /\ m(z, y) = m(y, z)
      <4>1. m(z, x) >= m(x, z) /\ m(x, y) >= m(y, x) => m(z, y) >= m(y, z)
        BY <1>4
      <4>2. m(y, z) >= m(z, y) /\ m(z, x) >= m(x, z) => m(y, x) >= m(x, y)
        BY <1>4
      <4>. QED  BY <1>3, <2>1, <2>4, <4>1, <4>2
    <3>2. \/ score[x] > score[y]
          \/ score[x] = score[y] /\ Line(files, x) < Line(files, y)
          \/ score[x] = score[y] /\ Line(files, x) = Line(files, y)
             /\ PathRank(x[1]) >= PathRank(y[1])
      BY <1>2, <1>3, <1>6, <3>1
    <3>3. \/ score[y] > score[z]
          \/ score[y] = score[z] /\ Line(files, y) < Line(files, z)
          \/ score[y] = score[z] /\ Line(files, y) = Line(files, z)
             /\ PathRank(y[1]) >= PathRank(z[1])
      BY <1>2, <1>3, <1>6, <3>1
    <3>4. \/ score[x] > score[z]
          \/ score[x] = score[z] /\ Line(files, x) < Line(files, z)
          \/ score[x] = score[z] /\ Line(files, x) = Line(files, z)
             /\ PathRank(x[1]) >= PathRank(z[1])
      <4>1. /\ score[x] \in Nat /\ score[y] \in Nat /\ score[z] \in Nat
            /\ Line(files, x) \in Nat /\ Line(files, y) \in Nat /\ Line(files, z) \in Nat
            /\ PathRank(x[1]) \in Nat /\ PathRank(y[1]) \in Nat /\ PathRank(z[1]) \in Nat
        BY <1>1
      <4>2. PICK a, b, c, k, l, n, p, q, r :
                /\ a = score[x] /\ b = score[y] /\ c = score[z]
                /\ k = Line(files, x) /\ l = Line(files, y) /\ n = Line(files, z)
                /\ p = PathRank(x[1]) /\ q = PathRank(y[1]) /\ r = PathRank(z[1])
        OBVIOUS
      <4>3. /\ a \in Nat /\ b \in Nat /\ c \in Nat /\ k \in Nat /\ l \in Nat /\ n \in Nat
            /\ p \in Nat /\ q \in Nat /\ r \in Nat
        BY <4>1, <4>2
      <4>4. /\ a > b \/ (a = b /\ k < l) \/ (a = b /\ k = l /\ p >= q)
            /\ b > c \/ (b = c /\ l < n) \/ (b = c /\ l = n /\ q >= r)
        BY <3>2, <3>3, <4>2, Zenon
      <4>5. a > c \/ (a = c /\ k < n) \/ (a = c /\ k = n /\ p >= r)
        BY <4>3, <4>4
      <4>. QED  BY <4>2, <4>5, Zenon
    <3>. QED  BY <1>2, <2>4, <3>4
  <2>. QED  BY <1>3, <2>2, <2>3, <2>4
<1>. QED
  BY <1>5, <1>6

\* The one that is chosen next.
Best(files, score, chosen) ==
    CHOOSE s \in Ranked(files, score) \ ToSet(chosen) :
        \A u \in Ranked(files, score) \ ToSet(chosen) : Preferred(files, score, chosen, s, u)

LEMMA BestFacts ==
    ASSUME NEW files, Mapped(files), NEW score \in Scores,
           NEW chosen \in Seq(Ranked(files, score)),
           Ranked(files, score) \ ToSet(chosen) # {}
    PROVE  /\ Best(files, score, chosen) \in Ranked(files, score) \ ToSet(chosen)
           /\ \A u \in Ranked(files, score) \ ToSet(chosen) :
                 Preferred(files, score, chosen, Best(files, score, chosen), u)
<1>. DEFINE left == Ranked(files, score) \ ToSet(chosen)
            R == {p \in left \X left : Preferred(files, score, chosen, p[1], p[2])}
<1>1. IsFiniteSet(left)
  BY RankedFacts, FS_Subset
<1>2. \A x, y \in left : <<x, y>> \in R <=> Preferred(files, score, chosen, x, y)
  OBVIOUS
<1>3. \A x \in left : x \in Ranked(files, score)
  OBVIOUS
<1>. HIDE DEF R
<1>4. \A x, y \in left : <<x, y>> \in R \/ <<y, x>> \in R
  BY <1>2, <1>3, PreferenceOrders
<1>5. \A x, y, z \in left : <<x, y>> \in R /\ <<y, z>> \in R => <<x, z>> \in R
  BY <1>2, <1>3, PreferenceOrders
<1>6. PICK x \in left : \A y \in left : <<x, y>> \in R
  <2>. HIDE DEF left
  <2>1. left # {}
    BY DEF left
  <2>. QED  BY <1>1, <1>4, <1>5, <2>1, BestOfMany
<1>7. \E s \in left : \A u \in left : Preferred(files, score, chosen, s, u)
  BY <1>2, <1>6
<1>. QED
  BY <1>7 DEF Best

\* What is chosen in n steps: symbols of the map, each once, the best one first.
Chosen(files, score, p, n) ==
    /\ p \in Seq(Ranked(files, score)) /\ Distinct(p) /\ Len(p) = n
    /\ n >= 1 => p[1] = Best(files, score, <<>>)

LEMMA ChosenGrows ==
    ASSUME NEW files, Mapped(files), NEW score \in Scores,
           NEW n \in Nat, n < Cardinality(Ranked(files, score)),
           NEW p, Chosen(files, score, p, n)
    PROVE  Chosen(files, score, Append(p, Best(files, score, p)), n + 1)
<1>. DEFINE R == Ranked(files, score)
<1>1. p \in Seq(R) /\ Distinct(p) /\ Len(p) = n /\ DOMAIN p = 1 .. n
  BY DEF Chosen
<1>2. PICK b : b = Best(files, score, p)
  OBVIOUS
<1>3. b \in R \ ToSet(p)
  <2>1. IsFiniteSet(ToSet(p)) /\ Cardinality(ToSet(p)) = n
    <3>. HIDE DEF R
    <3>. QED  BY <1>1, CountOfDistinct
  <2>2. R \ ToSet(p) # {}
    <3>. SUFFICES ASSUME R \subseteq ToSet(p) PROVE FALSE
      OBVIOUS
    <3>1. Cardinality(R) <= n /\ Cardinality(R) \in Nat
      <4>1. IsFiniteSet(R)
        BY RankedFacts
      <4>. HIDE DEF R
      <4>. QED  BY <2>1, <4>1, FS_Subset, FS_CardinalityType
    <3>. QED  BY <3>1
  <2>. QED  BY <1>1, <1>2, <2>2, BestFacts
<1>. HIDE DEF R
<1>4. PICK q : q = Append(p, b)
  OBVIOUS
<1>5. q \in Seq(R) /\ Len(q) = n + 1 /\ q[n + 1] = b /\ \A i \in 1 .. n : q[i] = p[i]
  BY <1>1, <1>3, <1>4
<1>6. DOMAIN q = 1 .. n + 1
  BY <1>5
<1>7. ASSUME NEW i \in 1 .. n PROVE p[i] # b
  BY <1>1, <1>3, <1>7 DEF ToSet
<1>8. ASSUME NEW i \in 1 .. n + 1, NEW j \in 1 .. n + 1, q[i] = q[j] PROVE i = j
  <2>1. CASE i \in 1 .. n /\ j \in 1 .. n
    BY <1>1, <1>5, <1>8, <2>1 DEF Distinct
  <2>2. \A k \in 1 .. n + 1 : k \in 1 .. n \/ k = n + 1
    OBVIOUS
  <2>. QED  BY <1>5, <1>7, <1>8, <2>1, <2>2
<1>9. q[1] = Best(files, score, <<>>)
  <2>1. CASE n = 0
    BY <1>1, <1>2, <1>5, <2>1
  <2>2. CASE n # 0
    BY <1>5, <2>2 DEF Chosen
  <2>. QED  BY <2>1, <2>2
<1>. QED
  BY <1>2, <1>4, <1>5, <1>6, <1>8, <1>9 DEF Chosen, Distinct, R

\* So whoever appends the best one N times has chosen N.
LEMMA ChosenAll ==
    ASSUME NEW files, Mapped(files), NEW score \in Scores,
           NEW N \in Nat, N <= Cardinality(Ranked(files, score)),
           NEW g, g[0] = <<>>,
           \A n \in 1 .. N :
              Chosen(files, score, g[n - 1], n - 1)
                  => g[n] = Append(g[n - 1], Best(files, score, g[n - 1]))
    PROVE  \A n \in 0 .. N : Chosen(files, score, g[n], n)
<1>. DEFINE Good == {n \in 0 .. N : Chosen(files, score, g[n], n)}
<1>1. 0 \in Good
  <2>1. PICK q : q = g[0]
    OBVIOUS
  <2>2. q \in Seq(Ranked(files, score)) /\ Len(q) = 0 /\ DOMAIN q = {}
    BY <2>1
  <2>3. Distinct(q)
    BY <2>2 DEF Distinct
  <2>4. Chosen(files, score, q, 0)
    BY <2>2, <2>3 DEF Chosen
  <2>. QED  BY <2>1, <2>4
<1>2. ASSUME NEW n \in 0 .. N, n \in Good, n + 1 <= N PROVE n + 1 \in Good
  <2>1. n + 1 \in 1 .. N /\ n + 1 \in 0 .. N /\ (n + 1) - 1 = n /\ n \in Nat
    BY <1>2, NextUpTo, Zenon
  <2>2. Chosen(files, score, g[n], n)
    BY <1>2
  <2>3. g[n + 1] = Append(g[n], Best(files, score, g[n]))
    BY <2>1, <2>2
  <2>4. n < Cardinality(Ranked(files, score))
    <3>1. Cardinality(Ranked(files, score)) \in Nat
      BY RankedFacts, FS_CardinalityType
    <3>. QED  BY <1>2, <3>1
  <2>5. Chosen(files, score, g[n + 1], n + 1)
    BY <2>1, <2>2, <2>3, <2>4, ChosenGrows
  <2>. QED  BY <2>1, <2>5
<1>. HIDE DEF Good
<1>3. 0 .. N \subseteq Good
  BY <1>1, <1>2, UpTo
<1>. QED
  BY <1>3 DEF Good

Total(files, score) ==
    LET n == Cardinality(Ranked(files, score)) IN IF n < MaxResults THEN n ELSE MaxResults

\* The recursion of Selected.
Picks(pick, files, score) ==
    pick = [n \in 0 .. Total(files, score) |->
              IF n = 0 THEN <<>>
              ELSE LET chosen == pick[n - 1]
                       left == Ranked(files, score) \ ToSet(chosen)
                   IN  Append(chosen, CHOOSE s \in left :
                           \A u \in left : Preferred(files, score, chosen, s, u))]

\* What is selected is of the map, each symbol once, and the best one first.
LEMMA SelectedFacts ==
    ASSUME NEW files, Mapped(files), NEW score \in Scores
    PROVE  /\ Selected(files, score) \in Seq(Ranked(files, score))
           /\ Distinct(Selected(files, score))
           /\ Ranked(files, score) # {} =>
                 /\ Len(Selected(files, score)) >= 1
                 /\ Selected(files, score)[1] = Best(files, score, <<>>)
<1>. DEFINE R == Ranked(files, score)
            N == Total(files, score)
            best(p) == Best(files, score, p)
            step == [p \in Seq(R) \X (1 .. N) |->
                        IF R \ ToSet(p[1]) # {} THEN Append(p[1], best(p[1])) ELSE p[1]]
<1>1. IsFiniteSet(R) /\ Cardinality(R) \in Nat
  BY RankedFacts, FS_CardinalityType
<1>2. N \in Nat /\ N <= Cardinality(R) /\ (Cardinality(R) # 0 => N >= 1)
  BY <1>1, TextAssumption DEF Total
<1>3. step \in [Seq(R) \X (1 .. N) -> Seq(R)]
  <2>1. ASSUME NEW p \in Seq(R), R \ ToSet(p) # {} PROVE Append(p, best(p)) \in Seq(R)
    <3>1. best(p) \in R
      BY <2>1, BestFacts
    <3>. HIDE DEF R, best
    <3>. QED  BY <3>1
  <2>. HIDE DEF R, best, N
  <2>. QED  BY <2>1
<1>4. \A p \in Seq(R), n \in 1 .. N :
          R \ ToSet(p) # {} => step[<<p, n>>] = Append(p, best(p))
  OBVIOUS
<1>5. PICK f \in [0 .. N -> Seq(R)] : Unfolds(f, N, <<>>, step)
  <2>1. <<>> \in Seq(R)
    OBVIOUS
  <2>. HIDE DEF step, N, R
  <2>. QED  BY <1>2, <1>3, <2>1, Recursion
<1>. HIDE DEF step
<1>6. ASSUME NEW n \in 1 .. N, Chosen(files, score, f[n - 1], n - 1)
      PROVE  f[n] = Append(f[n - 1], best(f[n - 1]))
  <2>1. f[n - 1] \in Seq(R) /\ Distinct(f[n - 1]) /\ Len(f[n - 1]) = n - 1
    BY <1>6 DEF Chosen
  <2>2. Cardinality(ToSet(f[n - 1])) = n - 1 /\ IsFiniteSet(ToSet(f[n - 1]))
    <3>. HIDE DEF R
    <3>. QED  BY <2>1, CountOfDistinct
  <2>3. R \ ToSet(f[n - 1]) # {}
    <3>. SUFFICES ASSUME R \subseteq ToSet(f[n - 1]) PROVE FALSE
      OBVIOUS
    <3>. HIDE DEF R
    <3>1. Cardinality(R) <= n - 1
      BY <2>2, FS_Subset
    <3>2. n \in 1 .. N
      OBVIOUS
    <3>. HIDE DEF N
    <3>. QED  BY <1>1, <1>2, <3>1, <3>2
  <2>4. f[n] = step[<<f[n - 1], n>>]
    BY <1>5 DEF Unfolds
  <2>. HIDE DEF R, N, best
  <2>. QED  BY <1>4, <2>1, <2>3, <2>4
<1>7. f[0] = <<>>
  BY <1>5 DEF Unfolds
<1>8. \A n \in 0 .. N : Chosen(files, score, f[n], n)
  <2>. HIDE DEF N
  <2>. QED  BY <1>1, <1>2, <1>6, <1>7, ChosenAll
<1>9. Picks(f, files, score)
  <2>1. ASSUME NEW n \in 0 .. N
        PROVE  f[n] = IF n = 0 THEN <<>> ELSE Append(f[n - 1], best(f[n - 1]))
    <3>1. CASE n = 0
      BY <1>7, <3>1
    <3>2. CASE n # 0
      <4>1. n \in 1 .. N /\ n - 1 \in 0 .. N
        BY <1>2, <3>2
      <4>. HIDE DEF N, best
      <4>. QED  BY <1>6, <1>8, <3>2, <4>1
    <3>. QED  BY <3>1, <3>2
  <2>2. f = [n \in 0 .. N |-> f[n]]
    OBVIOUS
  <2>. HIDE DEF N
  <2>3. f = [n \in 0 .. N |-> IF n = 0 THEN <<>> ELSE Append(f[n - 1], best(f[n - 1]))]
    <3>. HIDE DEF best
    <3>. QED  BY <2>1, <2>2
  <2>. QED  BY <2>3 DEF Picks, Best, N
<1>10. PICK g : Picks(g, files, score) /\ Selected(files, score) = g[N]
  <2>1. Selected(files, score) = (CHOOSE g : Picks(g, files, score))[N]
    BY DEF Selected, Picks, Total
  <2>2. Picks(CHOOSE g : Picks(g, files, score), files, score)
    <3>. HIDE DEF Picks
    <3>. QED  BY <1>9, Zenon
  <2>. HIDE DEF N
  <2>. QED  BY <2>1, <2>2
<1>11. \A n \in 0 .. N : g[n] = IF n = 0 THEN <<>> ELSE Append(g[n - 1], best(g[n - 1]))
  <2>1. g = [n \in 0 .. N |-> IF n = 0 THEN <<>> ELSE Append(g[n - 1], best(g[n - 1]))]
    BY <1>10 DEF Picks, Best
  <2>. HIDE DEF N, best
  <2>2. PICK F : F = [n \in 0 .. N |-> IF n = 0 THEN <<>> ELSE Append(g[n - 1], best(g[n - 1]))]
    OBVIOUS
  <2>3. \A n \in 0 .. N : F[n] = IF n = 0 THEN <<>> ELSE Append(g[n - 1], best(g[n - 1]))
    BY <2>2
  <2>4. g = F
    BY <2>1, <2>2, Zenon
  <2>. QED  BY <2>3, <2>4, Zenon
<1>12. Chosen(files, score, g[N], N)
  <2>1. g[0] = <<>> /\ N \in 0 .. N
    BY <1>2, <1>11
  <2>. HIDE DEF N
  <2>2. ASSUME NEW n \in 1 .. N PROVE g[n] = Append(g[n - 1], best(g[n - 1]))
    <3>1. n \in 0 .. N /\ n # 0
      OBVIOUS
    <3>. HIDE DEF best
    <3>. QED  BY <1>11, <3>1, Zenon
  <2>. QED  BY <1>1, <1>2, <2>1, <2>2, ChosenAll
<1>13. R # {} => N >= 1
  BY <1>1, <1>2, FS_EmptySet
<1>. HIDE DEF N
<1>. QED
  BY <1>2, <1>10, <1>12, <1>13 DEF Chosen

\* With nothing chosen the weights are equal, so a symbol of a higher score than all
\* others is the best.
LEMMA HighestIsBest ==
    ASSUME NEW files, Mapped(files), NEW score \in Scores, NEW s \in Ranked(files, score),
           \A u \in Ranked(files, score) \ {s} : score[s] > score[u]
    PROVE  Best(files, score, <<>>) = s
<1>. DEFINE R == Ranked(files, score)
            p == <<>>
<1>1. p \in Seq(R) /\ DOMAIN p = {}
  OBVIOUS
<1>2. ToSet(p) = {}
  BY <1>1 DEF ToSet
<1>3. PICK b : b = Best(files, score, p)
  OBVIOUS
<1>4. b \in R /\ Preferred(files, score, p, b, s)
  <2>1. R \ ToSet(p) # {} /\ s \in R \ ToSet(p)
    BY <1>2
  <2>. HIDE DEF p
  <2>. QED  BY <1>1, <1>2, <1>3, <2>1, BestFacts
<1>5. b # s => score[s] > score[b]
  BY <1>4
<1>6. score[b] \in Nat /\ score[s] \in Nat
  BY <1>4, RankedFacts
<1>7. \A x : Cardinality({i \in DOMAIN p : p[i][1] = x[1]}) = 0
  <2>. HIDE DEF p
  <2>1. \A x : {i \in DOMAIN p : p[i][1] = x[1]} = {}
    BY <1>1
  <2>. QED  BY <2>1, FS_EmptySet
<1>. HIDE DEF p
<1>8. \/ score[b] * (100 + 35 * 0) > score[s] * (100 + 35 * 0)
      \/ score[b] * (100 + 35 * 0) = score[s] * (100 + 35 * 0)
  BY <1>4, <1>7 DEF Preferred
<1>9. score[b] >= score[s]
  BY <1>6, <1>8
<1>10. b = s
  BY <1>5, <1>6, <1>9
<1>. QED
  BY <1>3, <1>10 DEF p

-----------------------------------------------------------------------------
(* The repository map: the lines of a text *)

Pairs == Files \X Names
Rows == {<<f>> : f \in Files} \cup Pairs

LEMMA RowFacts ==
    /\ \A f \in Files : Len(<<f>>) = 1 /\ <<f>> \in Rows
    /\ \A s \in Pairs : Len(s) = 2 /\ s \in Rows /\ s[1] \in Files /\ s[1] # None
<1>1. ASSUME NEW f \in Files PROVE Len(<<f>>) = 1 /\ <<f>> \in Rows
  BY DEF Rows
<1>2. ASSUME NEW s \in Pairs PROVE Len(s) = 2 /\ s \in Rows /\ s[1] \in Files /\ s[1] # None
  <2>1. PICK f \in Files, m \in Names : s = <<f, m>>
    BY DEF Pairs
  <2>2. Len(<<f, m>>) = 2
    OBVIOUS
  <2>3. None \notin Files
    BY TextAssumption DEF None
  <2>. QED  BY <2>1, <2>2, <2>3 DEF Rows
<1>. QED
  BY <1>1, <1>2

SymbolsOf(l) == {i \in DOMAIN l : Len(l[i]) = 2}

\* l has some of the first n that were chosen, each once and below its own path.
Lined(l, chosen, n) ==
    /\ l \in Seq(Rows)
    /\ \A i \in SymbolsOf(l) : \E k \in 1 .. n : l[i] = chosen[k]
    /\ \A i, j \in SymbolsOf(l) : l[i] = l[j] => i = j
    /\ \A i \in SymbolsOf(l) :
          \E h \in 1 .. i - 1 : l[h] = <<l[i][1]>> /\ h + 1 .. i \subseteq SymbolsOf(l)

\* The last path of l is f.
Headed(l, f) == \E h \in 1 .. Len(l) : l[h] = <<f>> /\ h + 1 .. Len(l) \subseteq SymbolsOf(l)

Shows(l, s) == \E i \in SymbolsOf(l) : l[i] = s

\* q is l and a row more.
Longer(q, l, row) ==
    /\ q \in Seq(Rows) /\ Len(q) = Len(l) + 1 /\ Len(l) \in Nat
    /\ q[Len(l) + 1] = row /\ \A i \in 1 .. Len(l) : q[i] = l[i]
    /\ SymbolsOf(q) = SymbolsOf(l) \cup (IF Len(row) = 2 THEN {Len(l) + 1} ELSE {})
    /\ SymbolsOf(l) \subseteq 1 .. Len(l)

LEMMA RowAdded ==
    ASSUME NEW l \in Seq(Rows), NEW row \in Rows
    PROVE  Longer(Append(l, row), l, row)
<1>. PICK q : q = Append(l, row)
  OBVIOUS
<1>1. /\ q \in Seq(Rows) /\ Len(q) = Len(l) + 1 /\ Len(l) \in Nat
      /\ DOMAIN q = 1 .. Len(l) + 1 /\ DOMAIN l = 1 .. Len(l)
      /\ q[Len(l) + 1] = row /\ \A i \in 1 .. Len(l) : q[i] = l[i]
  OBVIOUS
<1>2. PICK n : n = Len(l)
  OBVIOUS
<1>3. \A i \in 1 .. n + 1 : i \in 1 .. n \/ i = n + 1
  BY <1>1, <1>2
<1>4. n + 1 \notin 1 .. n /\ n + 1 \in 1 .. n + 1 /\ 1 .. n \subseteq 1 .. n + 1
  BY <1>1, <1>2
<1>5. SymbolsOf(q) = SymbolsOf(l) \cup (IF Len(row) = 2 THEN {n + 1} ELSE {})
  BY <1>1, <1>2, <1>3, <1>4 DEF SymbolsOf
<1>6. SymbolsOf(l) \subseteq 1 .. Len(l)
  BY <1>1 DEF SymbolsOf
<1>7. Longer(q, l, row)
  BY <1>1, <1>2, <1>5, <1>6 DEF Longer
<1>. QED
  BY <1>7

LEMMA PathAdded ==
    ASSUME NEW chosen, NEW n \in Nat, NEW l, Lined(l, chosen, n), NEW f \in Files,
           NEW q, q = Append(l, <<f>>)
    PROVE  /\ Lined(q, chosen, n) /\ Headed(q, f)
           /\ \A s : Shows(l, s) => Shows(q, s)
<1>. PICK row : row = <<f>>
  OBVIOUS
<1>1. l \in Seq(Rows) /\ Len(row) = 1 /\ row \in Rows /\ q = Append(l, row)
  BY RowFacts DEF Lined
<1>2. PICK m : m = Len(l)
  OBVIOUS
<1>3. /\ q \in Seq(Rows) /\ Len(q) = m + 1 /\ m \in Nat
      /\ q[m + 1] = <<f>> /\ \A i \in 1 .. m : q[i] = l[i]
      /\ SymbolsOf(q) = SymbolsOf(l) /\ SymbolsOf(l) \subseteq 1 .. m
  <2>1. /\ q \in Seq(Rows) /\ Len(q) = Len(l) + 1 /\ Len(l) \in Nat
        /\ q[Len(l) + 1] = row /\ \A i \in 1 .. Len(l) : q[i] = l[i]
        /\ SymbolsOf(q) = SymbolsOf(l) \cup (IF Len(row) = 2 THEN {Len(l) + 1} ELSE {})
        /\ SymbolsOf(l) \subseteq 1 .. Len(l)
    <3>1. Longer(q, l, row)
      BY <1>1, RowAdded
    <3>. QED  BY <3>1 DEF Longer
  <2>2. Len(row) # 2
    BY <1>1
  <2>. QED  BY <1>2, <2>1, <2>2, Zenon
<1>4. ASSUME NEW i \in SymbolsOf(q)
      PROVE  \E h \in 1 .. i - 1 : q[h] = <<q[i][1]>> /\ h + 1 .. i \subseteq SymbolsOf(q)
  <2>1. i \in SymbolsOf(l) /\ i \in 1 .. m /\ q[i] = l[i]
    BY <1>3
  <2>2. PICK h \in 1 .. i - 1 : l[h] = <<l[i][1]>> /\ h + 1 .. i \subseteq SymbolsOf(l)
    BY <2>1 DEF Lined
  <2>3. h \in 1 .. m
    BY <1>3, <2>1
  <2>. QED  BY <1>3, <2>1, <2>2, <2>3
<1>5. Headed(q, f)
  <2>1. m + 1 \in 1 .. Len(q) /\ (m + 1) + 1 .. Len(q) = {}
    BY <1>3
  <2>. QED  BY <1>3, <2>1 DEF Headed
<1>6. \A i \in SymbolsOf(q) : i \in SymbolsOf(l) /\ q[i] = l[i]
  BY <1>3
<1>7. Lined(q, chosen, n)
  <2>1. /\ \A i \in SymbolsOf(l) : \E k \in 1 .. n : l[i] = chosen[k]
        /\ \A i, j \in SymbolsOf(l) : l[i] = l[j] => i = j
    BY DEF Lined
  <2>2. ASSUME NEW i \in SymbolsOf(q) PROVE \E k \in 1 .. n : q[i] = chosen[k]
    <3>1. i \in SymbolsOf(l) /\ q[i] = l[i]
      BY <1>6
    <3>2. PICK k \in 1 .. n : l[i] = chosen[k]
      BY <2>1, <3>1
    <3>. QED  BY <3>1, <3>2
  <2>3. \A i, j \in SymbolsOf(q) : q[i] = q[j] => i = j
    BY <1>6, <2>1
  <2>. QED  BY <1>3, <1>4, <2>2, <2>3 DEF Lined
<1>8. \A s : Shows(l, s) => Shows(q, s)
  BY <1>3, <1>6 DEF Shows
<1>. QED
  BY <1>5, <1>7, <1>8

LEMMA SymbolAdded ==
    ASSUME NEW chosen \in Seq(Pairs), Distinct(chosen), NEW n \in Nat, n + 1 <= Len(chosen),
           NEW l, Lined(l, chosen, n), Headed(l, chosen[n + 1][1]),
           NEW q, q = Append(l, chosen[n + 1])
    PROVE  /\ Lined(q, chosen, n + 1) /\ Headed(q, chosen[n + 1][1])
           /\ Shows(q, chosen[n + 1])
           /\ \A s : Shows(l, s) => Shows(q, s)
<1>1. PICK x : x = chosen[n + 1]
  OBVIOUS
<1>2. /\ n + 1 \in 1 .. Len(chosen) /\ DOMAIN chosen = 1 .. Len(chosen) /\ Len(chosen) \in Nat
      /\ 1 .. n \subseteq 1 .. Len(chosen) /\ n + 1 \notin 1 .. n
  OBVIOUS
<1>3. x \in Pairs
  BY <1>1, <1>2
<1>4. l \in Seq(Rows) /\ Len(x) = 2 /\ x \in Rows
  BY <1>3, RowFacts DEF Lined
<1>5. PICK m : m = Len(l)
  OBVIOUS
<1>6. /\ q \in Seq(Rows) /\ Len(q) = m + 1 /\ m \in Nat
      /\ q[m + 1] = x /\ \A i \in 1 .. m : q[i] = l[i]
      /\ SymbolsOf(q) = SymbolsOf(l) \cup {m + 1} /\ SymbolsOf(l) \subseteq 1 .. m
  <2>1. q = Append(l, x)
    BY <1>1
  <2>2. /\ q \in Seq(Rows) /\ Len(q) = Len(l) + 1 /\ Len(l) \in Nat
        /\ q[Len(l) + 1] = x /\ \A i \in 1 .. Len(l) : q[i] = l[i]
        /\ SymbolsOf(q) = SymbolsOf(l) \cup (IF Len(x) = 2 THEN {Len(l) + 1} ELSE {})
        /\ SymbolsOf(l) \subseteq 1 .. Len(l)
    <3>1. Longer(q, l, x)
      BY <1>4, <2>1, RowAdded
    <3>. QED  BY <3>1 DEF Longer
  <2>. QED  BY <1>4, <1>5, <2>2, Zenon
<1>7. PICK t \in 1 .. m : l[t] = <<x[1]>> /\ t + 1 .. m \subseteq SymbolsOf(l)
  BY <1>1, <1>5 DEF Headed
<1>8. t + 1 .. m + 1 \subseteq SymbolsOf(q)
  <2>1. \A i \in t + 1 .. m + 1 : i \in t + 1 .. m \/ i = m + 1
    BY <1>6
  <2>. QED  BY <1>6, <1>7, <2>1
<1>9. q[t] = <<x[1]>> /\ t \in 1 .. m + 1 /\ t \in 1 .. (m + 1) - 1
  BY <1>6, <1>7
<1>10. Headed(q, x[1])
  BY <1>6, <1>8, <1>9 DEF Headed
<1>11. ASSUME NEW i \in SymbolsOf(q)
       PROVE  \E h \in 1 .. i - 1 : q[h] = <<q[i][1]>> /\ h + 1 .. i \subseteq SymbolsOf(q)
  <2>1. CASE i = m + 1
    BY <1>6, <1>8, <1>9, <2>1
  <2>2. CASE i # m + 1
    <3>1. i \in SymbolsOf(l) /\ i \in 1 .. m /\ q[i] = l[i]
      BY <1>6, <2>2
    <3>2. PICK h \in 1 .. i - 1 : l[h] = <<l[i][1]>> /\ h + 1 .. i \subseteq SymbolsOf(l)
      BY <3>1 DEF Lined
    <3>3. h \in 1 .. m
      BY <1>6, <3>1
    <3>. QED  BY <1>6, <3>1, <3>2, <3>3
  <2>. QED  BY <2>1, <2>2
<1>12. \A i \in SymbolsOf(q) : (i \in SymbolsOf(l) /\ q[i] = l[i]) \/ (i = m + 1 /\ q[i] = x)
  BY <1>6
<1>13. \A i \in SymbolsOf(l) : \E k \in 1 .. n : l[i] = chosen[k]
  BY DEF Lined
<1>14. \A i \in SymbolsOf(l) : l[i] # x
  BY <1>1, <1>2, <1>13 DEF Distinct
<1>15. \A i \in SymbolsOf(q) : \E k \in 1 .. n + 1 : q[i] = chosen[k]
  <2>1. 1 .. n \subseteq 1 .. n + 1 /\ n + 1 \in 1 .. n + 1
    OBVIOUS
  <2>. QED  BY <1>1, <1>12, <1>13, <2>1
<1>16. ASSUME NEW i \in SymbolsOf(q), NEW j \in SymbolsOf(q), q[i] = q[j] PROVE i = j
  <2>1. \A a, b \in SymbolsOf(l) : l[a] = l[b] => a = b
    BY DEF Lined
  <2>2. (i \in SymbolsOf(l) /\ q[i] = l[i]) \/ (i = m + 1 /\ q[i] = x)
    BY <1>12
  <2>3. (j \in SymbolsOf(l) /\ q[j] = l[j]) \/ (j = m + 1 /\ q[j] = x)
    BY <1>12
  <2>. QED  BY <1>14, <1>16, <2>1, <2>2, <2>3, Zenon
<1>17. Lined(q, chosen, n + 1)
  BY <1>6, <1>11, <1>15, <1>16 DEF Lined
<1>18. Shows(q, x) /\ \A s : Shows(l, s) => Shows(q, s)
  BY <1>6, <1>12 DEF Shows
<1>. QED
  BY <1>1, <1>10, <1>17, <1>18

Drawings == [lines : Seq(Rows), cost : Nat, path : Files \cup {None}]

Start == [lines |-> <<>>, cost |-> HeaderTokens, path |-> None]

\* Drawing one symbol more, or not.
Drawing(r, s, budget) ==
    LET new == s[1] # r.path
        cost == r.cost + LineTokens + (IF new THEN PathTokens ELSE 0)
    IN  IF cost > budget THEN r
        ELSE [lines |-> r.lines \o (IF new THEN <<<<s[1]>>, s>> ELSE <<s>>),
              cost |-> cost, path |-> s[1]]

\* The three cases: left out, under a path of its own, under the path above.
DrawnOn(t, r, s, budget) ==
    \/ t = r /\ r.cost + LineTokens + PathTokens > budget
    \/ /\ s[1] # r.path /\ t.path = s[1] /\ t.cost <= budget
       /\ t.lines = Append(Append(r.lines, <<s[1]>>), s)
    \/ /\ s[1] = r.path /\ t.path = s[1] /\ t.cost <= budget
       /\ t.lines = Append(r.lines, s)

LEMMA DrawingCases ==
    ASSUME NEW r \in Drawings, NEW s \in Pairs, NEW budget \in Nat
    PROVE  /\ Drawing(r, s, budget) \in Drawings
           /\ DrawnOn(Drawing(r, s, budget), r, s, budget)
<1>. PICK t : t = Drawing(r, s, budget)
  OBVIOUS
<1>. SUFFICES t \in Drawings /\ DrawnOn(t, r, s, budget)
  OBVIOUS
<1>1. r.lines \in Seq(Rows) /\ r.cost \in Nat /\ r.path \in Files \cup {None}
  BY DEF Drawings
<1>2. s \in Rows /\ <<s[1]>> \in Rows /\ s[1] \in Files
  BY RowFacts
<1>3. LineTokens \in Nat /\ PathTokens \in Nat
  BY ScoreAssumption
<1>4. CASE s[1] # r.path
  <2>. PICK c : c = r.cost + LineTokens + PathTokens
    OBVIOUS
  <2>1. c \in Nat
    BY <1>1, <1>3
  <2>2. CASE c > budget
    <3>1. t = r
      BY <1>4, <2>2 DEF Drawing
    <3>. QED  BY <2>2, <3>1 DEF DrawnOn
  <2>3. CASE ~(c > budget)
    <3>1. t = [lines |-> r.lines \o <<<<s[1]>>, s>>, cost |-> c, path |-> s[1]]
      BY <1>4, <2>3 DEF Drawing
    <3>2. r.lines \o <<<<s[1]>>, s>> = Append(Append(r.lines, <<s[1]>>), s)
      <4>1. PICK l, a, b : l = r.lines /\ a = <<s[1]>> /\ b = s
        OBVIOUS
      <4>2. l \in Seq(Rows) /\ a \in Rows /\ b \in Rows
        BY <1>1, <1>2, <4>1
      <4>3. l \o <<a, b>> = Append(Append(l, a), b)
        BY <4>2
      <4>. QED  BY <4>1, <4>3
    <3>3. Append(Append(r.lines, <<s[1]>>), s) \in Seq(Rows)
      BY <1>1, <1>2
    <3>4. c <= budget
      BY <2>1, <2>3
    <3>. QED  BY <1>2, <1>4, <2>1, <3>1, <3>2, <3>3, <3>4 DEF Drawings, DrawnOn
  <2>. QED  BY <2>2, <2>3
<1>5. CASE s[1] = r.path
  <2>. PICK c : c = r.cost + LineTokens + 0
    OBVIOUS
  <2>1. c \in Nat /\ c = r.cost + LineTokens
    BY <1>1, <1>3
  <2>2. CASE c > budget
    <3>1. t = r
      BY <1>5, <2>2 DEF Drawing
    <3>2. r.cost + LineTokens + PathTokens > budget
      BY <1>1, <1>3, <2>1, <2>2
    <3>. QED  BY <3>1, <3>2 DEF DrawnOn
  <2>3. CASE ~(c > budget)
    <3>1. t = [lines |-> r.lines \o <<s>>, cost |-> c, path |-> s[1]]
      BY <1>5, <2>3 DEF Drawing
    <3>2. r.lines \o <<s>> = Append(r.lines, s) /\ Append(r.lines, s) \in Seq(Rows)
      BY <1>1, <1>2
    <3>3. c <= budget
      BY <2>1, <2>3
    <3>. QED  BY <1>2, <1>5, <2>1, <3>1, <3>2, <3>3 DEF Drawings, DrawnOn
  <2>. QED  BY <2>2, <2>3
<1>. QED
  BY <1>4, <1>5

\* What is drawn after the first n that were chosen.
Drawn(r, chosen, n, budget) ==
    /\ r \in Drawings /\ Lined(r.lines, chosen, n)
    /\ r.lines = <<>> \/ r.cost <= budget
    /\ r.path # None => Headed(r.lines, r.path)
    /\ n = 0 => r = Start
    /\ n >= 1 /\ HeaderTokens + PathTokens + LineTokens <= budget => Shows(r.lines, chosen[1])

LEMMA StartIsDrawn ==
    ASSUME NEW chosen, NEW budget \in Nat
    PROVE  Drawn(Start, chosen, 0, budget)
<1>1. PICK l : l = <<>>
  OBVIOUS
<1>2. l \in Seq(Rows) /\ DOMAIN l = {}
  BY <1>1
<1>3. SymbolsOf(l) = {}
  BY <1>2 DEF SymbolsOf
<1>4. Lined(l, chosen, 0)
  BY <1>2, <1>3 DEF Lined
<1>5. Start \in Drawings /\ Start.lines = l /\ Start.path = None
  BY <1>1, <1>2, ScoreAssumption DEF Start, Drawings
<1>. QED
  BY <1>1, <1>4, <1>5 DEF Drawn

LEMMA OneMoreIsDrawn ==
    ASSUME NEW chosen \in Seq(Pairs), Distinct(chosen), NEW budget \in Nat,
           NEW n \in Nat, n + 1 <= Len(chosen), NEW r, Drawn(r, chosen, n, budget)
    PROVE  Drawn(Drawing(r, chosen[n + 1], budget), chosen, n + 1, budget)
<1>1. PICK s : s = chosen[n + 1]
  OBVIOUS
<1>2. PICK t : t = Drawing(r, s, budget)
  OBVIOUS
<1>3. s \in Pairs /\ n + 1 \in 1 .. Len(chosen) /\ n + 1 >= 1 /\ n + 1 # 0
  BY <1>1
<1>4. s[1] \in Files /\ s[1] # None
  BY <1>3, RowFacts
<1>5. r \in Drawings /\ Lined(r.lines, chosen, n)
  BY DEF Drawn
<1>6. /\ t \in Drawings
      /\ \/ t = r /\ r.cost + LineTokens + PathTokens > budget
         \/ /\ s[1] # r.path /\ t.path = s[1] /\ t.cost <= budget
            /\ t.lines = Append(Append(r.lines, <<s[1]>>), s)
         \/ /\ s[1] = r.path /\ t.path = s[1] /\ t.cost <= budget
            /\ t.lines = Append(r.lines, s)
  <2>1. t \in Drawings /\ DrawnOn(t, r, s, budget)
    BY <1>2, <1>3, <1>5, DrawingCases
  <2>. QED  BY <2>1 DEF DrawnOn
<1>7. CASE t = r /\ r.cost + LineTokens + PathTokens > budget
  <2>1. Lined(r.lines, chosen, n + 1)
    <3>1. 1 .. n \subseteq 1 .. n + 1
      OBVIOUS
    <3>. QED  BY <1>5, <3>1 DEF Lined
  <2>2. ASSUME HeaderTokens + PathTokens + LineTokens <= budget
        PROVE  Shows(r.lines, chosen[1])
    <3>1. CASE n = 0
      <4>1. r.cost = HeaderTokens
        BY <3>1 DEF Drawn, Start
      <4>. QED  BY <1>7, <2>2, <4>1, ScoreAssumption
    <3>2. CASE n # 0
      BY <2>2, <3>2 DEF Drawn
    <3>. QED  BY <3>1, <3>2
  <2>3. (r.lines = <<>> \/ r.cost <= budget) /\ (r.path # None => Headed(r.lines, r.path))
    BY DEF Drawn
  <2>4. Drawn(r, chosen, n + 1, budget)
    BY <1>3, <1>5, <2>1, <2>2, <2>3 DEF Drawn
  <2>. QED  BY <1>1, <1>2, <1>7, <2>4
<1>8. ASSUME NEW l, Lined(l, chosen, n), Headed(l, s[1]), t.lines = Append(l, s),
             \A x : Shows(r.lines, x) => Shows(l, x),
             t.path = s[1], t.cost <= budget
      PROVE  Drawn(t, chosen, n + 1, budget)
  <2>1. /\ Lined(t.lines, chosen, n + 1) /\ Headed(t.lines, s[1]) /\ Shows(t.lines, s)
        /\ \A x : Shows(l, x) => Shows(t.lines, x)
    BY <1>1, <1>8, SymbolAdded
  <2>2. ASSUME HeaderTokens + PathTokens + LineTokens <= budget
        PROVE  Shows(t.lines, chosen[1])
    <3>1. CASE n = 0
      BY <1>1, <2>1, <3>1
    <3>2. CASE n # 0
      <4>1. Shows(r.lines, chosen[1])
        BY <2>2, <3>2 DEF Drawn
      <4>. QED  BY <1>8, <2>1, <4>1
    <3>. QED  BY <3>1, <3>2
  <2>. QED  BY <1>3, <1>6, <1>8, <2>1, <2>2 DEF Drawn
<1>9. CASE /\ s[1] # r.path /\ t.path = s[1] /\ t.cost <= budget
           /\ t.lines = Append(Append(r.lines, <<s[1]>>), s)
  <2>1. PICK l : l = Append(r.lines, <<s[1]>>)
    OBVIOUS
  <2>2. /\ Lined(l, chosen, n) /\ Headed(l, s[1])
        /\ \A x : Shows(r.lines, x) => Shows(l, x)
    <3>1. PICK k, f : k = r.lines /\ f = s[1]
      OBVIOUS
    <3>2. Lined(k, chosen, n) /\ f \in Files /\ l = Append(k, <<f>>)
      BY <1>4, <1>5, <2>1, <3>1
    <3>3. /\ Lined(l, chosen, n) /\ Headed(l, f)
          /\ \A x : Shows(k, x) => Shows(l, x)
      BY <3>2, PathAdded, Zenon
    <3>. QED  BY <3>1, <3>3
  <2>3. Drawn(t, chosen, n + 1, budget)
    BY <1>8, <1>9, <2>1, <2>2
  <2>. QED  BY <1>1, <1>2, <2>3
<1>10. CASE /\ s[1] = r.path /\ t.path = s[1] /\ t.cost <= budget
            /\ t.lines = Append(r.lines, s)
  <2>1. Headed(r.lines, s[1])
    BY <1>4, <1>10 DEF Drawn
  <2>2. Drawn(t, chosen, n + 1, budget)
    BY <1>5, <1>8, <1>10, <2>1
  <2>. QED  BY <1>1, <1>2, <2>2
<1>. QED
  BY <1>6, <1>7, <1>9, <1>10

\* The recursion of Lines.
Draws(go, chosen, budget) ==
    go = [n \in 0 .. Len(chosen) |->
            IF n = 0 THEN [lines |-> <<>>, cost |-> HeaderTokens, path |-> None]
            ELSE LET r == go[n - 1]  s == chosen[n]
                     new == s[1] # r.path
                     cost == r.cost + LineTokens + (IF new THEN PathTokens ELSE 0)
                 IN  IF cost > budget THEN r
                     ELSE [lines |-> r.lines \o (IF new THEN <<<<s[1]>>, s>> ELSE <<s>>),
                           cost |-> cost, path |-> s[1]]]

LEMMA DrawsUnfolds ==
    ASSUME NEW go, NEW chosen, NEW budget
    PROVE  Draws(go, chosen, budget) <=>
              go = [n \in 0 .. Len(chosen) |->
                      IF n = 0 THEN Start ELSE Drawing(go[n - 1], chosen[n], budget)]
BY DEF Draws, Drawing, Start

LEMMA LinesUnfolds ==
    ASSUME NEW chosen \in Seq(Pairs), NEW budget \in Nat
    PROVE  \E go : Draws(go, chosen, budget) /\ Lines(chosen, budget) = go[Len(chosen)]
<1>. DEFINE N == Len(chosen)
            step == [p \in Drawings \X (1 .. N) |-> Drawing(p[1], chosen[p[2]], budget)]
<1>1. N \in Nat /\ \A n \in 1 .. N : chosen[n] \in Pairs
  OBVIOUS
<1>2. step \in [Drawings \X (1 .. N) -> Drawings]
  <2>1. \A p \in Drawings \X (1 .. N) : p[1] \in Drawings /\ chosen[p[2]] \in Pairs
    BY <1>1
  <2>2. \A p \in Drawings \X (1 .. N) : Drawing(p[1], chosen[p[2]], budget) \in Drawings
    BY <2>1, DrawingCases
  <2>. QED  BY <2>2
<1>3. \A r \in Drawings, n \in 1 .. N : step[<<r, n>>] = Drawing(r, chosen[n], budget)
  OBVIOUS
<1>4. PICK f \in [0 .. N -> Drawings] : Unfolds(f, N, Start, step)
  <2>1. Start \in Drawings
    BY StartIsDrawn DEF Drawn
  <2>. HIDE DEF step, N
  <2>. QED  BY <1>1, <1>2, <2>1, Recursion
<1>. HIDE DEF step
<1>5. ASSUME NEW n \in 0 .. N
      PROVE  f[n] = IF n = 0 THEN Start ELSE Drawing(f[n - 1], chosen[n], budget)
  <2>1. CASE n = 0
    BY <1>4, <2>1 DEF Unfolds
  <2>2. CASE n # 0
    <3>1. n \in 1 .. N /\ n - 1 \in 0 .. N
      BY <1>1, <2>2
    <3>2. f[n - 1] \in Drawings /\ f[n] = step[<<f[n - 1], n>>]
      BY <1>4, <3>1 DEF Unfolds
    <3>. QED  BY <1>3, <2>2, <3>1, <3>2
  <2>. QED  BY <2>1, <2>2
<1>6. f = [n \in 0 .. N |-> IF n = 0 THEN Start ELSE Drawing(f[n - 1], chosen[n], budget)]
  <2>1. f = [n \in 0 .. N |-> f[n]]
    OBVIOUS
  <2>. HIDE DEF N
  <2>. QED  BY <1>5, <2>1
<1>7. Draws(f, chosen, budget)
  BY <1>6, DrawsUnfolds
<1>8. Lines(chosen, budget) = (CHOOSE go : Draws(go, chosen, budget))[N]
  BY DEF Lines, Draws
<1>9. Draws(CHOOSE go : Draws(go, chosen, budget), chosen, budget)
  BY <1>7, Zenon
<1>. QED
  BY <1>8, <1>9

\* What is drawn of a selection.
LEMMA LinesFacts ==
    ASSUME NEW chosen \in Seq(Pairs), Distinct(chosen), NEW budget \in Nat
    PROVE  Drawn(Lines(chosen, budget), chosen, Len(chosen), budget)
<1>1. PICK go : Draws(go, chosen, budget) /\ Lines(chosen, budget) = go[Len(chosen)]
  BY LinesUnfolds
<1>2. go = [n \in 0 .. Len(chosen) |->
              IF n = 0 THEN Start ELSE Drawing(go[n - 1], chosen[n], budget)]
  BY <1>1, DrawsUnfolds, Zenon
<1>3. PICK N : N = Len(chosen)
  OBVIOUS
<1>4. N \in Nat
  BY <1>3
<1>5. \A n \in 0 .. N :
          go[n] = IF n = 0 THEN Start ELSE Drawing(go[n - 1], chosen[n], budget)
  <2>1. PICK F : F = [n \in 0 .. N |->
                        IF n = 0 THEN Start ELSE Drawing(go[n - 1], chosen[n], budget)]
    OBVIOUS
  <2>2. \A n \in 0 .. N :
            F[n] = IF n = 0 THEN Start ELSE Drawing(go[n - 1], chosen[n], budget)
    BY <2>1
  <2>3. go = F
    BY <1>2, <1>3, <2>1, Zenon
  <2>. QED  BY <2>2, <2>3, Zenon
<1>. DEFINE Good == {n \in 0 .. N : Drawn(go[n], chosen, n, budget)}
<1>6. 0 \in Good
  <2>1. go[0] = Start /\ 0 \in 0 .. N
    BY <1>4, <1>5
  <2>. QED  BY <2>1, StartIsDrawn
<1>7. ASSUME NEW n \in 0 .. N, n \in Good, n + 1 <= N PROVE n + 1 \in Good
  <2>1. n + 1 \in 0 .. N /\ n + 1 # 0 /\ (n + 1) - 1 = n /\ n \in Nat
    BY <1>4, <1>7
  <2>2. go[n + 1] = Drawing(go[n], chosen[n + 1], budget)
    BY <1>5, <2>1
  <2>3. Drawn(go[n], chosen, n, budget)
    BY <1>7
  <2>4. Drawn(go[n + 1], chosen, n + 1, budget)
    BY <1>3, <1>7, <2>1, <2>2, <2>3, OneMoreIsDrawn
  <2>. QED  BY <2>1, <2>4
<1>. HIDE DEF Good
<1>8. 0 .. N \subseteq Good
  BY <1>4, <1>6, <1>7, UpTo
<1>9. Drawn(go[N], chosen, N, budget)
  BY <1>4, <1>8 DEF Good
<1>. QED
  BY <1>1, <1>3, <1>9

-----------------------------------------------------------------------------
(* The repository map: the text of a map *)

\* TextIsRight of one text of some files.
Right(text, files) ==
    /\ text.cost <= text.budget
    /\ \A i, j \in Symbolic(text) : text.lines[i] = text.lines[j] => i = j
    /\ \A i \in Symbolic(text) :
          \E h \in 1 .. i - 1 : /\ text.lines[h] = <<text.lines[i][1]>>
                                /\ h + 1 .. i \subseteq Symbolic(text)
    /\ HeaderTokens + PathTokens + LineTokens <= text.budget =>
          \A s \in Ranked(files, text.score) :
             (\A u \in Ranked(files, text.score) \ {s} : text.score[s] > text.score[u])
                => s \in {text.lines[i] : i \in Symbolic(text)}
    /\ text.truncated <=>
          ~(Ranked(files, text.score) \subseteq {text.lines[i] : i \in Symbolic(text)})

LEMMA RightOfAll ==
    TextIsRight <=> \A text \in shown : Right(text, answer.files)
BY DEF TextIsRight, TextFits, LinesUnderTheirFile, BestIsShown, Right

LEMMA TextsAreRight ==
    ASSUME NEW files, Mapped(files), NEW score \in Scores, NEW budget \in Budgets
    PROVE  Right(Text(files, score, budget), files)
<1>1. PICK chosen, r, ranked : /\ chosen = Selected(files, score)
                               /\ r = Lines(chosen, budget)
                               /\ ranked = Ranked(files, score)
  OBVIOUS
<1>2. IsFiniteSet(ranked) /\ ranked \subseteq Pairs
  BY <1>1, RankedFacts DEF Pairs
<1>3. /\ chosen \in Seq(ranked) /\ Distinct(chosen)
      /\ ranked # {} => Len(chosen) >= 1 /\ chosen[1] = Best(files, score, <<>>)
  BY <1>1, SelectedFacts
<1>4. chosen \in Seq(Pairs) /\ \A k \in 1 .. Len(chosen) : chosen[k] \in ranked
  BY <1>2, <1>3
<1>5. budget \in Nat /\ HeaderTokens \in Nat
  BY ScoreAssumption
<1>6. Drawn(r, chosen, Len(chosen), budget)
  BY <1>1, <1>3, <1>4, <1>5, LinesFacts
<1>7. PICK drawn : drawn = {r.lines[i] : i \in SymbolsOf(r.lines)}
  OBVIOUS
<1>8. PICK text : text = Text(files, score, budget)
  OBVIOUS
<1>9. /\ text.lines = r.lines /\ text.score = score /\ text.budget = budget
      /\ text.cost = IF budget = 0 THEN 0
                     ELSE IF drawn = {} THEN (IF budget < HeaderTokens THEN budget ELSE HeaderTokens)
                     ELSE r.cost
      /\ text.truncated = (Cardinality(drawn) < Cardinality(ranked))
  BY <1>1, <1>7, <1>8 DEF Text, SymbolsOf
<1>10. Symbolic(text) = SymbolsOf(r.lines)
  BY <1>9 DEF Symbolic, SymbolsOf
<1>11. drawn = {text.lines[i] : i \in Symbolic(text)}
  BY <1>7, <1>9, <1>10
<1>12. Lined(r.lines, chosen, Len(chosen)) /\ (r.lines = <<>> \/ r.cost <= budget)
  BY <1>6 DEF Drawn
<1>13. drawn \subseteq ranked
  BY <1>4, <1>7, <1>12 DEF Lined
<1>14. text.cost <= text.budget
  <2>1. drawn # {} => r.cost <= budget
    <3>1. r.lines = <<>> => SymbolsOf(r.lines) = {}
      BY DEF SymbolsOf
    <3>. QED  BY <1>7, <1>12, <3>1
  <2>. QED  BY <1>5, <1>9, <2>1
<1>15. ASSUME HeaderTokens + PathTokens + LineTokens <= budget,
              NEW s \in ranked, \A u \in ranked \ {s} : score[s] > score[u]
       PROVE  s \in drawn
  <2>1. Len(chosen) >= 1 /\ chosen[1] = s
    <3>1. Best(files, score, <<>>) = s
      BY <1>1, <1>15, HighestIsBest
    <3>. QED  BY <1>3, <3>1
  <2>2. Shows(r.lines, s)
    BY <1>6, <1>15, <2>1 DEF Drawn
  <2>. QED  BY <1>7, <2>2 DEF Shows
<1>16. Cardinality(drawn) < Cardinality(ranked) <=> ~(ranked \subseteq drawn)
  <2>1. /\ IsFiniteSet(drawn) /\ Cardinality(drawn) <= Cardinality(ranked)
        /\ Cardinality(drawn) = Cardinality(ranked) => drawn = ranked
    BY <1>2, <1>13, FS_Subset
  <2>2. Cardinality(drawn) \in Nat /\ Cardinality(ranked) \in Nat
    BY <1>2, <2>1, FS_CardinalityType
  <2>3. ranked \subseteq drawn => drawn = ranked
    BY <1>13
  <2>. QED  BY <2>1, <2>2, <2>3
<1>17. /\ \A i, j \in Symbolic(text) : text.lines[i] = text.lines[j] => i = j
       /\ \A i \in Symbolic(text) :
             \E h \in 1 .. i - 1 : /\ text.lines[h] = <<text.lines[i][1]>>
                                   /\ h + 1 .. i \subseteq Symbolic(text)
  <2>1. PICK l, Q : l = r.lines /\ Q = SymbolsOf(l)
    OBVIOUS
  <2>2. /\ \A i, j \in Q : l[i] = l[j] => i = j
        /\ \A i \in Q : \E h \in 1 .. i - 1 : l[h] = <<l[i][1]>> /\ h + 1 .. i \subseteq Q
    <3>1. Lined(l, chosen, Len(chosen))
      BY <1>12, <2>1
    <3>. QED  BY <2>1, <3>1, Zenon DEF Lined
  <2>3. text.lines = l /\ Symbolic(text) = Q
    BY <1>9, <1>10, <2>1
  <2>. QED  BY <2>2, <2>3, Zenon
<1>18. Right(text, files)
  BY <1>1, <1>9, <1>11, <1>14, <1>15, <1>16, <1>17 DEF Right
<1>. QED
  BY <1>8, <1>18

\* Between two drawings there is no text.
TextInv == (pc # "drawn" => shown = {}) /\ TextIsRight

LEMMA RenderIsRight == ASSUME IInv, GraphInv, Render PROVE TextIsRight'
<1>1. PICK score \in Scores, budget \in Budgets : shown' = {Text(answer.files, score, budget)}
  BY DEF Render
<1>2. answer' = answer /\ pc = "answered"
  BY DEF Render
<1>3. Mapped(answer.files)
  <2>1. answer.files = snapshot.files /\ snapshot.built
    BY <1>2 DEF IInv, AnswerIsTheSnapshot, Answered
  <2>. QED  BY <2>1 DEF GraphInv
<1>4. Right(Text(answer.files, score, budget), answer.files)
  BY <1>3, TextsAreRight
<1>5. \A text \in shown' : Right(text, answer'.files)
  BY <1>1, <1>2, <1>4
<1>. QED
  BY <1>5, RightOfAll DEF TextIsRight, TextFits, LinesUnderTheirFile, BestIsShown, Right

LEMMA TextInvKept == IInv /\ GraphInv /\ TextInv /\ [Next]_vars => TextInv'
<1>. SUFFICES ASSUME IInv, GraphInv, TextInv, [Next]_vars PROVE TextInv'
  OBVIOUS
<1>1. CASE Render
  BY <1>1, RenderIsRight DEF TextInv, Render
<1>2. CASE shown' = {}
  BY <1>2 DEF TextInv, TextIsRight, TextFits, LinesUnderTheirFile, BestIsShown
<1>3. CASE UNCHANGED vars
  BY <1>3 DEF TextInv, TextIsRight, TextFits, LinesUnderTheirFile, BestIsShown, Symbolic, vars
<1>4. pc # "drawn" /\ shown' = shown => shown' = {}
  BY DEF TextInv
<1>. QED
  BY <1>1, <1>2, <1>3, <1>4
     DEF Next, Step, Refresh, Stat, Read, Answer, Leave, Done, Edit

\* A text is within its budget, each symbol stands once and below its own path, the best
\* one is there whenever it fits, and what is missing is said, for any scores and budgets
\* (RepoMapQuery.render, _select_diverse).
THEOREM TheTextIsRight == Spec => []TextIsRight
<1>1. Init => IInv /\ GraphInv /\ TextInv
  <2>1. Init => TextInv
    BY DEF Init, TextInv, TextIsRight, TextFits, LinesUnderTheirFile, BestIsShown
  <2>2. Init => GraphInv
    BY DEF Init, GraphInv, NoSnapshot
  <2>. QED  BY <2>1, <2>2, InitEstablishes
<1>2. IInv /\ GraphInv /\ TextInv /\ [Next]_vars => (IInv /\ GraphInv /\ TextInv)'
  BY StepKeeps, GraphInvKept, TextInvKept
<1>3. TextInv => TextIsRight
  BY DEF TextInv
<1>. QED
  BY <1>1, <1>2, <1>3, PTL DEF Spec

\* The greatest of some numbers up to N.
LEMMA GreatestUpTo ==
    ASSUME NEW N \in Nat, NEW T, T \subseteq 1 .. N, T # {}
    PROVE  \E x \in T : \A y \in T : y <= x
<1>. DEFINE above == {N - x : x \in T}
<1>1. \A x \in T : x \in Int /\ 1 <= x /\ x <= N
  OBVIOUS
<1>2. above \subseteq Nat
  BY <1>1
<1>3. above # {}
  OBVIOUS
<1>4. PICK m \in above : \A k \in above : m <= k
  <2>. HIDE DEF above
  <2>. QED  BY <1>2, <1>3, LeastOfNaturals
<1>5. PICK x \in T : m = N - x
  OBVIOUS
<1>6. ASSUME NEW y \in T PROVE y <= x
  <2>1. N - y \in above
    OBVIOUS
  <2>2. N - x <= N - y
    BY <1>4, <1>5, <2>1
  <2>. QED  BY <1>1, <2>2
<1>. QED
  BY <1>6

\* The rest of a sequence.
LEMMA RestFacts ==
    ASSUME NEW T, NEW s \in Seq(T), NEW i \in 1 .. Len(s) + 1
    PROVE  /\ From(s, i) \in Seq(T)
           /\ Len(From(s, i)) = Len(s) - i + 1
           /\ \A k \in 1 .. Len(s) - i + 1 : From(s, i)[k] = s[k + i - 1]
<1>1. Len(s) \in Nat /\ DOMAIN s = 1 .. Len(s) /\ i \in Nat /\ i >= 1 /\ i <= Len(s) + 1
  OBVIOUS
<1>2. \A k \in i .. Len(s) : s[k] \in T
  BY <1>1
<1>3. SubSeq(s, i, Len(s)) \in Seq(T)
  BY <1>1, <1>2
<1>4. Len(SubSeq(s, i, Len(s))) = Len(s) - i + 1
  BY <1>1
<1>5. ASSUME NEW k \in 1 .. Len(s) - i + 1 PROVE SubSeq(s, i, Len(s))[k] = s[k + i - 1]
  BY <1>1, <1>2
<1>. QED
  BY <1>3, <1>4, <1>5, Zenon DEF From

LEMMA RestIsOf ==
    ASSUME NEW T, NEW s \in Seq(T), NEW i \in 1 .. Len(s) + 1
    PROVE  ToSet(From(s, i)) = {s[k] : k \in i .. Len(s)}
<1>1. PICK r : r = From(s, i)
  OBVIOUS
<1>2. Len(s) \in Nat /\ i \in Nat /\ i >= 1 /\ i <= Len(s) + 1
  OBVIOUS
<1>3. /\ r \in Seq(T) /\ Len(r) = Len(s) - i + 1
      /\ \A k \in 1 .. Len(s) - i + 1 : r[k] = s[k + i - 1]
  BY <1>1, RestFacts
<1>4. DOMAIN r = 1 .. Len(s) - i + 1
  BY <1>3
<1>5. ASSUME NEW k \in i .. Len(s) PROVE s[k] \in ToSet(r)
  <2>1. k - i + 1 \in 1 .. Len(s) - i + 1 /\ (k - i + 1) + i - 1 = k
    BY <1>2
  <2>. QED  BY <1>3, <1>4, <2>1 DEF ToSet
<1>6. ASSUME NEW k \in 1 .. Len(s) - i + 1 PROVE r[k] \in {s[m] : m \in i .. Len(s)}
  <2>1. k + i - 1 \in i .. Len(s)
    BY <1>2
  <2>. QED  BY <1>3, <2>1
<1>. QED
  <2>1. ToSet(r) = {r[k] : k \in 1 .. Len(s) - i + 1}
    BY <1>4 DEF ToSet
  <2>. QED  BY <1>1, <1>5, <1>6, <2>1

\* The numbers of s grow from position i on.
Rises(s, i) == \A p, q \in i .. Len(s) : p < q => s[p] < s[q]

\* The n numbers after that at i are in s, after position i.
Holds(s, i, n) == \A k \in 0 .. n : \E p \in i .. Len(s) : s[p] = s[i] + k

\* Numbers that grow from position i on, with the n numbers after that at i among
\* them, have them next to it.
LEMMA Consecutive ==
    ASSUME NEW s \in Seq(Nat), NEW i \in 1 .. Len(s), NEW n \in Nat,
           Rises(s, i), Holds(s, i, n)
    PROVE  \A k \in 0 .. n : i + k <= Len(s) /\ s[i + k] = s[i] + k
<1>1. Len(s) \in Nat /\ i \in Nat /\ i >= 1 /\ \A p \in 1 .. Len(s) : s[p] \in Nat
  OBVIOUS
<1>. DEFINE Reached == {k \in 0 .. n : i + k <= Len(s) /\ s[i + k] = s[i] + k}
<1>2. 0 \in Reached
  BY <1>1
<1>3. ASSUME NEW k \in 0 .. n, k \in Reached, k + 1 <= n PROVE k + 1 \in Reached
  <2>1. k + 1 \in 0 .. n /\ k \in Nat /\ i + k <= Len(s) /\ s[i + k] = s[i] + k
    BY <1>3
  <2>2. PICK p \in i .. Len(s) : s[p] = s[i] + (k + 1)
    BY <2>1 DEF Holds
  <2>3. PICK m \in i .. Len(s) : m = i + k /\ s[m] = s[i] + k
    BY <1>1, <2>1
  <2>4. s[m] < s[p] /\ s[i] \in Nat /\ s[m] \in Nat /\ s[p] \in Nat
    <3>1. s[i] \in Nat /\ s[m] \in Nat /\ s[p] \in Nat
      BY <1>1
    <3>2. PICK u, v, w : u = s[i] /\ v = s[m] /\ w = s[p]
      OBVIOUS
    <3>3. u \in Nat /\ v = u + k /\ w = u + (k + 1)
      BY <2>2, <2>3, <3>1, <3>2
    <3>4. v < w
      BY <2>1, <3>3
    <3>. QED  BY <3>1, <3>2, <3>4
  <2>5. m < p
    <3>1. p < m => s[p] < s[m]
      BY <2>2, <2>3 DEF Rises
    <3>2. p # m
      BY <2>4
    <3>. QED  BY <1>1, <2>4, <3>1, <3>2
  <2>6. p = m + 1
    <3>1. SUFFICES ASSUME m + 1 < p PROVE FALSE
      BY <1>1, <2>5
    <3>2. PICK q \in i .. Len(s) : q = m + 1
      BY <1>1, <3>1
    <3>3. m < q /\ q < p /\ s[q] \in Nat
      BY <1>1, <3>1, <3>2
    <3>4. s[m] < s[q] /\ s[q] < s[p]
      BY <3>2, <3>3 DEF Rises
    <3>5. PICK u, v, w, x : u = s[i] /\ v = s[m] /\ w = s[p] /\ x = s[q]
      OBVIOUS
    <3>6. /\ u \in Nat /\ v = u + k /\ w = u + (k + 1) /\ x \in Nat
          /\ v < x /\ x < w
      BY <2>2, <2>3, <2>4, <3>3, <3>4, <3>5
    <3>. QED  BY <2>1, <3>6
  <2>7. p = i + (k + 1) /\ p <= Len(s)
    BY <1>1, <2>1, <2>3, <2>6
  <2>. QED  BY <2>1, <2>2, <2>7
<1>4. 0 .. n \subseteq Reached
  <2>. HIDE DEF Reached
  <2>. QED  BY <1>2, <1>3, UpTo
<1>. QED
  BY <1>4

\* Between two positions numbers that grow from the first on grow at least as much as
\* the positions.
LEMMA Spread ==
    ASSUME NEW s \in Seq(Nat), NEW i \in 1 .. Len(s),
           Rises(s, i)
    PROVE  \A k \in 0 .. Len(s) - i : s[i] + k <= s[i + k]
<1>1. /\ Len(s) \in Nat /\ i \in Nat /\ i >= 1 /\ \A p \in 1 .. Len(s) : s[p] \in Nat
      /\ Len(s) - i \in Nat
  OBVIOUS
<1>. DEFINE Grown == {k \in 0 .. Len(s) - i : s[i] + k <= s[i + k]}
<1>2. 0 \in Grown
  BY <1>1
<1>3. ASSUME NEW k \in 0 .. Len(s) - i, k \in Grown, k + 1 <= Len(s) - i PROVE k + 1 \in Grown
  <2>1. k \in Nat /\ k + 1 \in 0 .. Len(s) - i /\ s[i] + k <= s[i + k]
    BY <1>1, <1>3
  <2>2. PICK m \in i .. Len(s) : m = i + k
    BY <1>1, <2>1
  <2>3. PICK q \in i .. Len(s) : q = i + (k + 1) /\ m < q
    BY <1>1, <2>1, <2>2
  <2>4. s[m] < s[q]
    BY <2>2, <2>3 DEF Rises
  <2>5. s[m] \in Nat /\ s[q] \in Nat /\ s[i] \in Nat
    BY <1>1
  <2>6. s[i] + (k + 1) <= s[q]
    <3>1. PICK u, v, w : u = s[i] /\ v = s[m] /\ w = s[q]
      OBVIOUS
    <3>2. u + k <= v /\ v < w /\ u \in Nat /\ v \in Nat /\ w \in Nat
      BY <2>1, <2>2, <2>4, <2>5, <3>1
    <3>3. u + (k + 1) <= w
      BY <2>1, <3>2
    <3>. QED  BY <3>1, <3>3
  <2>. QED  BY <2>1, <2>3, <2>6
<1>4. 0 .. Len(s) - i \subseteq Grown
  <2>1. PICK N \in Nat : N = Len(s) - i
    BY <1>1
  <2>. HIDE DEF Grown
  <2>. QED  BY <1>2, <1>3, <2>1, UpTo
<1>. QED
  BY <1>4

\* r holds members of the first n of an order, as they come there.
Picked(r, order, n) ==
    /\ \A i \in 1 .. Len(r) : \E p \in 1 .. n : r[i] = order[p]
    /\ \A i, j \in 1 .. Len(r) : i < j =>
          \E p, q \in 1 .. n : p < q /\ r[i] = order[p] /\ r[j] = order[q]

\* What is picked from a sequence stays in its order.
LEMMA InOrderKeepsOrder ==
    ASSUME NEW T, NEW order \in Seq(T), NEW S
    PROVE  InOrder(order, S) \in Seq(T) /\ Picked(InOrder(order, S), order, Len(order))
<1>. DEFINE N == Len(order)
<1>1. PICK f : Keeps(f, order, S) /\ InOrder(order, S) = f[N]
  BY InOrderUnfolds
<1>2. N \in Nat /\ \A n \in 1 .. N : order[n] \in T
  OBVIOUS
<1>3. \A n \in 0 .. N :
          f[n] = IF n = 0 THEN <<>>
                 ELSE IF order[n] \in S THEN Append(f[n - 1], order[n]) ELSE f[n - 1]
  BY <1>1 DEF Keeps
<1>. DEFINE Good == {n \in 0 .. N : f[n] \in Seq(T) /\ Picked(f[n], order, n)}
<1>4. 0 \in Good
  <2>1. f[0] = <<>> /\ 0 \in 0 .. N
    BY <1>2, <1>3
  <2>2. <<>> \in Seq(T) /\ 1 .. Len(<<>>) = {}
    OBVIOUS
  <2>3. Picked(<<>>, order, 0)
    BY <2>2, Zenon DEF Picked
  <2>. QED  BY <2>1, <2>2, <2>3
<1>5. ASSUME NEW n \in 0 .. N, n \in Good, n + 1 <= N PROVE n + 1 \in Good
  <2>1. n + 1 \in 1 .. N /\ n + 1 \in 0 .. N /\ n + 1 # 0 /\ (n + 1) - 1 = n /\ n \in Nat
    BY <1>2, <1>5
  <2>2. f[n + 1] = IF order[n + 1] \in S THEN Append(f[n], order[n + 1]) ELSE f[n]
    BY <1>3, <2>1
  <2>3. PICK r : r = f[n]
    OBVIOUS
  <2>4. r \in Seq(T) /\ Picked(r, order, n)
    BY <1>5, <2>3
  <2>5. \A p \in 1 .. n : p \in 1 .. n + 1
    BY <2>1
  <2>6. Picked(r, order, n + 1)
    <3>1. ASSUME NEW i \in 1 .. Len(r) PROVE \E p \in 1 .. n + 1 : r[i] = order[p]
      BY <2>4, <2>5, Zenon DEF Picked
    <3>2. ASSUME NEW i \in 1 .. Len(r), NEW j \in 1 .. Len(r), i < j
          PROVE  \E p, q \in 1 .. n + 1 : p < q /\ r[i] = order[p] /\ r[j] = order[q]
      <4>1. PICK p \in 1 .. n, q \in 1 .. n : p < q /\ r[i] = order[p] /\ r[j] = order[q]
        BY <2>4, <3>2, Zenon DEF Picked
      <4>. QED  BY <2>5, <4>1, Zenon
    <3>. QED  BY <3>1, <3>2, Zenon DEF Picked
  <2>7. CASE order[n + 1] \notin S
    <3>1. f[n + 1] = r
      BY <2>2, <2>3, <2>7
    <3>. QED  BY <2>1, <2>4, <2>6, <3>1
  <2>8. CASE order[n + 1] \in S
    <3>1. PICK x : x = order[n + 1]
      OBVIOUS
    <3>2. PICK t : t = Append(r, x)
      OBVIOUS
    <3>3. /\ x \in T /\ t \in Seq(T) /\ Len(r) \in Nat /\ Len(t) = Len(r) + 1
          /\ t[Len(r) + 1] = x /\ \A i \in 1 .. Len(r) : t[i] = r[i]
      BY <1>2, <2>1, <2>4, <3>1, <3>2
    <3>4. n + 1 \in 1 .. n + 1 /\ \A p \in 1 .. n : p < n + 1
      BY <2>1
    <3>5. \A i \in 1 .. Len(t) : i = Len(r) + 1 \/ i \in 1 .. Len(r)
      BY <3>3
    <3>6. ASSUME NEW i \in 1 .. Len(t) PROVE \E p \in 1 .. n + 1 : t[i] = order[p]
      <4>1. CASE i = Len(r) + 1
        BY <3>1, <3>3, <3>4, <4>1, Zenon
      <4>2. CASE i \in 1 .. Len(r)
        <5>1. PICK p \in 1 .. n + 1 : r[i] = order[p]
          BY <2>6, <4>2, Zenon DEF Picked
        <5>. QED  BY <3>3, <4>2, <5>1
      <4>. QED  BY <3>5, <4>1, <4>2
    <3>7. ASSUME NEW i \in 1 .. Len(t), NEW j \in 1 .. Len(t), i < j
          PROVE  \E p, q \in 1 .. n + 1 : p < q /\ t[i] = order[p] /\ t[j] = order[q]
      <4>1. i \in 1 .. Len(r)
        BY <3>3, <3>7
      <4>2. CASE j \in 1 .. Len(r)
        <5>1. PICK p \in 1 .. n + 1, q \in 1 .. n + 1 :
                  p < q /\ r[i] = order[p] /\ r[j] = order[q]
          BY <2>6, <3>7, <4>1, <4>2, Zenon DEF Picked
        <5>2. t[i] = r[i] /\ t[j] = r[j]
          BY <3>3, <4>1, <4>2
        <5>. QED  BY <5>1, <5>2
      <4>3. CASE j = Len(r) + 1
        <5>1. PICK p \in 1 .. n : r[i] = order[p]
          BY <2>4, <4>1, Zenon DEF Picked
        <5>. QED  BY <2>5, <3>1, <3>3, <3>4, <4>1, <4>3, <5>1, Zenon
      <4>. QED  BY <3>5, <4>2, <4>3
    <3>8. Picked(t, order, n + 1)
      BY <3>6, <3>7, Zenon DEF Picked
    <3>9. f[n + 1] = t
      BY <2>2, <2>3, <2>8, <3>1, <3>2
    <3>. QED  BY <2>1, <3>3, <3>8, <3>9
  <2>. QED  BY <2>7, <2>8
<1>6. N \in Good
  <2>. HIDE DEF Good
  <2>1. 0 .. N \subseteq Good
    BY <1>2, <1>4, <1>5, UpTo, Zenon
  <2>. QED  BY <1>2, <2>1
<1>. QED
  BY <1>1, <1>6

-----------------------------------------------------------------------------
(* The history: the log *)

\* What a log is made of.
Events ==
    [kind : Kinds, size : Sizes, calls : 0 .. MaxCalls, canonical : BOOLEAN, of : Nat,
     covered : Seq(Nat)]

\* Event e of a log is consistent with the events before it.
Formed(log, e) ==
    /\ log[e].kind = "assistant_tool_call" <=> log[e].calls # 0
    /\ log[e].kind = "tool_result" <=> log[e].of # 0
    /\ log[e].kind = "compaction" <=> log[e].covered # <<>>
    /\ ToSet(log[e].covered) \subseteq 1 .. (e - 1)
    /\ log[e].of # 0 =>
          /\ log[e].of < e /\ e <= log[e].of + log[log[e].of].calls
          /\ log[e].canonical => log[log[e].of].canonical
    /\ log[e].canonical =>
          log[e].kind \in {"assistant_tool_call", "tool_result"} /\ log[e].calls <= 1

\* What a call asks for comes next in the log.
Followed(log, e) == \A k \in 1 .. log[e].calls : e + k <= Len(log) => log[e + k].of = e

\* Whatever the appends may have written.
IsLog(log) == log \in Seq(Events) /\ \A e \in 1 .. Len(log) : Formed(log, e) /\ Followed(log, e)

\* The calls of a log that lack results.
Open(log) == {c \in 1 .. Len(log) : c + log[c].calls > Len(log)}

\* The types of what an event holds.
LEMMA LogFacts ==
    ASSUME NEW log \in Seq(Events)
    PROVE  /\ Len(log) \in Nat /\ DOMAIN log = 1 .. Len(log)
           /\ \A e \in 1 .. Len(log) :
                 /\ log[e] \in Events /\ log[e].kind \in Kinds /\ log[e].size \in Sizes
                 /\ log[e].calls \in Nat /\ log[e].calls <= MaxCalls
                 /\ log[e].canonical \in BOOLEAN /\ log[e].of \in Nat
                 /\ log[e].covered \in Seq(Nat)
<1>1. Len(log) \in Nat /\ DOMAIN log = 1 .. Len(log)
  OBVIOUS
<1>2. ASSUME NEW e \in 1 .. Len(log)
      PROVE  /\ log[e] \in Events /\ log[e].kind \in Kinds /\ log[e].size \in Sizes
             /\ log[e].calls \in Nat /\ log[e].calls <= MaxCalls
             /\ log[e].canonical \in BOOLEAN /\ log[e].of \in Nat
             /\ log[e].covered \in Seq(Nat)
  <2>1. PICK ev : ev = log[e]
    OBVIOUS
  <2>2. ev \in Events
    BY <2>1
  <2>3. ev.calls \in 0 .. MaxCalls
    BY <2>2 DEF Events
  <2>4. ev.calls \in Nat /\ ev.calls <= MaxCalls
    BY <2>3, CompactionAssumption
  <2>5. /\ ev.kind \in Kinds /\ ev.size \in Sizes /\ ev.canonical \in BOOLEAN
        /\ ev.of \in Nat /\ ev.covered \in Seq(Nat)
    BY <2>2 DEF Events
  <2>. QED  BY <2>1, <2>2, <2>4, <2>5
<1>. QED
  BY <1>1, <1>2

LEMMA OneMore ==
    ASSUME NEW log \in Seq(Events), NEW ev \in Events, NEW more, more = Append(log, ev)
    PROVE  /\ more \in Seq(Events) /\ Len(more) = Len(log) + 1 /\ more[Len(log) + 1] = ev
           /\ \A e \in 1 .. Len(log) : more[e] = log[e]
  OBVIOUS

LEMMA Beyond ==
    ASSUME NEW N \in Nat, NEW e \in 1 .. N, NEW n \in Nat, NEW k \in 1 .. n,
           NEW M, M = N + 1, e + k <= M, ~(e + k <= N)
    PROVE  e + k > N /\ e + k = N + 1
OBVIOUS

\* A log stays one with an event that answers the call that lacks results, if any.
LEMMA LogGrows ==
    ASSUME NEW log, IsLog(log), NEW ev \in Events, NEW more, more = Append(log, ev),
           Formed(more, Len(log) + 1), \A c \in Open(log) : ev.of = c
    PROVE  IsLog(more)
<1>1. /\ log \in Seq(Events) /\ Len(log) \in Nat
      /\ \A e \in 1 .. Len(log) : Formed(log, e) /\ Followed(log, e)
  BY LogFacts DEF IsLog
<1>2. /\ more \in Seq(Events) /\ Len(more) = Len(log) + 1 /\ more[Len(log) + 1] = ev
      /\ \A e \in 1 .. Len(log) : more[e] = log[e]
  BY <1>1, OneMore
<1>3. \A e \in 1 .. Len(more) : e \in 1 .. Len(log) \/ e = Len(log) + 1
  BY <1>1, <1>2
<1>4. ASSUME NEW e \in 1 .. Len(log) PROVE Formed(more, e)
  <2>1. log[e].of \in Nat /\ more[e] = log[e] /\ Formed(log, e)
    BY <1>1, <1>2, LogFacts
  <2>2. CASE log[e].of = 0
    BY <2>1, <2>2 DEF Formed
  <2>3. CASE log[e].of # 0
    <3>1. log[e].of \in 1 .. Len(log)
      <4>1. log[e].of < e
        BY <2>1, <2>3 DEF Formed
      <4>. QED  BY <1>1, <2>1, <2>3, <4>1
    <3>2. more[log[e].of] = log[log[e].of]
      BY <1>2, <3>1
    <3>. QED  BY <2>1, <3>2 DEF Formed
  <2>. QED  BY <2>2, <2>3
<1>5. ASSUME NEW e \in 1 .. Len(log) PROVE Followed(more, e)
  <2>1. more[e] = log[e] /\ log[e].calls \in Nat /\ Followed(log, e)
    BY <1>1, <1>2, LogFacts
  <2>. SUFFICES ASSUME NEW k \in 1 .. log[e].calls, e + k <= Len(more) PROVE more[e + k].of = e
    BY <2>1 DEF Followed
  <2>2. CASE e + k <= Len(log)
    <3>1. e + k \in 1 .. Len(log)
      BY <2>2
    <3>. QED  BY <1>2, <2>1, <2>2, <3>1 DEF Followed
  <2>3. CASE ~(e + k <= Len(log))
    <3>1. Len(more) = Len(log) + 1 /\ Len(log) \in Nat
      BY <1>1, <1>2
    <3>2. e + k > Len(log) /\ e + k = Len(log) + 1
      BY <2>1, <2>3, <3>1, Beyond, Zenon
    <3>3. e \in Open(log)
      BY <1>1, <2>1, <3>2 DEF Open
    <3>. QED  BY <1>2, <3>2, <3>3
  <2>. QED  BY <2>2, <2>3
<1>6. Followed(more, Len(log) + 1)
  <2>. SUFFICES ASSUME NEW k \in 1 .. ev.calls, Len(log) + 1 + k <= Len(more) PROVE FALSE
    BY <1>2 DEF Followed
  <2>. QED  BY <1>1, <1>2
<1>. QED
  BY <1>2, <1>3, <1>4, <1>5, <1>6 DEF IsLog

LEMMA OpenFacts ==
    ASSUME NEW log, IsLog(log), NEW c \in Open(log)
    PROVE  /\ c \in 1 .. Len(log) /\ log[c].kind = "assistant_tool_call"
           /\ \A e \in c + 1 .. Len(log) : log[e].of = c
           /\ Len(log) + 1 <= c + log[c].calls
           /\ \A d \in Open(log) : d = c
<1>1. /\ log \in Seq(Events) /\ Len(log) \in Nat
      /\ \A e \in 1 .. Len(log) : Formed(log, e) /\ Followed(log, e)
  BY LogFacts DEF IsLog
<1>2. ASSUME NEW d \in Open(log)
      PROVE  /\ d \in 1 .. Len(log) /\ d \in Nat /\ log[d].kind = "assistant_tool_call"
             /\ \A e \in d + 1 .. Len(log) : log[e].of = d
             /\ Len(log) + 1 <= d + log[d].calls
  <2>1. d \in 1 .. Len(log) /\ d + log[d].calls > Len(log)
    BY DEF Open
  <2>2. log[d].calls \in Nat /\ Formed(log, d) /\ Followed(log, d)
    BY <1>1, <2>1, LogFacts
  <2>3. log[d].calls # 0 /\ Len(log) + 1 <= d + log[d].calls
    BY <1>1, <2>1, <2>2
  <2>4. ASSUME NEW e \in d + 1 .. Len(log) PROVE log[e].of = d
    <3>1. e - d \in 1 .. log[d].calls /\ d + (e - d) = e /\ e <= Len(log)
      BY <1>1, <2>1, <2>2
    <3>. QED  BY <2>2, <3>1 DEF Followed
  <2>5. log[d].kind = "assistant_tool_call"
    BY <2>2, <2>3 DEF Formed
  <2>6. d \in Nat
    BY <2>1
  <2>. QED  BY <2>1, <2>3, <2>4, <2>5, <2>6
<1>3. ASSUME NEW d \in Open(log), NEW b \in Open(log), b < d PROVE FALSE
  <2>1. d \in b + 1 .. Len(log) /\ d \in 1 .. Len(log) /\ b # 0
    BY <1>1, <1>2, <1>3
  <2>2. log[d].of = b /\ Formed(log, d)
    BY <1>1, <1>2, <2>1
  <2>3. log[d].kind = "tool_result"
    BY <2>1, <2>2 DEF Formed
  <2>. QED  BY <1>2, <2>3
<1>4. ASSUME NEW d \in Open(log) PROVE d = c
  <2>1. c \in Nat /\ d \in Nat /\ ~(c < d) /\ ~(d < c)
    BY <1>2, <1>3
  <2>. QED  BY <2>1
<1>. QED
  BY <1>2, <1>4

\* The number of results that a call has.
Returned(log, c) == IF c + log[c].calls <= Len(log) THEN log[c].calls ELSE Len(log) - c

LEMMA WithinReturned ==
    ASSUME NEW L \in Nat, NEW c \in 1 .. L, NEW n \in Nat, NEW m \in Nat,
           m = IF c + n <= L THEN n ELSE L - c, NEW r \in c + 1 .. c + m
    PROVE  r \in 1 .. L /\ r - c \in 1 .. n /\ c + (r - c) = r /\ r <= L
OBVIOUS

\* The results of a call, in the log.
LEMMA ResultsOf ==
    ASSUME NEW log, IsLog(log), NEW c \in 1 .. Len(log), NEW m \in Nat, m = Returned(log, c)
    PROVE  {r \in 1 .. Len(log) : log[r].of = c} = c + 1 .. c + m
<1>1. /\ log \in Seq(Events) /\ Len(log) \in Nat
      /\ \A e \in 1 .. Len(log) : Formed(log, e) /\ Followed(log, e)
  BY LogFacts DEF IsLog
<1>2. log[c].calls \in Nat /\ Followed(log, c) /\ c # 0
  BY <1>1, LogFacts
<1>m. m = IF c + log[c].calls <= Len(log) THEN log[c].calls ELSE Len(log) - c
  BY DEF Returned
<1>3. ASSUME NEW r \in 1 .. Len(log), log[r].of = c PROVE r \in c + 1 .. c + m
  <2>1. c < r /\ r <= c + log[c].calls
    BY <1>1, <1>2, <1>3 DEF Formed
  <2>. QED  BY <1>1, <1>2, <1>m, <2>1
<1>4. ASSUME NEW r \in c + 1 .. c + m PROVE r \in 1 .. Len(log) /\ log[r].of = c
  <2>1. r \in 1 .. Len(log) /\ r - c \in 1 .. log[c].calls /\ c + (r - c) = r /\ r <= Len(log)
    <3>1. PICK L, n : L = Len(log) /\ n = log[c].calls
      OBVIOUS
    <3>2. L \in Nat /\ c \in 1 .. L /\ n \in Nat /\ m = IF c + n <= L THEN n ELSE L - c
      BY <1>1, <1>2, <1>m, <3>1
    <3>3. r \in 1 .. L /\ r - c \in 1 .. n /\ c + (r - c) = r /\ r <= L
      BY <3>2, WithinReturned, Zenon
    <3>. QED  BY <3>1, <3>3
  <2>. QED  BY <1>2, <2>1 DEF Followed
<1>. QED
  BY <1>3, <1>4

LEMMA UnansweredAreOpen == ASSUME IsLog(events) PROVE Unanswered = Open(events)
<1>1. events \in Seq(Events) /\ Len(events) \in Nat
  BY LogFacts DEF IsLog
<1>2. ASSUME NEW c \in 1 .. Len(events)
      PROVE  Cardinality({r \in 1 .. Len(events) : events[r].of = c}) < events[c].calls
                <=> c + events[c].calls > Len(events)
  <2>1. PICK n, N : n = events[c].calls /\ N = Len(events)
    OBVIOUS
  <2>2. n \in Nat /\ N \in Nat /\ c \in Nat /\ c <= N
    BY <1>1, <2>1, LogFacts
  <2>3. PICK m : m = IF c + n <= N THEN n ELSE N - c
    OBVIOUS
  <2>4. m \in Nat /\ (m < n <=> c + n > N)
    BY <2>2, <2>3
  <2>5. {r \in 1 .. N : events[r].of = c} = c + 1 .. c + m
    <3>1. m \in Nat /\ m = Returned(events, c)
      BY <2>1, <2>3, <2>4 DEF Returned
    <3>2. {r \in 1 .. Len(events) : events[r].of = c} = c + 1 .. c + m
      BY <3>1, ResultsOf, Zenon
    <3>. QED  BY <2>1, <3>2, Zenon
  <2>6. Cardinality(c + 1 .. c + m) = m
    <3>1. c + 1 \in Int /\ c + m \in Int /\ (c + 1 > c + m => m = 0)
          /\ (c + m) - (c + 1) + 1 = m
      BY <2>2, <2>4
    <3>. QED  BY <3>1, FS_Interval
  <2>. QED  BY <2>1, <2>4, <2>5, <2>6
<1>. QED
  BY <1>2 DEF Unanswered, Open, Ids

-----------------------------------------------------------------------------
(* The history: what is in use of a log *)

\* All but a summary.
Fact(log, e) == log[e].kind # "compaction"

\* Events of a log, in order, after at most one summary.
Ordered(log, s) ==
    /\ s \in Seq(1 .. Len(log)) /\ Distinct(s)
    /\ \A i \in 2 .. Len(s) : Fact(log, s[i])
    /\ \A i, j \in 1 .. Len(s) : i < j /\ Fact(log, s[i]) /\ Fact(log, s[j]) => s[i] < s[j]

\* A call and its results are all in s, or none of them.
Whole(log, s) ==
    \A r \in 1 .. Len(log) : log[r].of # 0 => (r \in ToSet(s) <=> log[r].of \in ToSet(s))

LEMMA PlaceOf ==
    ASSUME NEW T, NEW s \in Seq(T), NEW x
    PROVE  x \in ToSet(s) <=> \E p \in 1 .. Len(s) : s[p] = x
<1>1. DOMAIN s = 1 .. Len(s)
  OBVIOUS
<1>. QED
  BY <1>1 DEF ToSet

LEMMA OrderedFacts ==
    ASSUME NEW log, IsLog(log), NEW s, Ordered(log, s)
    PROVE  /\ s \in Seq(Nat) /\ Len(s) \in Nat /\ Len(log) \in Nat
           /\ \A p \in 1 .. Len(s) : /\ s[p] \in 1 .. Len(log) /\ s[p] \in ToSet(s)
                                     /\ s[p] \in Nat /\ s[p] # 0
           /\ \A x : x \in ToSet(s) <=> \E p \in 1 .. Len(s) : s[p] = x
<1>1. Len(log) \in Nat /\ s \in Seq(1 .. Len(log)) /\ Len(s) \in Nat
  BY LogFacts DEF IsLog, Ordered
<1>2. \A p \in 1 .. Len(s) : s[p] \in 1 .. Len(log) /\ s[p] \in Nat /\ s[p] # 0
  BY <1>1
<1>3. s \in Seq(Nat)
  <2>1. \A p \in 1 .. Len(s) : s[p] \in Nat
    BY <1>2
  <2>. QED  BY <1>1, <2>1
<1>4. \A x : x \in ToSet(s) <=> \E p \in 1 .. Len(s) : s[p] = x
  BY <1>1, PlaceOf
<1>. QED
  BY <1>1, <1>2, <1>3, <1>4

\* From a fact on, the events of s rise.
LEMMA FactsRise ==
    ASSUME NEW log, IsLog(log), NEW s, Ordered(log, s), NEW i \in 1 .. Len(s), Fact(log, s[i])
    PROVE  Rises(s, i)
<1>1. Len(s) \in Nat
  BY OrderedFacts
<1>2. ASSUME NEW p \in i .. Len(s) PROVE p \in 1 .. Len(s) /\ Fact(log, s[p])
  <2>1. p = i \/ p \in 2 .. Len(s)
    BY <1>1
  <2>2. p \in 1 .. Len(s)
    BY <1>1
  <2>. QED  BY <2>1, <2>2 DEF Ordered
<1>. QED
  BY <1>2 DEF Ordered, Rises

LEMMA StepWithin ==
    ASSUME NEW c \in Nat, NEW k \in Nat, NEW n \in Nat, NEW m \in Nat, NEW N \in Nat,
           n <= m, k <= n, 1 <= k, c + n <= N
    PROVE  k \in 1 .. m /\ c + k \in 1 .. N /\ c + k <= N /\ c + k > c /\ ~(c + k < c)
OBVIOUS

\* The results of a call follow it.
LEMMA RunOfCall ==
    ASSUME NEW log, IsLog(log), NEW s, Ordered(log, s), Whole(log, s),
           NEW i \in 1 .. Len(s), NEW c, c = s[i], NEW n \in Nat,
           n <= log[c].calls, c + n <= Len(log)
    PROVE  \A k \in 0 .. n : i + k <= Len(s) /\ s[i + k] = c + k
<1>1. /\ log \in Seq(Events) /\ Len(log) \in Nat
      /\ \A e \in 1 .. Len(log) : Formed(log, e) /\ Followed(log, e)
  BY LogFacts DEF IsLog
<1>2. /\ s \in Seq(Nat) /\ Len(s) \in Nat
      /\ \A x : x \in ToSet(s) <=> \E p \in 1 .. Len(s) : s[p] = x
  BY OrderedFacts, Zenon
<1>3. c \in 1 .. Len(log) /\ c \in Nat /\ c # 0 /\ c \in ToSet(s) /\ log[c].calls \in Nat
  <2>1. c \in 1 .. Len(log) /\ c \in Nat /\ c # 0 /\ c \in ToSet(s)
    BY OrderedFacts, Zenon
  <2>. QED  BY <1>1, <2>1, LogFacts
<1>4. CASE n = 0
  <2>. SUFFICES ASSUME NEW k \in 0 .. n PROVE i + k <= Len(s) /\ s[i + k] = c + k
    OBVIOUS
  <2>1. k = 0 /\ i <= Len(s) /\ i \in Nat
    BY <1>2, <1>4
  <2>2. PICK j, d : j = i + k /\ d = c + k
    OBVIOUS
  <2>3. j = i /\ d = c
    BY <1>3, <2>1, <2>2
  <2>4. j <= Len(s) /\ s[j] = d
    BY <2>1, <2>3
  <2>. QED  BY <2>2, <2>4
<1>5. CASE n # 0
  <2>1. Fact(log, c)
    <3>1. PICK m : m = log[c].calls
      OBVIOUS
    <3>2. m # 0
      BY <1>3, <1>5, <3>1
    <3>3. Formed(log, c)
      BY <1>1, <1>3
    <3>. QED  BY <3>1, <3>2, <3>3 DEF Fact, Formed
  <2>2. Rises(s, i)
    BY <2>1, FactsRise
  <2>3. ASSUME NEW k \in 0 .. n PROVE \E p \in i .. Len(s) : s[p] = c + k
    <3>1. CASE k = 0
      <4>1. i \in i .. Len(s) /\ c + k = c
        BY <1>2, <1>3, <3>1
      <4>. QED  BY <4>1
    <3>2. CASE k # 0
      <4>1. /\ k \in 1 .. log[c].calls /\ c + k \in 1 .. Len(log) /\ c + k <= Len(log)
            /\ c + k > c /\ ~(c + k < c)
        <5>1. PICK m, N : m = log[c].calls /\ N = Len(log)
          OBVIOUS
        <5>2. /\ m \in Nat /\ n <= m /\ k \in Nat /\ k <= n /\ 1 <= k
              /\ N \in Nat /\ c + n <= N
          BY <1>1, <1>3, <3>2, <5>1
        <5>3. k \in 1 .. m /\ c + k \in 1 .. N /\ c + k <= N /\ c + k > c /\ ~(c + k < c)
          BY <1>3, <5>2, StepWithin, Zenon
        <5>. QED  BY <5>1, <5>3
      <4>2. PICK r : r = c + k
        OBVIOUS
      <4>3. log[r].of = c /\ Fact(log, r)
        <5>1. log[r].of = c
          <6>1. Followed(log, c)
            BY <1>1, <1>3
          <6>. QED  BY <4>1, <4>2, <6>1 DEF Followed
        <5>2. Formed(log, r) /\ log[r].of # 0
          BY <1>1, <1>3, <4>1, <4>2, <5>1
        <5>. QED  BY <5>1, <5>2 DEF Formed, Fact
      <4>4. r \in ToSet(s)
        BY <1>3, <4>1, <4>2, <4>3 DEF Whole
      <4>5. PICK p \in 1 .. Len(s) : s[p] = r
        BY <1>2, <4>4
      <4>6. ~(p < i)
        <5>1. p < i => s[p] < s[i]
          <6>1. Fact(log, s[i]) /\ Fact(log, s[p])
            BY <2>1, <4>3, <4>5
          <6>. QED  BY <6>1 DEF Ordered
        <5>2. ~(r < c)
          BY <4>1, <4>2, Zenon
        <5>. QED  BY <4>5, <5>1, <5>2
      <4>7. p \in i .. Len(s)
        BY <1>2, <4>6
      <4>. QED  BY <4>2, <4>5, <4>7
    <3>. QED  BY <3>1, <3>2
  <2>4. Holds(s, i, n)
    BY <2>3 DEF Holds
  <2>5. \A k \in 0 .. n : i + k <= Len(s) /\ s[i + k] = s[i] + k
    BY <1>2, <2>2, <2>4, Consecutive, Zenon
  <2>. QED  BY <2>5
<1>. QED
  BY <1>4, <1>5

LEMMA AsFar ==
    ASSUME NEW c \in Nat, NEW k \in Nat, NEW r \in Nat, NEW m \in Nat, NEW q \in Nat, NEW p,
           c + k <= r, r <= c + m, p = q + k
    PROVE  p <= q + m
OBVIOUS

\* A result is not farther from its call than the results the call asks for.
LEMMA ResultNearCall ==
    ASSUME NEW log, IsLog(log), NEW s, Ordered(log, s), Whole(log, s),
           NEW p \in 1 .. Len(s), log[s[p]].of # 0
    PROVE  \E q \in 1 .. Len(s) : q < p /\ s[q] = log[s[p]].of /\ p <= q + log[s[q]].calls
<1>1. /\ log \in Seq(Events) /\ \A e \in 1 .. Len(log) : Formed(log, e)
      /\ s \in Seq(Nat) /\ Len(s) \in Nat /\ Len(log) \in Nat
      /\ \A q \in 1 .. Len(s) : s[q] \in 1 .. Len(log) /\ s[q] \in ToSet(s) /\ s[q] \in Nat
      /\ \A x : x \in ToSet(s) <=> \E q \in 1 .. Len(s) : s[q] = x
  <2>1. log \in Seq(Events) /\ \A e \in 1 .. Len(log) : Formed(log, e)
    BY DEF IsLog
  <2>2. s \in Seq(Nat) /\ Len(s) \in Nat /\ Len(log) \in Nat
    BY OrderedFacts, Zenon
  <2>3. ASSUME NEW q \in 1 .. Len(s)
        PROVE  s[q] \in 1 .. Len(log) /\ s[q] \in ToSet(s) /\ s[q] \in Nat
    BY OrderedFacts, Zenon
  <2>4. ASSUME NEW x PROVE x \in ToSet(s) <=> \E q \in 1 .. Len(s) : s[q] = x
    BY OrderedFacts, Zenon
  <2>. QED  BY <2>1, <2>2, <2>3, <2>4
<1>2. PICK r, c : r = s[p] /\ c = log[r].of
  OBVIOUS
<1>3. /\ r \in 1 .. Len(log) /\ r \in ToSet(s) /\ r \in Nat /\ c \in Nat /\ c # 0
      /\ c < r /\ r <= c + log[c].calls /\ Fact(log, r)
  <2>1. r \in 1 .. Len(log) /\ r \in ToSet(s) /\ r \in Nat /\ c # 0
    BY <1>1, <1>2
  <2>2. c \in Nat
    BY <1>1, <1>2, <2>1, LogFacts
  <2>. QED  BY <1>1, <1>2, <2>1, <2>2 DEF Formed, Fact
<1>4. c \in ToSet(s)
  BY <1>2, <1>3 DEF Whole
<1>5. PICK q \in 1 .. Len(s) : s[q] = c
  BY <1>1, <1>4
<1>6. c \in 1 .. Len(log) /\ log[c].calls \in Nat /\ Fact(log, c)
  <2>1. c \in 1 .. Len(log)
    BY <1>1, <1>5
  <2>2. log[c].calls \in Nat /\ Formed(log, c)
    BY <1>1, <2>1, LogFacts
  <2>3. log[c].calls # 0
    BY <1>3, <2>2
  <2>. QED  BY <2>1, <2>2, <2>3 DEF Formed, Fact
<1>7. q < p
  <2>1. p < q => r < c
    BY <1>2, <1>3, <1>5, <1>6 DEF Ordered
  <2>2. p # q
    BY <1>2, <1>3, <1>5
  <2>. QED  BY <1>3, <2>1, <2>2
<1>8. Rises(s, q)
  BY <1>5, <1>6, FactsRise
<1>9. PICK k \in 0 .. Len(s) - q : p = q + k
  <2>1. p - q \in 0 .. Len(s) - q /\ p = q + (p - q)
    BY <1>1, <1>7
  <2>. QED  BY <2>1
<1>10. c + k <= r
  <2>1. s[q] + k <= s[q + k]
    BY <1>1, <1>8, Spread
  <2>. QED  BY <1>2, <1>5, <1>9, <2>1
<1>11. p <= q + log[c].calls
  <2>1. /\ c \in Nat /\ k \in Nat /\ r \in Nat /\ log[c].calls \in Nat /\ q \in Nat
        /\ c + k <= r /\ r <= c + log[c].calls /\ p = q + k
    BY <1>3, <1>6, <1>9, <1>10
  <2>. QED  BY <2>1, AsFar, Zenon
<1>. QED
  BY <1>2, <1>5, <1>7, <1>11

\* In units that are whole and in order nothing is orphaned or split, and what is
\* incomplete lacks results in the log.
LEMMA UnitsAreWhole ==
    ASSUME IsLog(events), NEW s, Ordered(events, s), Whole(events, s)
    PROVE  Contiguous(s) /\ (Incomplete(s) => Open(events) # {})
<1>1. /\ events \in Seq(Events)
      /\ \A e \in 1 .. Len(events) : Formed(events, e) /\ Followed(events, e)
      /\ Len(s) \in Nat /\ Len(events) \in Nat
      /\ \A p \in 1 .. Len(s) : s[p] \in 1 .. Len(events) /\ s[p] \in Nat
  <2>1. /\ events \in Seq(Events)
        /\ \A e \in 1 .. Len(events) : Formed(events, e) /\ Followed(events, e)
    BY DEF IsLog
  <2>. QED  BY <2>1, OrderedFacts, Zenon
<1>2. ASSUME NEW i \in UnitStarts(s)
      PROVE  i \in 1 .. Len(s) /\ \A j \in 1 .. i - 1 : i > j + events[s[j]].calls
  BY DEF UnitStarts
<1>3. ASSUME NEW i \in UnitStarts(s) PROVE Kind(s[i]) # "tool_result"
  <2>1. SUFFICES ASSUME events[s[i]].of # 0 PROVE FALSE
    BY <1>1, <1>2 DEF Formed, Kind
  <2>2. PICK q \in 1 .. Len(s) : q < i /\ i <= q + events[s[q]].calls
    BY <1>2, <2>1, ResultNearCall
  <2>3. q \in 1 .. i - 1
    BY <1>2, <2>2
  <2>4. events[s[q]].calls \in Nat
    BY <1>1, LogFacts
  <2>. QED  BY <1>2, <2>2, <2>3, <2>4
<1>4. ASSUME NEW i \in UnitStarts(s), NEW k \in 1 .. events[s[i]].calls, i + k <= Len(s)
      PROVE  Kind(s[i + k]) = "tool_result" /\ events[s[i + k]].of = s[i]
  <2>1. i \in 1 .. Len(s) /\ i + k \in 1 .. Len(s) /\ k \in Nat
    BY <1>1, <1>2, <1>4
  <2>2. PICK c, n : c = s[i] /\ n = events[c].calls
    OBVIOUS
  <2>3. /\ c \in 1 .. Len(events) /\ c \in Nat /\ c # 0 /\ n \in Nat /\ n # 0 /\ k <= n
        /\ Formed(events, c) /\ Followed(events, c)
    BY <1>1, <2>1, <2>2, LogFacts
  <2>4. Rises(s, i)
    BY <2>1, <2>2, <2>3, FactsRise DEF Formed, Fact
  <2>5. c + k <= Len(events)
    <3>1. k \in 0 .. Len(s) - i
      BY <1>1, <1>4, <2>1
    <3>2. s[i] + k <= s[i + k]
      <4>1. s \in Seq(Nat)
        BY OrderedFacts
      <4>. QED  BY <2>1, <2>4, <3>1, <4>1, Spread
    <3>3. s[i + k] \in Nat /\ s[i + k] <= Len(events)
      BY <1>1, <2>1
    <3>4. PICK d, N : d = s[i + k] /\ N = Len(events)
      OBVIOUS
    <3>5. c + k <= d /\ d <= N /\ d \in Nat /\ N \in Nat
      BY <1>1, <2>2, <3>2, <3>3, <3>4
    <3>6. c + k <= N
      BY <2>1, <2>3, <3>5
    <3>. QED  BY <3>4, <3>6
  <2>6. s[i + k] = c + k
    <3>1. /\ i \in 1 .. Len(s) /\ c = s[i] /\ k \in Nat /\ k <= events[c].calls
          /\ c + k <= Len(events)
      BY <2>1, <2>2, <2>3, <2>5
    <3>2. \A l \in 0 .. k : i + l <= Len(s) /\ s[i + l] = c + l
      BY <3>1, RunOfCall
    <3>3. k \in 0 .. k
      BY <3>1
    <3>. QED  BY <3>2, <3>3
  <2>7. events[c + k].of = c
    BY <2>2, <2>3, <2>5 DEF Followed
  <2>8. c + k \in 1 .. Len(events)
    BY <1>1, <2>1, <2>3, <2>5
  <2>9. events[c + k].kind = "tool_result"
    BY <1>1, <2>3, <2>7, <2>8 DEF Formed
  <2>. QED  BY <2>2, <2>6, <2>7, <2>9 DEF Kind
<1>5. ASSUME NEW i \in UnitStarts(s), i + events[s[i]].calls > Len(s)
      PROVE  s[i] \in Open(events)
  <2>1. PICK c, n : c = s[i] /\ n = events[c].calls
    OBVIOUS
  <2>2. i \in 1 .. Len(s) /\ c \in 1 .. Len(events) /\ n \in Nat
    BY <1>1, <1>2, <2>1, LogFacts
  <2>3. ASSUME c + n <= Len(events) PROVE FALSE
    <3>1. n \in 0 .. n
      BY <2>2
    <3>2. i + n <= Len(s)
      BY <2>1, <2>2, <2>3, <3>1, RunOfCall
    <3>. QED  BY <1>1, <1>5, <2>1, <2>2, <3>2
  <2>4. c + n > Len(events)
    BY <1>1, <2>2, <2>3
  <2>. QED  BY <2>1, <2>2, <2>4 DEF Open
<1>6. Contiguous(s)
  BY <1>3, <1>4 DEF Contiguous
<1>7. Incomplete(s) => Open(events) # {}
  BY <1>5 DEF Incomplete
<1>. QED
  BY <1>6, <1>7

-----------------------------------------------------------------------------
(* The history: reading the log *)

\* The recursion of ActiveOf.
Reads(f, log) ==
    f = [e \in 0 .. Len(log) |->
            IF e = 0 THEN <<>>
            ELSE IF f[e - 1] = NoHistory THEN NoHistory ELSE Replaced(log, f[e - 1], e)]

LEMMA ReplacedType ==
    ASSUME NEW log \in Seq(Events), NEW e \in 1 .. Len(log), NEW a \in Seq(Nat)
    PROVE  Replaced(log, a, e) \in Seq(Nat)
<1>1. NoHistory \in Seq(Nat) /\ e \in Nat
  BY DEF NoHistory
<1>2. Append(a, e) \in Seq(Nat)
  BY <1>1
<1>3. PICK covered : covered = log[e].covered
  OBVIOUS
<1>4. covered \in Seq(Nat)
  BY <1>3, LogFacts
<1>5. ASSUME IsPrefix(covered, a)
      PROVE  <<e>> \o SubSeq(a, Len(covered) + 1, Len(a)) \in Seq(Nat)
  <2>1. Len(covered) \in Nat /\ Len(a) \in Nat /\ Len(covered) <= Len(a)
    BY <1>4, <1>5 DEF IsPrefix
  <2>2. Len(covered) + 1 \in 1 .. Len(a) + 1
    BY <2>1
  <2>3. From(a, Len(covered) + 1) \in Seq(Nat)
    BY <2>2, RestFacts, Zenon
  <2>. QED  BY <1>1, <2>3 DEF From
<1>. QED
  BY <1>1, <1>2, <1>3, <1>5 DEF Replaced

LEMMA ActiveOfUnfolds ==
    ASSUME NEW log \in Seq(Events)
    PROVE  \E f : Reads(f, log) /\ f \in [0 .. Len(log) -> Seq(Nat)] /\ ActiveOf(log) = f[Len(log)]
<1>. DEFINE N == Len(log)
            step == [p \in Seq(Nat) \X (1 .. N) |->
                        IF p[1] = NoHistory THEN NoHistory ELSE Replaced(log, p[1], p[2])]
<1>1. N \in Nat
  OBVIOUS
<1>2. step \in [Seq(Nat) \X (1 .. N) -> Seq(Nat)]
  <2>1. NoHistory \in Seq(Nat)
    BY DEF NoHistory
  <2>2. \A a \in Seq(Nat), e \in 1 .. N : Replaced(log, a, e) \in Seq(Nat)
    BY ReplacedType
  <2>. QED  BY <2>1, <2>2
<1>3. \A a \in Seq(Nat), e \in 1 .. N :
          step[<<a, e>>] = IF a = NoHistory THEN NoHistory ELSE Replaced(log, a, e)
  OBVIOUS
<1>4. PICK f \in [0 .. N -> Seq(Nat)] : Unfolds(f, N, <<>>, step)
  <2>1. <<>> \in Seq(Nat)
    OBVIOUS
  <2>. HIDE DEF step, N
  <2>. QED  BY <1>1, <1>2, <2>1, Recursion
<1>. HIDE DEF step
<1>5. ASSUME NEW e \in 0 .. N
      PROVE  f[e] = IF e = 0 THEN <<>>
                    ELSE IF f[e - 1] = NoHistory THEN NoHistory ELSE Replaced(log, f[e - 1], e)
  <2>1. CASE e = 0
    BY <1>4, <2>1 DEF Unfolds
  <2>2. CASE e # 0
    <3>1. e \in 1 .. N /\ e - 1 \in 0 .. N
      BY <1>1, <2>2
    <3>2. f[e - 1] \in Seq(Nat)
      BY <3>1
    <3>3. f[e] = step[<<f[e - 1], e>>]
      BY <1>4, <3>1 DEF Unfolds
    <3>. QED  BY <1>3, <2>2, <3>1, <3>2, <3>3
  <2>. QED  BY <2>1, <2>2
<1>6. f = [e \in 0 .. N |-> f[e]]
  OBVIOUS
<1>7. Reads(f, log)
  BY <1>5, <1>6 DEF Reads
<1>8. ActiveOf(log) = (CHOOSE g : Reads(g, log))[N]
  BY DEF ActiveOf, Reads
<1>9. Reads(CHOOSE g : Reads(g, log), log)
  <2>. HIDE DEF Reads
  <2>. QED  BY <1>7, Zenon
<1>10. ASSUME NEW g, Reads(g, log) PROVE g = f
  <2>1. /\ g = [e \in 0 .. N |->
                   IF e = 0 THEN <<>>
                   ELSE IF g[e - 1] = NoHistory THEN NoHistory ELSE Replaced(log, g[e - 1], e)]
    BY <1>10 DEF Reads
  <2>2. \A e \in 0 .. N :
            g[e] = IF e = 0 THEN <<>>
                   ELSE IF g[e - 1] = NoHistory THEN NoHistory ELSE Replaced(log, g[e - 1], e)
    BY <2>1
  <2>. DEFINE Same == {e \in 0 .. N : g[e] = f[e]}
  <2>3. 0 \in Same
    BY <1>1, <1>5, <2>2
  <2>4. ASSUME NEW e \in 0 .. N, e \in Same, e + 1 <= N PROVE e + 1 \in Same
    <3>1. e + 1 \in 0 .. N /\ e + 1 # 0 /\ (e + 1) - 1 = e
      BY <1>1, <2>4
    <3>. QED  BY <1>5, <2>2, <2>4, <3>1
  <2>5. 0 .. N \subseteq Same
    <3>. HIDE DEF Same
    <3>. QED  BY <1>1, <2>3, <2>4, UpTo, Zenon
  <2>6. \A e \in 0 .. N : g[e] = f[e]
    BY <2>5
  <2>7. DOMAIN g = 0 .. N /\ g = [e \in DOMAIN g |-> g[e]]
    BY <2>1
  <2>. QED  BY <1>6, <2>6, <2>7
<1>. QED
  BY <1>4, <1>7, <1>8, <1>9, <1>10

\* What is in use changes with an event by Replaced.
LEMMA ActiveOfMore ==
    ASSUME NEW log \in Seq(Events), NEW ev \in Events, NEW more, more = Append(log, ev),
           ActiveOf(log) # NoHistory
    PROVE  ActiveOf(more) = Replaced(more, ActiveOf(log), Len(log) + 1)
<1>1. /\ Len(log) \in Nat /\ more \in Seq(Events) /\ Len(more) = Len(log) + 1
      /\ \A e \in 1 .. Len(log) : more[e] = log[e]
  BY OneMore
<1>2. PICK f : Reads(f, log) /\ ActiveOf(log) = f[Len(log)]
  BY ActiveOfUnfolds
<1>3. PICK g : Reads(g, more) /\ ActiveOf(more) = g[Len(more)]
  BY <1>1, ActiveOfUnfolds
<1>4. \A e \in 0 .. Len(log) :
          f[e] = IF e = 0 THEN <<>>
                 ELSE IF f[e - 1] = NoHistory THEN NoHistory ELSE Replaced(log, f[e - 1], e)
  BY <1>2 DEF Reads
<1>5. \A e \in 0 .. Len(more) :
          g[e] = IF e = 0 THEN <<>>
                 ELSE IF g[e - 1] = NoHistory THEN NoHistory ELSE Replaced(more, g[e - 1], e)
  BY <1>3 DEF Reads
<1>6. \A e \in 1 .. Len(log) : \A a : Replaced(more, a, e) = Replaced(log, a, e)
  BY <1>1 DEF Replaced
<1>. DEFINE Same == {e \in 0 .. Len(log) : g[e] = f[e]}
<1>7. 0 \in Same
  BY <1>1, <1>4, <1>5
<1>8. ASSUME NEW e \in 0 .. Len(log), e \in Same, e + 1 <= Len(log) PROVE e + 1 \in Same
  <2>1. /\ e + 1 \in 0 .. Len(log) /\ e + 1 \in 0 .. Len(more) /\ e + 1 \in 1 .. Len(log)
        /\ e + 1 # 0 /\ (e + 1) - 1 = e
    BY <1>1, <1>8
  <2>. QED  BY <1>4, <1>5, <1>6, <1>8, <2>1
<1>9. 0 .. Len(log) \subseteq Same
  <2>. HIDE DEF Same
  <2>. QED  BY <1>1, <1>7, <1>8, UpTo, Zenon
<1>10. g[Len(log)] = f[Len(log)]
  BY <1>1, <1>9
<1>11. /\ Len(log) + 1 \in 0 .. Len(more) /\ Len(log) + 1 # 0
       /\ (Len(log) + 1) - 1 = Len(log)
  BY <1>1
<1>12. g[Len(log) + 1] = Replaced(more, g[Len(log)], Len(log) + 1)
  BY <1>2, <1>5, <1>10, <1>11
<1>. QED
  BY <1>1, <1>2, <1>3, <1>10, <1>12

\* What is in use of a first event.
LEMMA ActiveOfOne ==
    ASSUME NEW ev \in Events, ev.kind # "compaction"
    PROVE  ActiveOf(<<ev>>) = <<1>>
<1>1. PICK log : log = <<ev>>
  OBVIOUS
<1>2. log \in Seq(Events) /\ Len(log) = 1 /\ log[1] = ev
  BY <1>1
<1>3. PICK f : Reads(f, log) /\ ActiveOf(log) = f[1]
  BY <1>2, ActiveOfUnfolds
<1>4. \A e \in 0 .. 1 :
          f[e] = IF e = 0 THEN <<>>
                 ELSE IF f[e - 1] = NoHistory THEN NoHistory ELSE Replaced(log, f[e - 1], e)
  BY <1>2, <1>3 DEF Reads
<1>5. f[0] = <<>> /\ f[1] = IF f[0] = NoHistory THEN NoHistory ELSE Replaced(log, f[0], 1)
  <2>1. 0 \in 0 .. 1 /\ 1 \in 0 .. 1 /\ 1 # 0 /\ 1 - 1 = 0
    OBVIOUS
  <2>. QED  BY <1>4, <2>1
<1>6. <<>> # NoHistory
  BY DEF NoHistory
<1>7. f[1] = Append(<<>>, 1)
  BY <1>2, <1>5, <1>6 DEF Replaced
<1>. QED
  BY <1>1, <1>3, <1>7

-----------------------------------------------------------------------------
(* The history: what an event does to what is in use *)

\* The facts outside of a are older than those in it.
Younger(log, a) ==
    \A e, f \in 1 .. Len(log) :
        Fact(log, e) /\ Fact(log, f) /\ e \notin ToSet(a) /\ f \in ToSet(a) => e < f

\* One summary stands for an event that is not in a, and none for one that is.
Replacing(log, a, e) ==
    /\ e \in ToSet(a) => \A c \in 1 .. Len(log) : e \notin ToSet(log[c].covered)
    /\ e \notin ToSet(a) =>
          \E c \in 1 .. Len(log) : \A d \in 1 .. Len(log) : e \in ToSet(log[d].covered) <=> d = c

\* What get_active_history may return of a log.
InUse(log, a) ==
    /\ Ordered(log, a) /\ Whole(log, a)
    /\ a # <<>> /\ Fact(log, a[Len(a)])
    /\ Younger(log, a)
    /\ \A e \in 1 .. Len(log) : Replacing(log, a, e)

\* The call that lacks results is in use.
LEMMA OpenIsInUse ==
    ASSUME NEW log, IsLog(log), NEW a, InUse(log, a), NEW c \in Open(log)
    PROVE  c \in ToSet(a)
<1>1. /\ log \in Seq(Events) /\ \A e \in 1 .. Len(log) : Formed(log, e)
      /\ Ordered(log, a) /\ Whole(log, a) /\ Younger(log, a)
      /\ a # <<>> /\ Fact(log, a[Len(a)])
  BY DEF IsLog, InUse
<1>2. /\ c \in 1 .. Len(log) /\ log[c].kind = "assistant_tool_call"
      /\ \A e \in c + 1 .. Len(log) : log[e].of = c
  BY OpenFacts
<1>3. PICK l : l = a[Len(a)]
  OBVIOUS
<1>4. l \in 1 .. Len(log) /\ l \in ToSet(a) /\ Len(log) \in Nat
  <2>1. Len(a) \in 1 .. Len(a)
    <3>1. a \in Seq(Nat)
      BY <1>1, OrderedFacts
    <3>. QED  BY <1>1, <3>1
  <2>2. a[Len(a)] \in 1 .. Len(log) /\ a[Len(a)] \in ToSet(a)
    BY <1>1, <2>1, OrderedFacts, Zenon
  <2>3. Len(log) \in Nat
    BY <1>1
  <2>. QED  BY <1>3, <2>2, <2>3
<1>5. SUFFICES ASSUME c \notin ToSet(a) PROVE FALSE
  OBVIOUS
<1>6. c < l
  BY <1>1, <1>2, <1>3, <1>4, <1>5 DEF Younger, Fact
<1>7. l \in c + 1 .. Len(log) /\ c # 0
  BY <1>2, <1>4, <1>6
<1>. QED
  BY <1>1, <1>2, <1>4, <1>5, <1>7 DEF Whole

LEMMA AddFact ==
    ASSUME NEW log, IsLog(log), NEW a, InUse(log, a),
           NEW ev \in Events, NEW more, more = Append(log, ev), IsLog(more),
           ev.kind # "compaction", ev.of # 0 => ev.of \in Open(log),
           NEW b, b = Append(a, Len(log) + 1)
    PROVE  InUse(more, b) /\ ToSet(b) = ToSet(a) \cup {Len(log) + 1}
<1>. DEFINE n == Len(log) + 1
<1>1. /\ log \in Seq(Events) /\ Len(log) \in Nat
      /\ \A e \in 1 .. Len(log) : Formed(log, e)
      /\ Formed(more, Len(more))
      /\ Ordered(log, a) /\ Whole(log, a) /\ Younger(log, a)
      /\ \A e \in 1 .. Len(log) : Replacing(log, a, e)
  <2>1. /\ log \in Seq(Events) /\ Len(log) \in Nat
        /\ \A e \in 1 .. Len(log) : Formed(log, e)
        /\ Ordered(log, a) /\ Whole(log, a) /\ Younger(log, a)
        /\ \A e \in 1 .. Len(log) : Replacing(log, a, e)
    BY LogFacts DEF IsLog, InUse
  <2>2. Len(more) \in 1 .. Len(more)
    BY <2>1, OneMore
  <2>. QED  BY <2>1, <2>2 DEF IsLog
<1>2. /\ more \in Seq(Events) /\ Len(more) = n /\ more[n] = ev
      /\ \A e \in 1 .. Len(log) : more[e] = log[e]
  BY <1>1, OneMore
<1>3. /\ Len(a) \in Nat /\ a \in Seq(1 .. Len(log)) /\ n \in Nat
      /\ \A p \in 1 .. Len(a) : a[p] \in 1 .. Len(log)
  BY <1>1 DEF Ordered
<1>4. \A e \in 1 .. n : e = n \/ e \in 1 .. Len(log)
  BY <1>1
<1>5. n \notin 1 .. Len(log) /\ n \in 1 .. n /\ \A e \in 1 .. Len(log) : e \in 1 .. n /\ e < n
  BY <1>1
<1>6. /\ Len(b) = Len(a) + 1 /\ b[Len(a) + 1] = n
      /\ \A p \in 1 .. Len(a) : b[p] = a[p]
      /\ b \in Seq(1 .. n)
  <2>1. a \in Seq(1 .. n)
    BY <1>3, <1>5
  <2>. QED  BY <1>3, <1>5, <2>1
<1>7. \A p \in 1 .. Len(b) : p = Len(a) + 1 \/ p \in 1 .. Len(a)
  BY <1>3, <1>6
<1>. HIDE DEF n
<1>8. ToSet(b) = ToSet(a) \cup {n}
  <2>1. DOMAIN b = 1 .. Len(b) /\ DOMAIN a = 1 .. Len(a) /\ Len(a) + 1 \in 1 .. Len(b)
        /\ \A p \in 1 .. Len(a) : p \in 1 .. Len(b)
    BY <1>3, <1>6
  <2>. QED  BY <1>6, <1>7, <2>1 DEF ToSet
<1>9. \A e \in ToSet(a) : e \in 1 .. Len(log)
  <2>1. DOMAIN a = 1 .. Len(a)
    BY <1>3
  <2>. QED  BY <1>3, <2>1 DEF ToSet
<1>10. Fact(more, n) /\ \A e \in 1 .. Len(log) : Fact(more, e) <=> Fact(log, e)
  BY <1>2 DEF Fact
<1>11. Ordered(more, b)
  <2>1. Distinct(b)
    <3>. SUFFICES ASSUME NEW i \in 1 .. Len(b), NEW j \in 1 .. Len(b), b[i] = b[j] PROVE i = j
      <4>1. DOMAIN b = 1 .. Len(b)
        BY <1>6
      <4>. QED  BY <4>1 DEF Distinct
    <3>1. CASE i = Len(a) + 1 /\ j = Len(a) + 1
      BY <3>1
    <3>2. CASE i = Len(a) + 1 /\ j \in 1 .. Len(a)
      BY <1>3, <1>5, <1>6, <3>2
    <3>3. CASE i \in 1 .. Len(a) /\ j = Len(a) + 1
      BY <1>3, <1>5, <1>6, <3>3
    <3>4. CASE i \in 1 .. Len(a) /\ j \in 1 .. Len(a)
      <4>1. DOMAIN a = 1 .. Len(a) /\ a[i] = a[j]
        BY <1>3, <1>6, <3>4
      <4>. QED  BY <1>1, <3>4, <4>1 DEF Ordered, Distinct
    <3>. QED  BY <1>7, <3>1, <3>2, <3>3, <3>4
  <2>2. ASSUME NEW i \in 2 .. Len(b) PROVE Fact(more, b[i])
    <3>1. i \in 1 .. Len(b)
      BY <1>3, <1>6
    <3>2. CASE i = Len(a) + 1
      BY <1>6, <1>10, <3>2
    <3>3. CASE i \in 1 .. Len(a)
      <4>1. i \in 2 .. Len(a)
        BY <1>3, <3>3
      <4>. QED  BY <1>1, <1>3, <1>6, <1>10, <3>3, <4>1 DEF Ordered
    <3>. QED  BY <1>7, <3>1, <3>2, <3>3
  <2>3. ASSUME NEW i \in 1 .. Len(b), NEW j \in 1 .. Len(b), i < j,
               Fact(more, b[i]), Fact(more, b[j])
        PROVE  b[i] < b[j]
    <3>1. i \in 1 .. Len(a)
      BY <1>3, <1>6, <1>7, <2>3
    <3>2. CASE j = Len(a) + 1
      BY <1>3, <1>5, <1>6, <3>1, <3>2
    <3>3. CASE j \in 1 .. Len(a)
      <4>1. b[i] = a[i] /\ b[j] = a[j] /\ a[i] \in 1 .. Len(log) /\ a[j] \in 1 .. Len(log)
        BY <1>3, <1>6, <3>1, <3>3
      <4>. QED  BY <1>1, <1>10, <2>3, <3>1, <3>3, <4>1 DEF Ordered
    <3>. QED  BY <1>7, <3>2, <3>3
  <2>. QED  BY <1>2, <1>6, <2>1, <2>2, <2>3 DEF Ordered
<1>12. Whole(more, b)
  <2>. SUFFICES ASSUME NEW r \in 1 .. n, more[r].of # 0
                PROVE  r \in ToSet(b) <=> more[r].of \in ToSet(b)
    BY <1>2 DEF Whole
  <2>1. CASE r = n
    <3>1. ev.of \in ToSet(a)
      BY <1>2, <2>1, OpenIsInUse
    <3>. QED  BY <1>2, <1>8, <2>1, <3>1
  <2>2. CASE r \in 1 .. Len(log)
    <3>1. log[r].of # 0 /\ Formed(log, r) /\ log[r].of \in Nat /\ more[r] = log[r]
      BY <1>1, <1>2, <2>2, LogFacts
    <3>2. log[r].of < r
      BY <3>1 DEF Formed
    <3>3. log[r].of # n /\ r # n
      BY <1>5, <2>2, <3>1, <3>2 DEF n
    <3>. QED  BY <1>1, <1>8, <2>2, <3>1, <3>3 DEF Whole
  <2>. QED  BY <1>4, <2>1, <2>2
<1>13. Younger(more, b)
  <2>. SUFFICES ASSUME NEW e \in 1 .. n, NEW f \in 1 .. n, Fact(more, e), Fact(more, f),
                       e \notin ToSet(b), f \in ToSet(b)
                PROVE  e < f
    BY <1>2 DEF Younger
  <2>1. e \in 1 .. Len(log) /\ e \notin ToSet(a)
    BY <1>4, <1>8
  <2>2. CASE f = n
    BY <1>5, <2>1, <2>2
  <2>3. CASE f # n
    BY <1>1, <1>4, <1>8, <1>10, <2>1, <2>3 DEF Younger
  <2>. QED  BY <2>2, <2>3
<1>14. ToSet(more[n].covered) = {}
  <2>1. more[n].covered = <<>>
    BY <1>1, <1>2 DEF Formed
  <2>2. DOMAIN <<>> = {}
    OBVIOUS
  <2>. QED  BY <2>1, <2>2 DEF ToSet
<1>15. ASSUME NEW e \in 1 .. n PROVE Replacing(more, b, e)
  <2>1. \A c \in 1 .. n : e \in ToSet(more[c].covered) <=>
                              c \in 1 .. Len(log) /\ e \in ToSet(log[c].covered)
    BY <1>2, <1>4, <1>5, <1>14
  <2>2. CASE e = n
    <3>1. ASSUME NEW c \in 1 .. Len(log) PROVE n \notin ToSet(log[c].covered)
      <4>1. ToSet(log[c].covered) \subseteq 1 .. (c - 1)
        BY <1>1 DEF Formed
      <4>2. c < n /\ c \in Nat
        BY <1>5
      <4>. QED  BY <1>3, <4>1, <4>2
    <3>. QED  BY <1>2, <1>8, <2>1, <2>2, <3>1 DEF Replacing
  <2>3. CASE e # n
    <3>1. e \in 1 .. Len(log) /\ (e \in ToSet(b) <=> e \in ToSet(a)) /\ Replacing(log, a, e)
      BY <1>1, <1>4, <1>8, <2>3
    <3>2. CASE e \in ToSet(a)
      BY <1>2, <2>1, <3>1, <3>2 DEF Replacing
    <3>3. CASE e \notin ToSet(a)
      <4>1. PICK c \in 1 .. Len(log) :
                \A d \in 1 .. Len(log) : e \in ToSet(log[d].covered) <=> d = c
        BY <3>1, <3>3 DEF Replacing
      <4>2. \A d \in 1 .. n : e \in ToSet(more[d].covered) <=> d = c
        BY <2>1, <4>1
      <4>. QED  BY <1>2, <1>5, <3>1, <3>3, <4>2 DEF Replacing
    <3>. QED  BY <3>2, <3>3
  <2>. QED  BY <2>2, <2>3
<1>16. b # <<>> /\ Fact(more, b[Len(b)])
  <2>1. Len(b) # 0
    BY <1>3, <1>6
  <2>. QED  BY <1>6, <1>10, <2>1
<1>. QED
  BY <1>2, <1>8, <1>11, <1>12, <1>13, <1>15, <1>16 DEF InUse, n

LEMMA AllOfType ==
    ASSUME NEW S, NEW T, NEW s \in Seq(S), \A i \in 1 .. Len(s) : s[i] \in T
    PROVE  s \in Seq(T)
  OBVIOUS

LEMMA JoinFacts ==
    ASSUME NEW T, NEW s \in Seq(T), NEW t \in Seq(T)
    PROVE  /\ s \o t \in Seq(T) /\ Len(s \o t) = Len(s) + Len(t)
           /\ \A i \in 1 .. Len(s) : (s \o t)[i] = s[i]
           /\ \A i \in Len(s) + 1 .. Len(s) + Len(t) : (s \o t)[i] = t[i - Len(s)]
<1>1. Len(s) \in Nat /\ Len(t) \in Nat
  OBVIOUS
<1>2. s \o t \in Seq(T) /\ Len(s \o t) = Len(s) + Len(t)
  OBVIOUS
<1>3. ASSUME NEW i \in 1 .. Len(s) PROVE (s \o t)[i] = s[i]
  OBVIOUS
<1>4. ASSUME NEW i \in Len(s) + 1 .. Len(s) + Len(t) PROVE (s \o t)[i] = t[i - Len(s)]
  OBVIOUS
<1>. QED
  BY <1>2, <1>3, <1>4

LEMMA JoinIsOf ==
    ASSUME NEW T, NEW s \in Seq(T), NEW t \in Seq(T)
    PROVE  s \o t \in Seq(T) /\ ToSet(s \o t) = ToSet(s) \cup ToSet(t)
<1>1. PICK j, m, n : j = s \o t /\ m = Len(s) /\ n = Len(t)
  OBVIOUS
<1>2. /\ j \in Seq(T) /\ Len(j) = m + n /\ m \in Nat /\ n \in Nat
      /\ \A i \in 1 .. m : j[i] = s[i]
      /\ \A i \in m + 1 .. m + n : j[i] = t[i - m]
  BY <1>1, JoinFacts
<1>3. DOMAIN j = 1 .. m + n /\ DOMAIN s = 1 .. m /\ DOMAIN t = 1 .. n
  BY <1>1, <1>2
<1>4. ASSUME NEW i \in 1 .. m + n PROVE j[i] \in ToSet(s) \cup ToSet(t)
  <2>1. CASE i \in 1 .. m
    BY <1>2, <1>3, <2>1 DEF ToSet
  <2>2. CASE i \in m + 1 .. m + n
    <3>1. i - m \in 1 .. n
      BY <1>2, <2>2
    <3>. QED  BY <1>2, <1>3, <2>2, <3>1 DEF ToSet
  <2>. QED  BY <1>2, <2>1, <2>2
<1>5. ASSUME NEW i \in 1 .. m PROVE s[i] \in ToSet(j)
  <2>1. i \in 1 .. m + n
    BY <1>2
  <2>. QED  BY <1>2, <1>3, <2>1 DEF ToSet
<1>6. ASSUME NEW i \in 1 .. n PROVE t[i] \in ToSet(j)
  <2>1. PICK k : k = i + m
    OBVIOUS
  <2>2. k \in m + 1 .. m + n /\ k \in 1 .. m + n /\ k - m = i
    BY <1>2, <2>1
  <2>3. j[k] = t[i]
    BY <1>2, <2>2
  <2>. QED  BY <1>3, <2>2, <2>3 DEF ToSet
<1>7. ToSet(j) = ToSet(s) \cup ToSet(t)
  <2>1. /\ ToSet(j) = {j[i] : i \in 1 .. m + n} /\ ToSet(s) = {s[i] : i \in 1 .. m}
        /\ ToSet(t) = {t[i] : i \in 1 .. n}
    BY <1>3 DEF ToSet
  <2>2. ToSet(j) \subseteq ToSet(s) \cup ToSet(t)
    BY <1>4, <2>1
  <2>3. ToSet(s) \subseteq ToSet(j) /\ ToSet(t) \subseteq ToSet(j)
    BY <1>5, <1>6, <2>1
  <2>. QED  BY <2>2, <2>3
<1>. QED
  BY <1>1, <1>2, <1>7

LEMMA SetOfElements == ASSUME NEW T, NEW s \in Seq(T) PROVE ToSet(s) \subseteq T
<1>1. DOMAIN s = 1 .. Len(s)
  OBVIOUS
<1>2. \A i \in 1 .. Len(s) : s[i] \in T
  OBVIOUS
<1>. QED
  BY <1>1, <1>2 DEF ToSet

\* b is n, and what a has from position k on.
Joined(b, n, a, k) ==
    /\ b \in Seq(Nat) /\ Len(b) = Len(a) - k + 2 /\ b[1] = n
    /\ \A i \in 2 .. Len(a) - k + 2 :
          b[i] = a[i + k - 2] /\ i + k - 2 \in 1 .. Len(a) /\ i + k - 2 \in k .. Len(a)

LEMMA JoinedFacts ==
    ASSUME NEW a \in Seq(Nat), NEW k \in 2 .. Len(a), NEW n \in Nat,
           NEW b, b = <<n>> \o From(a, k)
    PROVE  Joined(b, n, a, k)
<1>1. PICK rest, N, m : rest = From(a, k) /\ N = Len(a) /\ m = N - k + 1
  OBVIOUS
<1>2. PICK one : one = <<n>>
  OBVIOUS
<1>3. N \in Nat /\ k \in Nat /\ 2 <= k /\ k <= N /\ m \in Nat
  BY <1>1
<1>4. rest \in Seq(Nat) /\ Len(rest) = m /\ \A i \in 1 .. m : rest[i] = a[i + k - 1]
  <2>1. k \in 1 .. Len(a) + 1
    BY <1>1, <1>3
  <2>2. /\ From(a, k) \in Seq(Nat) /\ Len(From(a, k)) = Len(a) - k + 1
        /\ \A i \in 1 .. Len(a) - k + 1 : From(a, k)[i] = a[i + k - 1]
    BY <2>1, RestFacts, Zenon
  <2>. QED  BY <1>1, <2>2
<1>5. one \in Seq(Nat) /\ Len(one) = 1 /\ one[1] = n
  BY <1>2
<1>6. b = one \o rest
  BY <1>1, <1>2
<1>7. /\ b \in Seq(Nat) /\ Len(b) = 1 + m
      /\ \A i \in 1 .. 1 : b[i] = one[i]
      /\ \A i \in 1 + 1 .. 1 + m : b[i] = rest[i - 1]
  <2>1. /\ one \o rest \in Seq(Nat) /\ Len(one \o rest) = Len(one) + Len(rest)
        /\ \A i \in 1 .. Len(one) : (one \o rest)[i] = one[i]
        /\ \A i \in Len(one) + 1 .. Len(one) + Len(rest) :
              (one \o rest)[i] = rest[i - Len(one)]
    <3>1. one \in Seq(Nat) /\ rest \in Seq(Nat)
      BY <1>4, <1>5
    <3>. QED  BY <3>1, JoinFacts, Zenon
  <2>. QED  BY <1>4, <1>5, <1>6, <2>1
<1>8. ASSUME NEW i \in 2 .. m + 1
      PROVE  b[i] = a[i + k - 2] /\ i + k - 2 \in 1 .. N /\ i + k - 2 \in k .. N
  <2>1. PICK j : j = i - 1
    OBVIOUS
  <2>2. j \in 1 .. m /\ j + k - 1 = i + k - 2 /\ i \in 1 + 1 .. 1 + m
    BY <1>3, <2>1
  <2>3. b[i] = a[i + k - 2]
    <3>1. b[i] = rest[j]
      BY <1>7, <2>1, <2>2
    <3>. QED  BY <1>4, <2>2, <3>1
  <2>4. i + k - 2 \in 1 .. N /\ i + k - 2 \in k .. N
    BY <1>1, <1>3
  <2>. QED  BY <2>3, <2>4
<1>9. Len(a) - k + 2 = m + 1 /\ 1 + m = m + 1 /\ b[1] = n
  BY <1>1, <1>3, <1>5, <1>7
<1>. QED
  BY <1>1, <1>7, <1>8, <1>9 DEF Joined

\* The event covers what a has before position k.
Covers(ev, a, k) == ToSet(ev.covered) = {a[p] : p \in 1 .. k - 1}

\* A summary takes the place of what a has before position k, a whole number of units.
Replacement(log, a, k, ev, more, b) ==
    /\ IsLog(log) /\ InUse(log, a)
    /\ ev \in Events /\ more = Append(log, ev) /\ IsLog(more)
    /\ ev.kind = "compaction" /\ Len(a) \in Nat /\ k \in 2 .. Len(a) /\ Covers(ev, a, k)
    /\ log[a[k]].kind # "tool_result"
    /\ Joined(b, Len(log) + 1, a, k)

\* A summary of whole units keeps it whole, and covers what it takes the place of.
LEMMA AddSummary ==
    ASSUME NEW log, NEW a, NEW k, NEW ev, NEW more, NEW b, Replacement(log, a, k, ev, more, b)
    PROVE  /\ InUse(more, b)
           /\ ToSet(b) = {Len(log) + 1} \cup {a[p] : p \in k .. Len(a)}
<1>0. PICK N : N = Len(a)
  OBVIOUS
<1>. SUFFICES ASSUME IsLog(log), InUse(log, a), ev \in Events, more = Append(log, ev),
                     IsLog(more), ev.kind = "compaction", N \in Nat, N = Len(a), k \in 2 .. N,
                     Covers(ev, a, k), log[a[k]].kind # "tool_result",
                     Joined(b, Len(log) + 1, a, k)
              PROVE  /\ InUse(more, b)
                     /\ ToSet(b) = {Len(log) + 1} \cup {a[p] : p \in k .. N}
  BY <1>0 DEF Replacement
<1>. DEFINE n == Len(log) + 1
            Kept == {a[p] : p \in k .. N}
            Gone == {a[p] : p \in 1 .. k - 1}
<1>1. /\ log \in Seq(Events) /\ Len(log) \in Nat
      /\ \A e \in 1 .. Len(log) : Formed(log, e) /\ Followed(log, e)
      /\ Formed(more, Len(more))
      /\ Ordered(log, a) /\ Whole(log, a) /\ Younger(log, a)
      /\ \A e \in 1 .. Len(log) : Replacing(log, a, e)
      /\ Fact(log, a[Len(a)])
  <2>1. /\ log \in Seq(Events) /\ Len(log) \in Nat
        /\ \A e \in 1 .. Len(log) : Formed(log, e) /\ Followed(log, e)
        /\ Ordered(log, a) /\ Whole(log, a) /\ Younger(log, a)
        /\ \A e \in 1 .. Len(log) : Replacing(log, a, e)
        /\ Fact(log, a[Len(a)])
    BY LogFacts DEF IsLog, InUse
  <2>2. Len(more) \in 1 .. Len(more)
    BY <2>1, OneMore
  <2>. QED  BY <2>1, <2>2 DEF IsLog
<1>2. /\ more \in Seq(Events) /\ Len(more) = n /\ more[n] = ev
      /\ \A e \in 1 .. Len(log) : more[e] = log[e]
  BY <1>1, OneMore
<1>3. /\ a \in Seq(1 .. Len(log)) /\ n \in Nat /\ DOMAIN a = 1 .. N
      /\ \A p \in 1 .. N : a[p] \in 1 .. Len(log) /\ a[p] \in Nat
  BY <1>1 DEF Ordered
<1>a. \A p, q \in 1 .. N : a[p] = a[q] => p = q
  BY <1>1, <1>3 DEF Ordered, Distinct
<1>b. \A p, q \in 1 .. N : p < q /\ Fact(log, a[p]) /\ Fact(log, a[q]) => a[p] < a[q]
  BY <1>1 DEF Ordered
<1>4. \A e \in 1 .. n : e = n \/ e \in 1 .. Len(log)
  BY <1>1
<1>5. n \notin 1 .. Len(log) /\ n \in 1 .. n /\ \A e \in 1 .. Len(log) : e \in 1 .. n /\ e < n
  BY <1>1
<1>. HIDE DEF n
<1>6. PICK m : m = N - k + 1
  OBVIOUS
<1>7. m \in Nat /\ m >= 1 /\ k \in Nat /\ 2 <= k /\ k <= N
  BY <1>6
<1>8. /\ b \in Seq(1 .. n) /\ Len(b) = m + 1 /\ b[1] = n
      /\ \A i \in 2 .. m + 1 : b[i] = a[i + k - 2] /\ i + k - 2 \in 1 .. N
                               /\ i + k - 2 \in k .. N
  <2>1. m + 1 = Len(a) - k + 2
    BY <1>6, <1>7
  <2>2. /\ b \in Seq(Nat) /\ Len(b) = m + 1 /\ b[1] = n
        /\ \A i \in 2 .. m + 1 : b[i] = a[i + k - 2] /\ i + k - 2 \in 1 .. N
                                 /\ i + k - 2 \in k .. N
    BY <1>6, <2>1 DEF Joined, n
  <2>3. ASSUME NEW i \in 1 .. Len(b) PROVE b[i] \in 1 .. n
    <3>1. i = 1 \/ i \in 2 .. m + 1
      BY <1>7, <2>2
    <3>2. CASE i = 1
      BY <1>5, <2>2, <3>2
    <3>3. CASE i \in 2 .. m + 1
      <4>1. PICK p : p = i + k - 2
        OBVIOUS
      <4>2. b[i] = a[p] /\ p \in 1 .. N
        BY <2>2, <3>3, <4>1
      <4>. QED  BY <1>3, <1>5, <4>2
    <3>. QED  BY <3>1, <3>2, <3>3
  <2>4. b \in Seq(1 .. n)
    <3>1. b \in Seq(Nat)
      BY <2>2
    <3>. QED  BY <2>3, <3>1, AllOfType, Zenon
  <2>. QED  BY <2>2, <2>4
<1>9. \A p \in 1 .. N : p \in k .. N \/ p \in 1 .. k - 1
  BY <1>7
<1>10. (\A p \in k .. N : p \in 1 .. N) /\ (\A p \in 1 .. k - 1 : p \in 1 .. N)
  BY <1>7
<1>11. /\ ToSet(a) = Kept \cup Gone /\ Kept \cap Gone = {}
       /\ \A e \in ToSet(a) : e \in 1 .. Len(log)
  <2>1. ToSet(a) = {a[p] : p \in 1 .. N}
    BY <1>3 DEF ToSet
  <2>2. ToSet(a) = Kept \cup Gone
    BY <1>9, <1>10, <2>1
  <2>3. ASSUME NEW p \in k .. N, NEW q \in 1 .. k - 1, a[p] = a[q] PROVE FALSE
    <3>1. p # q
      BY <1>3
    <3>. QED  BY <1>a, <1>10, <2>3, <3>1
  <2>4. \A e \in ToSet(a) : e \in 1 .. Len(log)
    BY <1>3, <2>1
  <2>. QED  BY <2>2, <2>3, <2>4
<1>12. ToSet(ev.covered) = Gone
  BY DEF Covers
<1>13. ToSet(b) = {n} \cup Kept
  <2>1. DOMAIN b = 1 .. m + 1 /\ 1 \in 1 .. m + 1
    BY <1>7, <1>8
  <2>2. ASSUME NEW i \in 1 .. m + 1 PROVE b[i] \in {n} \cup Kept
    <3>1. i = 1 \/ i \in 2 .. m + 1
      BY <1>7
    <3>. QED  BY <1>8, <3>1
  <2>3. ASSUME NEW p \in k .. N PROVE a[p] \in ToSet(b)
    <3>1. p - k + 2 \in 2 .. m + 1 /\ (p - k + 2) + k - 2 = p /\ p - k + 2 \in 1 .. m + 1
      BY <1>3, <1>6
    <3>2. b[p - k + 2] = a[p]
      BY <1>8, <3>1
    <3>. QED  BY <2>1, <3>1, <3>2 DEF ToSet
  <2>4. b[1] = n
    BY <1>8
  <2>5. ToSet(b) = {b[i] : i \in 1 .. m + 1}
    BY <2>1 DEF ToSet
  <2>. QED  BY <2>1, <2>2, <2>3, <2>4, <2>5
<1>14. ~Fact(more, n) /\ \A e \in 1 .. Len(log) : Fact(more, e) <=> Fact(log, e)
  BY <1>2 DEF Fact
<1>15. \A p \in k .. N : Fact(log, a[p])
  <2>1. \A p \in k .. N : p \in 2 .. N
    BY <1>3
  <2>. QED  BY <1>1, <2>1 DEF Ordered
<1>16. Ordered(more, b)
  <2>1. Distinct(b)
    <3>. SUFFICES ASSUME NEW i \in 1 .. m + 1, NEW j \in 1 .. m + 1, b[i] = b[j] PROVE i = j
      <4>1. DOMAIN b = 1 .. m + 1
        BY <1>7, <1>8
      <4>. QED  BY <4>1 DEF Distinct
    <3>1. ASSUME NEW x \in 2 .. m + 1 PROVE b[x] # n
      BY <1>3, <1>5, <1>8
    <3>2. (i = 1 \/ i \in 2 .. m + 1) /\ (j = 1 \/ j \in 2 .. m + 1)
      BY <1>7
    <3>3. CASE i \in 2 .. m + 1 /\ j \in 2 .. m + 1
      <4>1. PICK p, q : p = i + k - 2 /\ q = j + k - 2
        OBVIOUS
      <4>2. p \in 1 .. N /\ q \in 1 .. N /\ a[p] = a[q]
        BY <1>8, <3>3, <4>1
      <4>3. p = q
        BY <1>a, <4>2
      <4>4. i \in Int /\ j \in Int /\ k \in Int
        BY <1>7
      <4>. QED  BY <4>1, <4>3, <4>4
    <3>. QED  BY <1>8, <3>1, <3>2, <3>3
  <2>2. ASSUME NEW i \in 2 .. m + 1 PROVE Fact(more, b[i])
    BY <1>3, <1>8, <1>14, <1>15
  <2>3. ASSUME NEW i \in 1 .. m + 1, NEW j \in 1 .. m + 1, i < j,
               Fact(more, b[i]), Fact(more, b[j])
        PROVE  b[i] < b[j]
    <3>1. i # 1
      BY <1>8, <1>14, <2>3
    <3>2. i \in 2 .. m + 1 /\ j \in 2 .. m + 1
      BY <1>7, <2>3, <3>1
    <3>3. PICK p, q : p = i + k - 2 /\ q = j + k - 2
      OBVIOUS
    <3>4. /\ p \in 1 .. N /\ q \in 1 .. N /\ b[i] = a[p] /\ b[j] = a[q]
          /\ Fact(log, a[p]) /\ Fact(log, a[q]) /\ p < q
      <4>1. p \in k .. N /\ q \in k .. N /\ b[i] = a[p] /\ b[j] = a[q]
        BY <1>8, <3>2, <3>3
      <4>2. p < q
        BY <1>7, <2>3, <3>2, <3>3
      <4>. QED  BY <1>10, <1>15, <4>1, <4>2
    <3>. QED  BY <1>b, <3>4
  <2>. QED  BY <1>2, <1>8, <2>1, <2>2, <2>3 DEF Ordered
<1>17. Whole(more, b)
  <2>. SUFFICES ASSUME NEW r \in 1 .. n, more[r].of # 0
                PROVE  r \in ToSet(b) <=> more[r].of \in ToSet(b)
    BY <1>2 DEF Whole
  <2>1. r # n
    BY <1>1, <1>2 DEF Formed
  <2>2. PICK c : c = log[r].of
    OBVIOUS
  <2>3. /\ r \in 1 .. Len(log) /\ c = more[r].of /\ c # 0 /\ c \in Nat
        /\ Formed(log, r)
    BY <1>1, <1>2, <1>4, <2>1, <2>2, LogFacts
  <2>4. c < r /\ r <= c + log[c].calls /\ Fact(log, r)
    BY <2>2, <2>3 DEF Formed, Fact
  <2>5. c \in 1 .. Len(log) /\ log[c].calls \in Nat
    <3>1. c \in 1 .. Len(log)
      BY <1>1, <2>3, <2>4
    <3>. QED  BY <1>1, <3>1, LogFacts
  <2>6. Followed(log, c) /\ Fact(log, c)
    <3>1. log[c].calls # 0
      BY <2>3, <2>4, <2>5
    <3>. QED  BY <1>1, <2>5, <3>1 DEF Formed, Fact
  <2>7. r \in ToSet(a) <=> c \in ToSet(a)
    BY <1>1, <2>2, <2>3 DEF Whole
  <2>8. ASSUME NEW p \in 1 .. N, NEW q \in 1 .. N, a[p] = r, a[q] = c
        PROVE  q < p /\ (p >= k => q >= k)
    <3>1. q < p
      <4>1. p < q => r < c
        BY <1>b, <2>4, <2>6, <2>8
      <4>2. p # q
        BY <2>3, <2>4, <2>8
      <4>. QED  BY <2>3, <2>4, <4>1, <4>2
    <3>2. ASSUME p >= k, q < k PROVE FALSE
      <4>1. PICK x : x = a[k]
        OBVIOUS
      <4>2. k \in 1 .. N /\ k \in k .. N /\ x \in 1 .. Len(log) /\ Fact(log, x)
        <5>1. k \in 1 .. N /\ k \in k .. N
          BY <1>7
        <5>. QED  BY <1>3, <1>15, <4>1, <5>1
      <4>3. c < x
        BY <1>b, <2>6, <2>8, <3>2, <4>1, <4>2
      <4>4. x <= r
        <5>1. CASE p = k
          BY <2>3, <2>8, <4>1, <5>1
        <5>2. CASE k < p
          <6>1. x < r
            BY <1>b, <2>4, <2>8, <4>1, <4>2, <5>2
          <6>. QED  BY <2>3, <4>2, <6>1
        <5>. QED  BY <3>2, <5>1, <5>2
      <4>5. PICK l : l = log[c].calls
        OBVIOUS
      <4>6. x - c \in 1 .. l /\ c + (x - c) = x /\ x <= Len(log)
        <5>1. c \in Nat /\ r \in Nat /\ x \in Nat /\ l \in Nat /\ r <= c + l /\ x <= Len(log)
          BY <1>1, <2>3, <2>4, <2>5, <4>2, <4>5
        <5>2. x - c >= 1 /\ x - c <= l /\ x - c \in Int /\ c + (x - c) = x
          BY <4>3, <4>4, <5>1
        <5>. QED  BY <5>1, <5>2
      <4>7. log[x].of = c
        BY <2>6, <4>5, <4>6 DEF Followed
      <4>. QED  BY <1>1, <2>3, <4>1, <4>2, <4>7 DEF Formed
    <3>. QED  BY <3>1, <3>2
  <2>9. r # n /\ c # n
    BY <1>5, <2>3, <2>5
  <2>10. ASSUME r \in Kept PROVE c \in Kept
    <3>1. PICK p \in k .. N : r = a[p]
      BY <2>10
    <3>2. c \in ToSet(a)
      BY <1>11, <2>7, <2>10
    <3>3. PICK q \in 1 .. N : c = a[q]
      BY <1>9, <1>10, <1>11, <3>2
    <3>4. q \in k .. N
      BY <1>10, <2>8, <3>1, <3>3
    <3>. QED  BY <3>3, <3>4
  <2>11. ASSUME c \in Kept PROVE r \in Kept
    <3>1. PICK q \in k .. N : c = a[q]
      BY <2>11
    <3>2. r \in ToSet(a)
      BY <1>11, <2>7, <2>11
    <3>3. PICK p \in 1 .. N : r = a[p]
      BY <1>9, <1>10, <1>11, <3>2
    <3>4. q < p
      BY <1>10, <2>8, <3>1, <3>3
    <3>5. p \in k .. N
      BY <3>4
    <3>. QED  BY <3>3, <3>5
  <2>. QED  BY <1>13, <2>3, <2>9, <2>10, <2>11
<1>18. Younger(more, b)
  <2>. SUFFICES ASSUME NEW e \in 1 .. n, NEW f \in 1 .. n, Fact(more, e), Fact(more, f),
                       e \notin ToSet(b), f \in ToSet(b)
                PROVE  e < f
    BY <1>2 DEF Younger
  <2>1. /\ e \in 1 .. Len(log) /\ f \in 1 .. Len(log) /\ Fact(log, e) /\ Fact(log, f)
        /\ e \notin Kept /\ f \in Kept
    BY <1>4, <1>13, <1>14
  <2>2. CASE e \notin ToSet(a)
    BY <1>1, <1>11, <2>1, <2>2 DEF Younger
  <2>3. CASE e \in Gone
    <3>1. PICK p \in 1 .. k - 1, q \in k .. N : e = a[p] /\ f = a[q]
      BY <2>1, <2>3
    <3>2. p < q /\ p \in 1 .. N /\ q \in 1 .. N
      BY <1>3, <1>10
    <3>. QED  BY <1>b, <2>1, <3>1, <3>2
  <2>. QED  BY <1>11, <2>1, <2>2, <2>3
<1>. HIDE DEF Kept, Gone
<1>19. ASSUME NEW e \in 1 .. n PROVE Replacing(more, b, e)
  <2>1. \A c \in 1 .. n : e \in ToSet(more[c].covered) <=>
            \/ c = n /\ e \in Gone
            \/ c \in 1 .. Len(log) /\ e \in ToSet(log[c].covered)
    BY <1>2, <1>4, <1>5, <1>12
  <2>r. e \in 1 .. Len(log) => Replacing(log, a, e)
    BY <1>1
  <2>w. ASSUME NEW c \in 1 .. n, \A d \in 1 .. n : e \in ToSet(more[d].covered) <=> d = c,
               e \notin ToSet(b)
        PROVE  Replacing(more, b, e)
    BY <1>2, <2>w DEF Replacing
  <2>2. CASE e = n
    <3>1. ASSUME NEW c \in 1 .. Len(log) PROVE n \notin ToSet(log[c].covered)
      <4>1. ToSet(log[c].covered) \subseteq 1 .. (c - 1) /\ c < n /\ c \in Nat
        BY <1>1, <1>5 DEF Formed
      <4>. QED  BY <1>3, <4>1
    <3>2. n \notin Gone
      BY <1>5, <1>11
    <3>. QED  BY <1>2, <1>13, <2>1, <2>2, <3>1, <3>2 DEF Replacing
  <2>3. CASE e \in Kept
    <3>1. e \in 1 .. Len(log) /\ e \in ToSet(a) /\ e \notin Gone /\ Replacing(log, a, e)
      BY <1>11, <2>r, <2>3
    <3>. QED  BY <1>2, <1>13, <2>1, <2>3, <3>1 DEF Replacing
  <2>4. CASE e \in Gone
    <3>1. e \in 1 .. Len(log) /\ e \in ToSet(a) /\ e \notin Kept /\ e # n /\ Replacing(log, a, e)
      BY <1>5, <1>11, <2>r, <2>4
    <3>2. \A d \in 1 .. n : e \in ToSet(more[d].covered) <=> d = n
      BY <2>1, <2>4, <3>1 DEF Replacing
    <3>3. e \notin ToSet(b) /\ n \in 1 .. n
      BY <1>5, <1>13, <3>1
    <3>. QED  BY <2>w, <3>2, <3>3
  <2>5. CASE e # n /\ e \notin ToSet(a)
    <3>1. e \in 1 .. Len(log) /\ e \notin Gone /\ e \notin ToSet(b) /\ Replacing(log, a, e)
      BY <1>4, <1>11, <1>13, <2>r, <2>5
    <3>2. PICK c \in 1 .. Len(log) :
              \A d \in 1 .. Len(log) : e \in ToSet(log[d].covered) <=> d = c
      BY <2>5, <3>1 DEF Replacing
    <3>3. \A d \in 1 .. n : e \in ToSet(more[d].covered) <=> d = c
      BY <1>4, <1>5, <2>1, <3>1, <3>2
    <3>4. c \in 1 .. n
      BY <1>5
    <3>. QED  BY <2>w, <3>1, <3>3, <3>4
  <2>. QED  BY <1>11, <2>2, <2>3, <2>4, <2>5
<1>20. b # <<>> /\ Fact(more, b[Len(b)]) /\ Len(b) >= 2
  <2>1. Len(b) # 0 /\ m + 1 \in 2 .. m + 1 /\ (m + 1) + k - 2 = N /\ Len(b) >= 2
    BY <1>6, <1>7, <1>8
  <2>2. b # <<>>
    <3>1. b \in Seq(1 .. n)
      BY <1>8
    <3>. QED  BY <2>1, <3>1
  <2>3. PICK x : x = a[N]
    OBVIOUS
  <2>4. b[Len(b)] = x /\ x \in 1 .. Len(log) /\ Fact(log, x)
    <3>1. b[m + 1] = a[(m + 1) + k - 2]
      BY <1>8, <2>1
    <3>2. N \in 1 .. N
      BY <1>7
    <3>. QED  BY <1>1, <1>3, <1>8, <2>1, <2>3, <3>1, <3>2
  <2>. QED  BY <1>14, <2>1, <2>2, <2>4
<1>21. InUse(more, b)
  BY <1>2, <1>16, <1>17, <1>18, <1>19, <1>20 DEF InUse
<1>. QED
  BY <1>13, <1>21 DEF n, Kept

-----------------------------------------------------------------------------
(* The history: what is selected from what is in use *)

LEMMA GuidanceFacts ==
    ASSUME NEW T, NEW s \in Seq(T), NEW g, g = GuidanceAt(s)
    PROVE  \/ g = 0 /\ \A i \in 1 .. Len(s) : Kind(s[i]) # "user_guidance"
           \/ /\ g \in 1 .. Len(s) /\ g # 0 /\ Kind(s[g]) = "user_guidance"
              /\ \A i \in 1 .. Len(s) : Kind(s[i]) = "user_guidance" => i <= g
<1>. DEFINE I == {i \in 1 .. Len(s) : Kind(s[i]) = "user_guidance"}
<1>1. g = IF I # {} THEN Max(I) ELSE 0
  BY DEF GuidanceAt, SelectLastInSeq
<1>2. CASE I = {}
  BY <1>1, <1>2
<1>3. CASE I # {}
  <2>1. \E x \in I : \A y \in I : x >= y
    <3>1. I \subseteq 1 .. Len(s) /\ Len(s) \in Nat
      OBVIOUS
    <3>. HIDE DEF I
    <3>2. PICK x \in I : \A y \in I : y <= x
      BY <1>3, <3>1, GreatestUpTo
    <3>3. \A y \in I : y \in Int
      BY <3>1
    <3>. QED  BY <3>2, <3>3
  <2>2. g \in I /\ \A y \in I : g >= y
    <3>. HIDE DEF I
    <3>. QED  BY <1>1, <1>3, <2>1, Zenon DEF Max
  <2>3. \A y \in I : y \in Int
    OBVIOUS
  <2>. QED  BY <2>2, <2>3
<1>. QED
  BY <1>2, <1>3

LEMMA StartFacts ==
    ASSUME NEW T, NEW s \in Seq(T)
    PROVE  /\ UnitStarts(s) \subseteq 1 .. Len(s)
           /\ s # <<>> => 1 \in UnitStarts(s) /\ UnitStarts(s) # {}
<1>1. UnitStarts(s) \subseteq 1 .. Len(s)
  BY DEF UnitStarts
<1>2. ASSUME s # <<>> PROVE 1 \in UnitStarts(s)
  <2>1. 1 \in 1 .. Len(s)
    BY <1>2
  <2>2. 1 .. (1 - 1) = {}
    OBVIOUS
  <2>. QED  BY <2>1, <2>2 DEF UnitStarts
<1>. QED
  BY <1>1, <1>2

\* A suffix starts where a unit starts.
LEMMA SuffixFacts ==
    ASSUME NEW T, NEW s \in Seq(T), NEW limit, NEW cost, NEW i, i = SuffixOfUnits(s, limit, cost)
    PROVE  \/ s = <<>> /\ i = 1
           \/ s # <<>> /\ i \in UnitStarts(s)
<1>. DEFINE starts == UnitStarts(s)
            fits(h) == \A j \in starts : (j >= h /\ \E k \in starts : k > j) => cost[j] <= limit
            Fitting == {h \in starts : fits(h)}
<1>1. i = IF starts = {} THEN 1
          ELSE CHOOSE h \in starts : fits(h) /\ \A k \in starts : fits(k) => h <= k
  BY DEF SuffixOfUnits
<1>2. starts \subseteq 1 .. Len(s) /\ Len(s) \in Nat
  BY StartFacts
<1>3. CASE s = <<>>
  <2>1. Len(s) = 0
    BY <1>3
  <2>2. starts = {}
    BY <1>2, <2>1
  <2>. QED  BY <1>1, <1>3, <2>2
<1>4. CASE s # <<>>
  <2>1. starts # {}
    BY <1>4, StartFacts
  <2>. HIDE DEF starts
  <2>2. PICK l \in starts : \A j \in starts : j <= l
    BY <1>2, <2>1, GreatestUpTo
  <2>3. \A j \in starts : j \in Nat
    BY <1>2
  <2>4. fits(l)
    BY <2>2, <2>3
  <2>5. Fitting \subseteq Nat /\ Fitting # {}
    BY <2>2, <2>3, <2>4
  <2>6. PICK h \in Fitting : \A k \in Fitting : h <= k
    <3>. HIDE DEF Fitting
    <3>. QED  BY <2>5, LeastOfNaturals
  <2>7. \E x \in starts : fits(x) /\ \A k \in starts : fits(k) => x <= k
    BY <2>6
  <2>. HIDE DEF fits
  <2>8. i \in starts
    BY <1>1, <2>1, <2>7, Zenon
  <2>. QED  BY <1>4, <2>8 DEF starts
<1>. QED
  BY <1>3, <1>4

\* plan_compaction cuts between two units, no later than the latest guidance.
LEMMA CutFacts ==
    ASSUME NEW T, NEW a \in Seq(T), a # <<>>, NEW k, k = Cut(a), NEW g, g = GuidanceAt(a)
    PROVE  /\ k \in 1 .. Len(a) /\ Len(a) \in Nat
           /\ g # 0 => k <= g
           /\ k \in UnitStarts(a) \/ (k = g /\ Kind(a[k]) = "user_guidance")
<1>1. PICK cost : cost = [i \in 1 .. Len(a) |-> Tokens(Visible(From(a, i), Guidance(a)))]
  OBVIOUS
<1>2. PICK i : i = SuffixOfUnits(a, KeepRecent, cost)
  OBVIOUS
<1>3. i \in UnitStarts(a) /\ i \in 1 .. Len(a) /\ Len(a) \in Nat
  BY <1>2, SuffixFacts, StartFacts
<1>4. k = IF g # 0 /\ i > g THEN g ELSE i
  BY <1>1, <1>2 DEF Cut
<1>5. g = 0 \/ (g \in 1 .. Len(a) /\ Kind(a[g]) = "user_guidance")
  BY GuidanceFacts
<1>. QED
  BY <1>3, <1>4, <1>5

LEMMA PickedIsOrdered ==
    ASSUME NEW log, NEW s, Ordered(log, s), NEW v \in Seq(1 .. Len(log)), Distinct(v),
           Picked(v, s, Len(s))
    PROVE  Ordered(log, v)
<1>1. /\ \A i \in 2 .. Len(s) : Fact(log, s[i])
      /\ \A i, j \in 1 .. Len(s) : i < j /\ Fact(log, s[i]) /\ Fact(log, s[j]) => s[i] < s[j]
  BY DEF Ordered
<1>2. \A i, j \in 1 .. Len(v) : i < j =>
          \E p, q \in 1 .. Len(s) : p < q /\ v[i] = s[p] /\ v[j] = s[q]
  BY DEF Picked
<1>3. Len(v) \in Nat
  OBVIOUS
<1>4. ASSUME NEW i \in 2 .. Len(v) PROVE Fact(log, v[i])
  <2>1. 1 \in 1 .. Len(v) /\ i \in 1 .. Len(v) /\ 1 < i
    BY <1>3
  <2>2. PICK p \in 1 .. Len(s), q \in 1 .. Len(s) : p < q /\ v[1] = s[p] /\ v[i] = s[q]
    BY <1>2, <2>1
  <2>3. q \in 2 .. Len(s)
    BY <2>2
  <2>. QED  BY <1>1, <2>2, <2>3
<1>5. ASSUME NEW i \in 1 .. Len(v), NEW j \in 1 .. Len(v), i < j,
             Fact(log, v[i]), Fact(log, v[j])
      PROVE  v[i] < v[j]
  <2>1. PICK p \in 1 .. Len(s), q \in 1 .. Len(s) : p < q /\ v[i] = s[p] /\ v[j] = s[q]
    BY <1>2, <1>5
  <2>. QED  BY <1>1, <1>5, <2>1
<1>. QED
  BY <1>4, <1>5 DEF Ordered

\* A successful update and its result are both that.
LEMMA UpdatesAreWhole ==
    ASSUME IsLog(events), NEW r \in 1 .. Len(events), events[r].of # 0
    PROVE  CanonicalUpdate(r) <=> CanonicalUpdate(events[r].of)
<1>1. /\ events \in Seq(Events) /\ Len(events) \in Nat
      /\ \A e \in 1 .. Len(events) : Formed(events, e)
  BY LogFacts DEF IsLog
<1>2. PICK c : c = events[r].of
  OBVIOUS
<1>3. /\ c \in 1 .. Len(events) /\ c # 0 /\ c < r /\ r <= c + events[c].calls
      /\ events[r].canonical => events[c].canonical
  <2>1. c \in Nat /\ Formed(events, r)
    BY <1>1, <1>2, LogFacts
  <2>2. /\ c # 0 /\ c < r /\ r <= c + events[c].calls
        /\ events[r].canonical => events[c].canonical
    BY <1>2, <2>1 DEF Formed
  <2>. QED  BY <1>1, <2>1, <2>2
<1>4. /\ events[c].calls \in Nat /\ events[c].of = 0
      /\ events[c].canonical => events[c].calls <= 1
  <2>1. events[c].calls \in Nat /\ Formed(events, c)
    BY <1>1, <1>3, LogFacts
  <2>2. events[c].calls # 0
    BY <1>3, <2>1
  <2>. QED  BY <2>1, <2>2 DEF Formed
<1>5. ASSUME CanonicalUpdate(r) PROVE CanonicalUpdate(c)
  BY <1>2, <1>3, <1>5 DEF CanonicalUpdate, Ids
<1>6. ASSUME CanonicalUpdate(c) PROVE CanonicalUpdate(r)
  <2>1. events[c].canonical /\ \E q \in 1 .. Len(events) : events[q].canonical /\ events[q].of = c
    BY <1>4, <1>6 DEF CanonicalUpdate, Ids
  <2>2. PICK q \in 1 .. Len(events) : events[q].canonical /\ events[q].of = c
    BY <2>1
  <2>3. c < q /\ q <= c + events[c].calls
    BY <1>1, <1>3, <2>2 DEF Formed
  <2>4. q = r
    <3>1. PICK n : n = events[c].calls
      OBVIOUS
    <3>2. n \in Nat /\ n <= 1 /\ c < q /\ q <= c + n /\ c < r /\ r <= c + n
      BY <1>3, <1>4, <2>1, <2>3, <3>1
    <3>. QED  BY <1>3, <2>2, <3>2
  <2>. QED  BY <1>2, <1>3, <2>2, <2>4 DEF CanonicalUpdate, Ids
<1>. QED
  BY <1>2, <1>5, <1>6

\* What a prompt does not say elsewhere.
Told(g) == {e \in Ids : Kind(e) # "user_message" /\ e # g /\ ~CanonicalUpdate(e)}

LEMMA VisibleFacts ==
    ASSUME IsLog(events), NEW s \in Seq(1 .. Len(events)), Distinct(s), NEW g,
           NEW v, v = Visible(s, g)
    PROVE  /\ v \in Seq(1 .. Len(events)) /\ Distinct(v)
           /\ ToSet(v) = ToSet(s) \cap Told(g)
           /\ Ordered(events, s) => Ordered(events, v)
<1>1. v = InOrder(s, Told(g))
  BY DEF Visible, Told
<1>2. PICK S : S = Told(g)
  OBVIOUS
<1>3. /\ v \in Seq(1 .. Len(events)) /\ ToSet(v) = ToSet(s) \cap S /\ Distinct(v)
      /\ Picked(v, s, Len(s))
  <2>1. PICK T : T = 1 .. Len(events)
    OBVIOUS
  <2>2. s \in Seq(T) /\ v = InOrder(s, S)
    BY <1>1, <1>2, <2>1
  <2>3. v \in Seq(T) /\ ToSet(v) = ToSet(s) \cap S /\ Distinct(v)
    BY <2>2, InOrderFacts
  <2>4. Picked(v, s, Len(s))
    BY <2>2, InOrderKeepsOrder
  <2>. QED  BY <2>1, <2>3, <2>4
<1>. QED
  BY <1>2, <1>3, PickedIsOrdered

\* What is selected consists of whole units.
LEMMA SelectionIsWhole ==
    ASSUME IsLog(events), NEW s, Whole(events, s), NEW v, NEW S,
           ToSet(v) = ToSet(s) \cap S,
           \A r \in 1 .. Len(events) : events[r].of # 0 => (r \in S <=> events[r].of \in S)
    PROVE  Whole(events, v)
  BY DEF Whole

LEMMA ToldIsWhole ==
    ASSUME IsLog(events), NEW g, g # 0 => Kind(g) = "user_guidance",
           NEW r \in 1 .. Len(events), events[r].of # 0
    PROVE  r \in Told(g) <=> events[r].of \in Told(g)
<1>1. /\ events \in Seq(Events) /\ Len(events) \in Nat
      /\ \A e \in 1 .. Len(events) : Formed(events, e)
  BY LogFacts DEF IsLog
<1>2. PICK c : c = events[r].of
  OBVIOUS
<1>3. c \in 1 .. Len(events) /\ c # 0 /\ Kind(r) = "tool_result" /\ Kind(c) = "assistant_tool_call"
  <2>1. c \in Nat /\ Formed(events, r)
    BY <1>1, <1>2, LogFacts
  <2>2. c # 0 /\ c < r /\ r <= c + events[c].calls /\ events[r].kind = "tool_result"
    BY <1>2, <2>1 DEF Formed
  <2>3. c \in 1 .. Len(events)
    BY <1>1, <2>1, <2>2
  <2>4. events[c].calls \in Nat /\ Formed(events, c)
    BY <1>1, <2>3, LogFacts
  <2>5. events[c].calls # 0
    BY <2>1, <2>2, <2>4
  <2>. QED  BY <2>2, <2>3, <2>4, <2>5 DEF Formed, Kind
<1>4. CanonicalUpdate(r) <=> CanonicalUpdate(c)
  BY <1>2, UpdatesAreWhole
<1>5. r # g /\ c # g
  BY <1>3
<1>. QED
  BY <1>2, <1>3, <1>4, <1>5 DEF Told, Ids

\* The recursion of Tokens.
Sums(f, s) ==
    f = [n \in 0 .. Len(s) |-> IF n = 0 THEN 0 ELSE f[n - 1] + events[s[n]].size]

LEMMA TokensUnfold ==
    ASSUME IsLog(events), NEW s \in Seq(1 .. Len(events))
    PROVE  \E f \in [0 .. Len(s) -> Nat] :
               /\ Tokens(s) = f[Len(s)] /\ f[0] = 0
               /\ \A n \in 1 .. Len(s) : f[n] = f[n - 1] + events[s[n]].size
<1>. DEFINE N == Len(s)
            step == [p \in Nat \X (1 .. N) |-> p[1] + events[s[p[2]]].size]
<1>1. N \in Nat /\ \A n \in 1 .. N : s[n] \in 1 .. Len(events)
  OBVIOUS
<1>2. \A e \in 1 .. Len(events) : events[e].size \in Nat
  BY LogFacts, CompactionAssumption DEF IsLog
<1>3. step \in [Nat \X (1 .. N) -> Nat]
  BY <1>1, <1>2
<1>4. \A k \in Nat, n \in 1 .. N : step[<<k, n>>] = k + events[s[n]].size
  OBVIOUS
<1>5. PICK f \in [0 .. N -> Nat] : Unfolds(f, N, 0, step)
  <2>. HIDE DEF step, N
  <2>. QED  BY <1>1, <1>3, Recursion
<1>. HIDE DEF step
<1>6. f[0] = 0
  BY <1>5 DEF Unfolds
<1>7. ASSUME NEW n \in 1 .. N PROVE f[n] = f[n - 1] + events[s[n]].size
  <2>1. n - 1 \in 0 .. N
    BY <1>1
  <2>2. f[n - 1] \in Nat
    BY <2>1
  <2>. QED  BY <1>4, <1>5, <2>2 DEF Unfolds
<1>8. ASSUME NEW n \in 0 .. N PROVE f[n] = IF n = 0 THEN 0 ELSE f[n - 1] + events[s[n]].size
  <2>1. n = 0 \/ n \in 1 .. N
    BY <1>1
  <2>. QED  BY <1>6, <1>7, <2>1
<1>9. f = [n \in 0 .. N |-> f[n]]
  OBVIOUS
<1>10. Sums(f, s)
  BY <1>8, <1>9 DEF Sums
<1>11. Tokens(s) = (CHOOSE g : Sums(g, s))[N]
  BY DEF Tokens, Sums
<1>12. Sums(CHOOSE g : Sums(g, s), s)
  <2>. HIDE DEF Sums
  <2>. QED  BY <1>10, Zenon
<1>13. ASSUME NEW g, Sums(g, s) PROVE g = f
  <2>1. g = [n \in 0 .. N |-> IF n = 0 THEN 0 ELSE g[n - 1] + events[s[n]].size]
    BY <1>13 DEF Sums
  <2>2. \A n \in 0 .. N : g[n] = IF n = 0 THEN 0 ELSE g[n - 1] + events[s[n]].size
    BY <2>1
  <2>. DEFINE Same == {n \in 0 .. N : g[n] = f[n]}
  <2>3. 0 \in Same
    BY <1>1, <1>6, <2>2
  <2>4. ASSUME NEW n \in 0 .. N, n \in Same, n + 1 <= N PROVE n + 1 \in Same
    <3>1. PICK m : m = n + 1
      OBVIOUS
    <3>2. m \in 0 .. N /\ m # 0 /\ m - 1 = n
      BY <1>1, <2>4, <3>1
    <3>3. g[m] = g[m - 1] + events[s[m]].size /\ f[m] = f[m - 1] + events[s[m]].size
      BY <1>8, <2>2, <3>2, Zenon
    <3>4. g[m] = f[m]
      BY <2>4, <3>2, <3>3
    <3>. QED  BY <3>1, <3>2, <3>4
  <2>5. 0 .. N \subseteq Same
    <3>. HIDE DEF Same
    <3>. QED  BY <1>1, <2>3, <2>4, UpTo, Zenon
  <2>6. \A n \in 0 .. N : g[n] = f[n]
    BY <2>5
  <2>7. DOMAIN g = 0 .. N /\ g = [n \in DOMAIN g |-> g[n]]
    BY <2>1
  <2>. QED  BY <1>9, <2>6, <2>7
<1>. QED
  BY <1>5, <1>6, <1>7, <1>11, <1>12, <1>13

\* A sum is not below what is summed, and that of one event is its size.
LEMMA TokensFacts ==
    ASSUME IsLog(events), NEW s \in Seq(1 .. Len(events))
    PROVE  /\ Tokens(s) \in Nat
           /\ \A i \in 1 .. Len(s) : events[s[i]].size \in Nat /\ events[s[i]].size <= Tokens(s)
           /\ Len(s) = 1 => Tokens(s) = events[s[1]].size
<1>1. PICK f \in [0 .. Len(s) -> Nat] :
          /\ Tokens(s) = f[Len(s)] /\ f[0] = 0
          /\ \A n \in 1 .. Len(s) : f[n] = f[n - 1] + events[s[n]].size
  BY TokensUnfold
<1>2. Len(s) \in Nat /\ \A n \in 1 .. Len(s) : s[n] \in 1 .. Len(events)
  OBVIOUS
<1>3. \A n \in 1 .. Len(s) : events[s[n]].size \in Nat
  <2>1. \A e \in 1 .. Len(events) : events[e].size \in Nat
    BY LogFacts, CompactionAssumption DEF IsLog
  <2>. QED  BY <1>2, <2>1
<1>4. \A n \in 0 .. Len(s) : f[n] \in Nat
  BY <1>1
<1>5. ASSUME NEW i \in 1 .. Len(s) PROVE events[s[i]].size <= Tokens(s)
  <2>0. PICK t : t = events[s[i]].size
    OBVIOUS
  <2>. DEFINE Above == {n \in 0 .. Len(s) : i <= n => t <= f[n]}
  <2>1. 0 \in Above
    BY <1>2
  <2>2. ASSUME NEW n \in 0 .. Len(s), n \in Above, n + 1 <= Len(s) PROVE n + 1 \in Above
    <3>1. n + 1 \in 1 .. Len(s) /\ n + 1 \in 0 .. Len(s) /\ (n + 1) - 1 = n /\ n \in Nat
      BY <1>2, <2>2
    <3>2. PICK x, y, z : x = f[n] /\ y = f[n + 1] /\ z = events[s[n + 1]].size
      OBVIOUS
    <3>3. y = x + z /\ x \in Nat /\ y \in Nat /\ z \in Nat
      BY <1>1, <1>3, <1>4, <3>1, <3>2
    <3>4. i <= n => t <= x
      BY <2>2, <3>2
    <3>5. i = n + 1 => t = z
      BY <2>0, <3>2
    <3>6. t \in Nat /\ i \in Nat
      BY <1>2, <1>3, <2>0
    <3>7. i <= n + 1 => t <= y
      BY <3>1, <3>3, <3>4, <3>5, <3>6
    <3>. QED  BY <3>1, <3>2, <3>7
  <2>3. 0 .. Len(s) \subseteq Above
    <3>. HIDE DEF Above
    <3>. QED  BY <1>2, <2>1, <2>2, UpTo, Zenon
  <2>4. Len(s) \in 0 .. Len(s) /\ i <= Len(s)
    BY <1>2
  <2>. QED  BY <1>1, <2>0, <2>3, <2>4
<1>6. Len(s) = 1 => Tokens(s) = events[s[1]].size
  <2>. SUFFICES ASSUME Len(s) = 1 PROVE Tokens(s) = events[s[1]].size
    OBVIOUS
  <2>1. 1 \in 1 .. Len(s) /\ 1 - 1 = 0
    OBVIOUS
  <2>2. f[1] = 0 + events[s[1]].size
    BY <1>1, <2>1
  <2>. QED  BY <1>1, <1>3, <2>1, <2>2
<1>7. Tokens(s) \in Nat
  BY <1>1, <1>2
<1>. QED
  BY <1>3, <1>5, <1>6, <1>7

\* _without_projected_state keeps the order and leaves no result without its call.
LEMMA SelectionFacts ==
    ASSUME IsLog(events), NEW a, InUse(events, a), NEW v, v = Visible(a, Guidance(a))
    PROVE  /\ v \in Seq(1 .. Len(events)) /\ Distinct(v)
           /\ Ordered(events, v) /\ Whole(events, v)
           /\ ToSet(v) = ToSet(a) \cap Told(Guidance(a))
<1>1. /\ Ordered(events, a) /\ Whole(events, a)
      /\ a \in Seq(1 .. Len(events)) /\ Distinct(a)
  BY DEF InUse, Ordered
<1>2. PICK g : g = Guidance(a)
  OBVIOUS
<1>3. g # 0 => Kind(g) = "user_guidance"
  <2>1. PICK p : p = GuidanceAt(a)
    OBVIOUS
  <2>2. p # 0 => Kind(a[p]) = "user_guidance"
    BY <1>1, <2>1, GuidanceFacts
  <2>. QED  BY <1>2, <2>1, <2>2 DEF Guidance
<1>4. /\ v \in Seq(1 .. Len(events)) /\ Distinct(v) /\ Ordered(events, v)
      /\ ToSet(v) = ToSet(a) \cap Told(g)
  BY <1>1, <1>2, VisibleFacts
<1>5. \A r \in 1 .. Len(events) :
          events[r].of # 0 => (r \in Told(g) <=> events[r].of \in Told(g))
  BY <1>3, ToldIsWhole
<1>6. Whole(events, v)
  BY <1>1, <1>4, <1>5, SelectionIsWhole
<1>. QED
  BY <1>2, <1>4, <1>6

LEMMA UnsummarisedFacts ==
    ASSUME IsLog(events), NEW a, InUse(events, a), NEW u, u = Unsummarised(a)
    PROVE  /\ u \in Seq(1 .. Len(events)) /\ Ordered(events, u) /\ Whole(events, u)
           /\ ToSet(u) = ToSet(Visible(a, Guidance(a))) \ Compactions
<1>1. PICK v, S, T : v = Visible(a, Guidance(a)) /\ S = Ids \ Compactions /\ T = 1 .. Len(events)
  OBVIOUS
<1>2. v \in Seq(T) /\ Distinct(v) /\ Ordered(events, v) /\ Whole(events, v)
  BY <1>1, SelectionFacts
<1>3. u = InOrder(v, S)
  BY <1>1 DEF Unsummarised
<1>4. u \in Seq(T) /\ ToSet(u) = ToSet(v) \cap S /\ Distinct(u)
  BY <1>2, <1>3, InOrderFacts
<1>5. Picked(u, v, Len(v))
  BY <1>2, <1>3, InOrderKeepsOrder
<1>6. Ordered(events, u)
  BY <1>1, <1>2, <1>4, <1>5, PickedIsOrdered
<1>7. ASSUME NEW r \in 1 .. Len(events), events[r].of # 0
      PROVE  r \in S /\ events[r].of \in S
  <2>1. /\ events \in Seq(Events) /\ Len(events) \in Nat
        /\ \A e \in 1 .. Len(events) : Formed(events, e)
    BY LogFacts DEF IsLog
  <2>2. PICK c : c = events[r].of
    OBVIOUS
  <2>3. c \in Nat /\ Formed(events, r)
    BY <2>1, <2>2, LogFacts
  <2>4. c # 0 /\ c < r /\ r <= c + events[c].calls /\ events[r].kind = "tool_result"
    BY <1>7, <2>2, <2>3 DEF Formed
  <2>5. c \in 1 .. Len(events)
    BY <2>1, <2>3, <2>4
  <2>6. events[c].calls \in Nat /\ Formed(events, c)
    BY <2>1, <2>5, LogFacts
  <2>7. events[c].calls # 0
    BY <2>3, <2>4, <2>6
  <2>8. events[c].kind = "assistant_tool_call"
    BY <2>6, <2>7 DEF Formed
  <2>. QED  BY <1>1, <2>2, <2>4, <2>5, <2>8 DEF Compactions, Ids, Kind
<1>8. Whole(events, u)
  BY <1>2, <1>4, <1>7, SelectionIsWhole
<1>9. ToSet(v) \subseteq 1 .. Len(events)
  <2>1. DOMAIN v = 1 .. Len(v) /\ \A i \in 1 .. Len(v) : v[i] \in T
    BY <1>2
  <2>. QED  BY <1>1, <2>1 DEF ToSet
<1>. QED
  BY <1>1, <1>4, <1>6, <1>8, <1>9 DEF Ids

\* At most one summary is in use, before all else.
LEMMA SummariesFacts ==
    ASSUME IsLog(events), NEW a, InUse(events, a), NEW w, w = Summaries(a)
    PROVE  /\ w \in Seq(1 .. Len(events)) /\ ToSet(w) \subseteq Compactions
           /\ w # <<>> => ~Fact(events, a[1]) /\ Len(w) = 1 /\ w[1] = a[1]
<1>1. /\ Ordered(events, a) /\ a \in Seq(1 .. Len(events)) /\ Distinct(a)
      /\ \A i \in 2 .. Len(a) : Fact(events, a[i])
  BY DEF InUse, Ordered
<1>2. PICK S, T : S = Compactions /\ T = 1 .. Len(events)
  OBVIOUS
<1>3. w \in Seq(T) /\ ToSet(w) = ToSet(a) \cap S /\ Distinct(w)
  BY <1>1, <1>2, InOrderFacts DEF Summaries
<1>4. DOMAIN w = 1 .. Len(w) /\ Len(w) \in Nat /\ DOMAIN a = 1 .. Len(a) /\ Len(a) \in Nat
  BY <1>1, <1>3
<1>5. ASSUME NEW i \in 1 .. Len(w) PROVE w[i] = a[1] /\ ~Fact(events, a[1])
  <2>1. w[i] \in ToSet(a) /\ w[i] \in S
    BY <1>3, <1>4 DEF ToSet
  <2>2. PICK p \in 1 .. Len(a) : w[i] = a[p]
    BY <1>4, <2>1 DEF ToSet
  <2>3. ~Fact(events, a[p])
    BY <1>2, <2>1, <2>2 DEF Compactions, Kind, Fact
  <2>4. p = 1
    BY <1>1, <1>4, <2>3
  <2>. QED  BY <2>2, <2>3, <2>4
<1>6. ASSUME w # <<>> PROVE ~Fact(events, a[1]) /\ Len(w) = 1 /\ w[1] = a[1]
  <2>1. Len(w) # 0
    BY <1>3, <1>6
  <2>2. 1 \in 1 .. Len(w)
    BY <1>4, <2>1
  <2>3. ASSUME Len(w) # 1 PROVE FALSE
    <3>1. 2 \in 1 .. Len(w)
      BY <1>4, <2>1, <2>3
    <3>2. w[1] = w[2]
      BY <1>5, <2>2, <3>1
    <3>. QED  BY <1>3, <1>4, <2>2, <3>1, <3>2 DEF Distinct
  <2>. QED  BY <1>5, <2>2, <2>3
<1>. QED
  BY <1>2, <1>3, <1>6

-----------------------------------------------------------------------------
(* The history: what a prompt shows *)

\* The facts a prompt may choose from.
Choice(a) == ToSet(Visible(a, Guidance(a))) \ Compactions

\* A recent part of them, in whole transactions.
Suits(p, a) ==
    /\ p \in Seq(1 .. Len(events))
    /\ ToSet(p) \ Compactions \subseteq Choice(a)
    /\ \A e \in ToSet(p) \ Compactions, f \in Choice(a) : f > e => f \in ToSet(p) \ Compactions
    /\ \A r \in ToSet(p) \ Compactions :
          events[r].of # 0 => events[r].of \in ToSet(p) \ Compactions

\* A prompt may show nothing (the history budget may be 0).
LEMMA NothingSuits == ASSUME NEW a PROVE Suits(<<>>, a)
<1>1. ToSet(<<>>) = {}
  <2>1. DOMAIN <<>> = {}
    OBVIOUS
  <2>. QED  BY <2>1 DEF ToSet
<1>2. <<>> \in Seq(1 .. Len(events))
  OBVIOUS
<1>. QED
  BY <1>1, <1>2 DEF Suits

LEMMA SuitedIsNoHistory == ASSUME NEW a, NEW p, Suits(p, a) PROVE p # NoHistory
<1>1. p \in Seq(1 .. Len(events))
  BY DEF Suits
<1>2. ASSUME p = NoHistory PROVE FALSE
  <2>1. Len(p) = 1 /\ p[1] = 0
    BY <1>2 DEF NoHistory
  <2>2. 1 \in 1 .. Len(p)
    BY <2>1
  <2>3. p[1] \in 1 .. Len(events)
    BY <1>1, <2>2
  <2>. QED  BY <2>1, <2>3
<1>. QED
  BY <1>2

\* A suffix of whole units does.
LEMMA SuffixSuits ==
    ASSUME IsLog(events), NEW a, NEW v, Ordered(events, v), Whole(events, v),
           ToSet(v) \ Compactions = Choice(a), NEW i,
           (i = 1 /\ v = <<>>) \/ i \in UnitStarts(v),
           NEW p \in Seq(1 .. Len(events)),
           ToSet(p) \ Compactions = {v[k] : k \in i .. Len(v)} \ Compactions
    PROVE  Suits(p, a)
<1>1. PICK facts : facts = ToSet(p) \ Compactions
  OBVIOUS
<1>2. /\ v \in Seq(Nat) /\ Len(v) \in Nat
      /\ \A k \in 1 .. Len(v) : v[k] \in 1 .. Len(events) /\ v[k] \in ToSet(v) /\ v[k] \in Nat
      /\ \A x : x \in ToSet(v) <=> \E k \in 1 .. Len(v) : v[k] = x
      /\ \A k, l \in 1 .. Len(v) : k < l /\ Fact(events, v[k]) /\ Fact(events, v[l]) => v[k] < v[l]
  <2>1. \A k, l \in 1 .. Len(v) : k < l /\ Fact(events, v[k]) /\ Fact(events, v[l]) => v[k] < v[l]
    BY DEF Ordered
  <2>2. /\ v \in Seq(Nat) /\ Len(v) \in Nat
        /\ \A k \in 1 .. Len(v) : v[k] \in 1 .. Len(events) /\ v[k] \in ToSet(v) /\ v[k] \in Nat
        /\ \A x : x \in ToSet(v) <=> \E k \in 1 .. Len(v) : v[k] = x
    BY OrderedFacts, Zenon
  <2>. QED  BY <2>1, <2>2
<1>3. i \in Nat /\ 1 <= i /\ \A k \in i .. Len(v) : k \in 1 .. Len(v)
  <2>1. i = 1 \/ i \in 1 .. Len(v)
    BY DEF UnitStarts
  <2>2. i \in Nat /\ 1 <= i
    BY <2>1
  <2>. QED  BY <1>2, <2>2
<1>4. \A x \in 1 .. Len(events) : x \notin Compactions <=> Fact(events, x)
  BY DEF Compactions, Fact, Kind, Ids
<1>5. \A e \in facts : \E k \in i .. Len(v) : e = v[k] /\ Fact(events, e) /\ e \notin Compactions
  BY <1>1, <1>2, <1>3, <1>4
<1>6. ASSUME NEW k \in i .. Len(v), Fact(events, v[k]) PROVE v[k] \in facts
  BY <1>1, <1>2, <1>3, <1>4, <1>6
<1>7. facts \subseteq Choice(a)
  BY <1>2, <1>3, <1>5
<1>8. ASSUME NEW e \in facts, NEW f \in Choice(a), f > e PROVE f \in facts
  <2>0. f \in ToSet(v) /\ f \notin Compactions
    OBVIOUS
  <2>1. PICK k \in i .. Len(v) : e = v[k] /\ Fact(events, e)
    BY <1>5
  <2>2. PICK l \in 1 .. Len(v) : f = v[l] /\ Fact(events, f)
    <3>1. PICK l \in 1 .. Len(v) : f = v[l]
      BY <1>2, <2>0
    <3>2. f \in 1 .. Len(events)
      BY <1>2, <3>1
    <3>. QED  BY <1>4, <2>0, <3>1, <3>2
  <2>3. k \in 1 .. Len(v) /\ e \in Nat /\ f \in Nat /\ k \in Nat /\ l \in Nat
    <3>1. k \in 1 .. Len(v) /\ k \in Nat /\ l \in Nat
      BY <1>2, <1>3
    <3>. QED  BY <1>2, <2>1, <2>2, <3>1
  <2>4. ~(l < k) /\ l # k
    <3>1. l < k => f < e
      BY <1>2, <2>1, <2>2, <2>3
    <3>. QED  BY <1>8, <2>1, <2>2, <2>3, <3>1
  <2>5. l \in i .. Len(v)
    BY <1>3, <2>3, <2>4
  <2>. QED  BY <1>6, <2>2, <2>5
<1>9. ASSUME NEW r \in facts, events[r].of # 0 PROVE events[r].of \in facts
  <2>1. PICK k \in i .. Len(v) : r = v[k]
    BY <1>5
  <2>2. k \in 1 .. Len(v) /\ k \in Nat /\ i <= k
    BY <1>3, <2>1
  <2>3. PICK q \in 1 .. Len(v) :
            q < k /\ v[q] = events[r].of /\ k <= q + events[v[q]].calls
    BY <1>9, <2>1, <2>2, ResultNearCall
  <2>4. PICK c, n : c = v[q] /\ n = events[c].calls
    OBVIOUS
  <2>5. c \in 1 .. Len(events) /\ n \in Nat /\ n # 0 /\ Fact(events, c)
    <3>1. c \in 1 .. Len(events)
      BY <1>2, <2>4
    <3>2. n \in Nat /\ Formed(events, c)
      BY <2>4, <3>1, LogFacts DEF IsLog
    <3>3. n # 0
      BY <2>2, <2>3, <2>4, <3>2
    <3>. QED  BY <2>4, <3>1, <3>2, <3>3 DEF Formed, Fact
  <2>6. q \in i .. Len(v)
    <3>1. SUFFICES ASSUME q < i PROVE FALSE
      BY <1>2, <1>3
    <3>2. v # <<>>
      <4>1. Len(v) # 0
        BY <2>2, <1>2
      <4>. QED  BY <4>1
    <3>3. \A j \in 1 .. i - 1 : i > j + events[v[j]].calls
      BY <3>2 DEF UnitStarts
    <3>4. q \in 1 .. i - 1 /\ q \in Nat
      BY <1>3, <3>1
    <3>5. i > q + n
      BY <2>4, <3>3, <3>4
    <3>6. k <= q + n
      BY <2>3, <2>4
    <3>. QED  BY <1>3, <2>2, <2>5, <3>4, <3>5, <3>6
  <2>. QED  BY <1>6, <2>3, <2>4, <2>5, <2>6
<1>. QED
  BY <1>1, <1>7, <1>8, <1>9 DEF Suits

LEMMA RestSuits ==
    ASSUME IsLog(events), NEW a, NEW v \in Seq(1 .. Len(events)), Ordered(events, v),
           Whole(events, v), ToSet(v) \ Compactions = Choice(a), NEW i,
           (i = 1 /\ v = <<>>) \/ i \in UnitStarts(v)
    PROVE  Suits(From(v, i), a)
<1>1. i \in 1 .. Len(v) + 1
  <2>1. i \in 1 .. Len(v) \/ (i = 1 /\ Len(v) = 0)
    BY DEF UnitStarts
  <2>2. Len(v) \in Nat
    OBVIOUS
  <2>. QED  BY <2>1, <2>2
<1>2. From(v, i) \in Seq(1 .. Len(events))
  BY <1>1, RestFacts
<1>3. ToSet(From(v, i)) = {v[k] : k \in i .. Len(v)}
  BY <1>1, RestIsOf
<1>4. PICK p : p = From(v, i)
  OBVIOUS
<1>5. /\ p \in Seq(1 .. Len(events))
      /\ ToSet(p) \ Compactions = {v[k] : k \in i .. Len(v)} \ Compactions
  BY <1>2, <1>3, <1>4
<1>6. Suits(p, a)
  BY <1>5, SuffixSuits
<1>. QED
  BY <1>4, <1>6

LEMMA RecentSuits ==
    ASSUME IsLog(events), NEW a, InUse(events, a), NEW limit
    PROVE  Suits(Recent(a, limit), a)
<1>1. PICK v, cost, i : /\ v = Visible(a, Guidance(a))
                        /\ cost = [k \in 1 .. Len(v) |-> 1 + Tokens(From(v, k))]
                        /\ i = SuffixOfUnits(v, limit, cost)
  OBVIOUS
<1>2. Recent(a, limit) = IF Incomplete(v) THEN <<>> ELSE From(v, i)
  BY <1>1 DEF Recent
<1>3. /\ v \in Seq(1 .. Len(events)) /\ Ordered(events, v) /\ Whole(events, v)
      /\ ToSet(v) \ Compactions = Choice(a)
  BY <1>1, SelectionFacts DEF Choice
<1>4. (i = 1 /\ v = <<>>) \/ i \in UnitStarts(v)
  BY <1>1, <1>3, SuffixFacts
<1>5. Suits(From(v, i), a)
  BY <1>3, <1>4, RestSuits
<1>. QED
  BY <1>2, <1>5, NothingSuits

LEMMA BoundedSuits ==
    ASSUME IsLog(events), InUse(events, Active), NEW p, Suits(p, Active), NEW extra,
           NEW space
    PROVE  Suits(Bounded(p, extra, space), Active)
<1>1. Suits(Recent(Active, space), Active)
  BY RecentSuits
<1>. QED
  BY <1>1, NothingSuits DEF Bounded

LEMMA ProjectedSuits ==
    ASSUME IsLog(events), NEW a, a = Active, InUse(events, a), NEW space
    PROVE  Suits(Projected(a, space), a)
<1>1. PICK v, w, u, T : /\ v = Visible(a, Guidance(a)) /\ w = Summaries(a)
                        /\ u = Unsummarised(a) /\ T = 1 .. Len(events)
  OBVIOUS
<1>2. PICK cost, i : /\ cost = [k \in 1 .. Len(u) |->
                                   Tokens(w) + Omission(k) + Tokens(From(u, k))]
                     /\ i = SuffixOfUnits(u, space, cost)
  OBVIOUS
<1>3. Projected(a, space) = IF w = <<>> THEN Bounded(v, 0, space)
                            ELSE Bounded(w \o From(u, i), Omission(i), space)
  BY <1>1, <1>2 DEF Projected
<1>4. CASE w = <<>>
  <2>1. /\ v \in Seq(T) /\ Ordered(events, v) /\ Whole(events, v)
        /\ ToSet(v) \ Compactions = Choice(a)
    BY <1>1, SelectionFacts DEF Choice
  <2>2. (1 = 1 /\ v = <<>>) \/ 1 \in UnitStarts(v)
    BY <2>1, StartFacts
  <2>3. ToSet(v) = {v[k] : k \in 1 .. Len(v)}
    <3>1. DOMAIN v = 1 .. Len(v)
      BY <2>1
    <3>. QED  BY <3>1 DEF ToSet
  <2>4. Suits(v, a)
    <3>1. /\ v \in Seq(1 .. Len(events))
          /\ ToSet(v) \ Compactions = {v[k] : k \in 1 .. Len(v)} \ Compactions
      BY <1>1, <2>1, <2>3
    <3>. QED  BY <2>1, <2>2, <3>1, SuffixSuits, Zenon
  <2>. QED  BY <1>3, <1>4, <2>4, BoundedSuits
<1>5. CASE w # <<>>
  <2>1. /\ u \in Seq(T) /\ Ordered(events, u) /\ Whole(events, u)
        /\ ToSet(u) = Choice(a)
    BY <1>1, UnsummarisedFacts DEF Choice
  <2>2. w \in Seq(T) /\ ToSet(w) \subseteq Compactions
    BY <1>1, SummariesFacts
  <2>3. (i = 1 /\ u = <<>>) \/ i \in UnitStarts(u)
    BY <1>2, <2>1, SuffixFacts
  <2>4. i \in 1 .. Len(u) + 1
    <3>1. i \in 1 .. Len(u) \/ (i = 1 /\ Len(u) = 0)
      BY <2>1, <2>3 DEF UnitStarts
    <3>2. Len(u) \in Nat
      BY <2>1
    <3>. QED  BY <3>1, <3>2
  <2>5. PICK t : t = From(u, i)
    OBVIOUS
  <2>6. t \in Seq(T) /\ ToSet(t) = {u[k] : k \in i .. Len(u)}
    <3>1. From(u, i) \in Seq(T)
      BY <2>1, <2>4, RestFacts, Zenon
    <3>2. ToSet(From(u, i)) = {u[k] : k \in i .. Len(u)}
      BY <2>1, <2>4, RestIsOf, Zenon
    <3>. QED  BY <2>5, <3>1, <3>2
  <2>7. w \o t \in Seq(T) /\ ToSet(w \o t) = ToSet(w) \cup ToSet(t)
    BY <2>2, <2>6, JoinIsOf
  <2>8. PICK p : p = w \o t
    OBVIOUS
  <2>9. /\ p \in Seq(1 .. Len(events)) /\ ToSet(u) \ Compactions = Choice(a)
        /\ ToSet(p) \ Compactions = {u[k] : k \in i .. Len(u)} \ Compactions
    <3>1. ToSet(u) \ Compactions = Choice(a)
      BY <2>1 DEF Choice
    <3>. QED  BY <1>1, <2>2, <2>6, <2>7, <2>8, <3>1
  <2>10. Suits(p, a)
    BY <2>1, <2>3, <2>9, SuffixSuits
  <2>. QED  BY <1>3, <1>5, <2>5, <2>8, <2>10, BoundedSuits
<1>. QED
  BY <1>4, <1>5

\* With no result missing and room for the summary the history can be rendered.
LEMMA NotRaised ==
    ASSUME IsLog(events), NEW a, InUse(events, a), Open(events) = {}, NEW space \in Nat,
           ~Fact(events, a[1]) => events[a[1]].size + 1 <= space
    PROVE  ~CompactedRaises(a, space)
<1>1. PICK w, u : w = Summaries(a) /\ u = Unsummarised(a)
  OBVIOUS
<1>2. SUFFICES ASSUME w # <<>>
               PROVE  /\ Contiguous(u) /\ ~Incomplete(u)
                      /\ ~(Tokens(w) + Omission(Len(u) + 1) > space)
  BY <1>1 DEF CompactedRaises
<1>3. /\ w \in Seq(1 .. Len(events)) /\ ~Fact(events, a[1]) /\ Len(w) = 1 /\ w[1] = a[1]
  BY <1>1, <1>2, SummariesFacts
<1>4. Ordered(events, u) /\ Whole(events, u)
  BY <1>1, UnsummarisedFacts
<1>5. Contiguous(u) /\ ~Incomplete(u)
  BY <1>4, UnitsAreWhole
<1>6. PICK x, y, z : x = Tokens(w) /\ y = events[a[1]].size /\ z = Omission(Len(u) + 1)
  OBVIOUS
<1>7. x = y /\ x \in Nat /\ y + 1 <= space
  BY <1>3, <1>6, TokensFacts
<1>8. z \in {0, 1}
  BY <1>6 DEF Omission
<1>9. ~(x + z > space)
  BY <1>7, <1>8
<1>. QED
  BY <1>5, <1>6, <1>9

-----------------------------------------------------------------------------
(* The history: what a log promises of its summaries *)

\* No guidance is out of use without a later one in use.
Latest(log, a) ==
    \A e \in 1 .. Len(log) : log[e].kind = "user_guidance" /\ e \notin ToSet(a) =>
        \E f \in ToSet(a) : log[f].kind = "user_guidance" /\ f > e

\* A result of the call or of its batch holds what e says.
Updates(log, e) ==
    /\ log[e].canonical
    /\ \E r \in 1 .. Len(log) : log[r].canonical /\ log[r].of \in {e, log[e].of} \ {0}

\* What is out of use was read for a summary or stands elsewhere.
Accounted(log, a, read) ==
    \A e \in 1 .. Len(log) :
        e \in ToSet(a) \/ e \in read \/ log[e].kind = "user_message" \/ Updates(log, e)

LEMMA UpdatesStay ==
    ASSUME NEW log \in Seq(Events), NEW ev \in Events, NEW more, more = Append(log, ev),
           NEW e \in 1 .. Len(log), Updates(log, e)
    PROVE  Updates(more, e)
<1>1. /\ Len(log) \in Nat /\ Len(more) = Len(log) + 1
      /\ \A r \in 1 .. Len(log) : more[r] = log[r] /\ r \in 1 .. Len(more)
  BY OneMore
<1>2. PICK r \in 1 .. Len(log) : log[r].canonical /\ log[r].of \in {e, log[e].of} \ {0}
  BY DEF Updates
<1>3. more[r].canonical /\ more[r].of \in {e, more[e].of} \ {0} /\ r \in 1 .. Len(more)
  BY <1>1, <1>2
<1>4. more[e].canonical
  BY <1>1 DEF Updates
<1>. QED
  BY <1>3, <1>4 DEF Updates

\* An event that is not a summary keeps the promises.
LEMMA FactKeeps ==
    ASSUME NEW log \in Seq(Events), NEW a, NEW read, Latest(log, a), Accounted(log, a, read),
           NEW ev \in Events, NEW more, more = Append(log, ev),
           NEW b, ToSet(b) = ToSet(a) \cup {Len(log) + 1},
           \A e \in ToSet(a) : e \in 1 .. Len(log)
    PROVE  Latest(more, b) /\ Accounted(more, b, read)
<1>1. /\ Len(log) \in Nat /\ Len(more) = Len(log) + 1
      /\ \A r \in 1 .. Len(log) : more[r] = log[r]
  BY OneMore
<1>2. \A e \in 1 .. Len(more) : e \notin ToSet(b) => e \in 1 .. Len(log) /\ e \notin ToSet(a)
  BY <1>1
<1>3. ASSUME NEW e \in 1 .. Len(more), more[e].kind = "user_guidance", e \notin ToSet(b)
      PROVE  \E f \in ToSet(b) : more[f].kind = "user_guidance" /\ f > e
  <2>1. e \in 1 .. Len(log) /\ e \notin ToSet(a) /\ log[e].kind = "user_guidance"
    BY <1>1, <1>2, <1>3
  <2>2. PICK f \in ToSet(a) : log[f].kind = "user_guidance" /\ f > e
    BY <2>1 DEF Latest
  <2>. QED  BY <1>1, <2>2
<1>4. ASSUME NEW e \in 1 .. Len(more), e \notin ToSet(b)
      PROVE  e \in read \/ more[e].kind = "user_message" \/ Updates(more, e)
  <2>1. e \in 1 .. Len(log) /\ e \notin ToSet(a) /\ more[e] = log[e]
    BY <1>1, <1>2, <1>4
  <2>2. e \in read \/ log[e].kind = "user_message" \/ Updates(log, e)
    BY <2>1 DEF Accounted
  <2>. QED  BY <2>1, <2>2, UpdatesStay
<1>. QED
  BY <1>3, <1>4 DEF Latest, Accounted

\* There is guidance from position k of a on that is not before any other in a.
LatestFrom(log, a, k) ==
    \A q \in 1 .. Len(a) : log[a[q]].kind = "user_guidance" =>
        \E g \in k .. Len(a) : q <= g /\ log[a[g]].kind = "user_guidance"

\* What a has before position k was read, or stands elsewhere.
WasRead(log, a, k, read) ==
    \A p \in 1 .. k - 1 :
        a[p] \in read \/ log[a[p]].kind = "user_message" \/ Updates(log, a[p])

\* A summary keeps them if the latest guidance stays and all else that is replaced
\* was read or stands elsewhere.
LEMMA SummaryKeeps ==
    ASSUME NEW log, IsLog(log), NEW a, InUse(log, a), NEW read,
           Latest(log, a), Accounted(log, a, read),
           NEW ev \in Events, NEW more, more = Append(log, ev),
           NEW k \in 1 .. Len(a), LatestFrom(log, a, k),
           NEW b, ToSet(b) = {Len(log) + 1} \cup {a[p] : p \in k .. Len(a)},
           NEW now, read \subseteq now, WasRead(log, a, k, now)
    PROVE  Latest(more, b) /\ Accounted(more, b, now)
<1>1. /\ log \in Seq(Events) /\ Len(log) \in Nat /\ Len(more) = Len(log) + 1
      /\ \A r \in 1 .. Len(log) : more[r] = log[r]
  <2>1. log \in Seq(Events)
    BY DEF IsLog
  <2>. QED  BY <2>1, OneMore
<1>2. /\ Len(a) \in Nat
      /\ \A p \in 1 .. Len(a) : a[p] \in 1 .. Len(log)
      /\ \A x : x \in ToSet(a) <=> \E p \in 1 .. Len(a) : a[p] = x
      /\ \A i, j \in 1 .. Len(a) : i < j /\ Fact(log, a[i]) /\ Fact(log, a[j]) => a[i] < a[j]
  <2>1. Ordered(log, a)
    BY DEF InUse
  <2>2. /\ Len(a) \in Nat
        /\ \A p \in 1 .. Len(a) : a[p] \in 1 .. Len(log)
        /\ \A x : x \in ToSet(a) <=> \E p \in 1 .. Len(a) : a[p] = x
    <3>1. Len(a) \in Nat
      BY <2>1, OrderedFacts, Zenon
    <3>2. ASSUME NEW p \in 1 .. Len(a) PROVE a[p] \in 1 .. Len(log)
      BY <2>1, OrderedFacts, Zenon
    <3>3. ASSUME NEW x PROVE x \in ToSet(a) <=> \E p \in 1 .. Len(a) : a[p] = x
      BY <2>1, OrderedFacts
    <3>. QED  BY <3>1, <3>2, <3>3
  <2>. QED  BY <2>1, <2>2 DEF Ordered
<1>3. ASSUME NEW e \in 1 .. Len(more), e \notin ToSet(b)
      PROVE  /\ e \in 1 .. Len(log) /\ more[e] = log[e]
             /\ e \notin ToSet(a) \/ \E p \in 1 .. k - 1 : p \in 1 .. Len(a) /\ e = a[p]
  <2>1. e \in 1 .. Len(log)
    BY <1>1, <1>3
  <2>2. ASSUME e \in ToSet(a) PROVE \E p \in 1 .. k - 1 : p \in 1 .. Len(a) /\ e = a[p]
    <3>1. PICK p \in 1 .. Len(a) : a[p] = e
      BY <1>2, <2>2
    <3>2. p \notin k .. Len(a)
      BY <1>3, <3>1
    <3>3. p \in 1 .. k - 1
      BY <1>2, <3>2
    <3>. QED  BY <3>1, <3>3
  <2>. QED  BY <1>1, <2>1, <2>2
<1>4. ASSUME NEW e \in 1 .. Len(more), more[e].kind = "user_guidance", e \notin ToSet(b)
      PROVE  \E f \in ToSet(b) : more[f].kind = "user_guidance" /\ f > e
  <2>1. log[e].kind = "user_guidance" /\ e \in Nat
    BY <1>3, <1>4
  <2>2. \E q \in 1 .. Len(a) : log[a[q]].kind = "user_guidance" /\ (a[q] > e \/ (a[q] = e /\ q < k))
    <3>1. CASE e \notin ToSet(a)
      <4>1. PICK f \in ToSet(a) : log[f].kind = "user_guidance" /\ f > e
        BY <1>3, <1>4, <2>1, <3>1 DEF Latest
      <4>. QED  BY <1>2, <4>1
    <3>2. CASE e \in ToSet(a)
      <4>1. PICK p \in 1 .. k - 1 : p \in 1 .. Len(a) /\ e = a[p]
        BY <1>3, <1>4, <3>2
      <4>2. p < k
        BY <1>2, <4>1
      <4>. QED  BY <2>1, <4>1, <4>2
    <3>. QED  BY <3>1, <3>2
  <2>3. PICK q \in 1 .. Len(a) :
            log[a[q]].kind = "user_guidance" /\ (a[q] > e \/ (a[q] = e /\ q < k))
    BY <2>2
  <2>g. PICK g \in k .. Len(a) : q <= g /\ log[a[g]].kind = "user_guidance"
    BY <2>3 DEF LatestFrom
  <2>4. log[a[g]].kind = "user_guidance" /\ q <= g /\ g \in 1 .. Len(a)
    BY <1>2, <2>g
  <2>5. PICK x, y : x = a[q] /\ y = a[g]
    OBVIOUS
  <2>6. x \in Nat /\ y \in Nat /\ y \in 1 .. Len(log) /\ (q < g => x < y) /\ (q = g => x = y)
    <3>1. Fact(log, a[q]) /\ Fact(log, a[g])
      BY <2>3, <2>4 DEF Fact
    <3>2. a[q] \in 1 .. Len(log) /\ a[g] \in 1 .. Len(log)
      BY <1>2, <2>4
    <3>3. q < g => a[q] < a[g]
      BY <1>2, <2>4, <3>1
    <3>. QED  BY <2>5, <3>2, <3>3
  <2>7. y > e
    <3>1. q < g \/ q = g
      BY <1>2, <2>4
    <3>2. x > e \/ (x = e /\ q < g)
      BY <1>2, <2>3, <2>4, <2>5
    <3>. QED  BY <2>1, <2>6, <3>1, <3>2
  <2>8. y \in ToSet(b) /\ more[y].kind = "user_guidance"
    BY <1>1, <2>4, <2>5, <2>6
  <2>. QED  BY <2>7, <2>8
<1>5. ASSUME NEW e \in 1 .. Len(more), e \notin ToSet(b)
      PROVE  e \in now \/ more[e].kind = "user_message" \/ Updates(more, e)
  <2>1. e \in now \/ log[e].kind = "user_message" \/ Updates(log, e)
    <3>1. CASE e \notin ToSet(a)
      BY <1>3, <1>5, <3>1 DEF Accounted
    <3>2. CASE e \in ToSet(a)
      BY <1>3, <1>5, <3>2 DEF WasRead
    <3>. QED  BY <3>1, <3>2
  <2>2. e \in 1 .. Len(log) /\ more[e] = log[e]
    BY <1>3, <1>5
  <2>3. Updates(log, e) => Updates(more, e)
    BY <1>1, <2>2, UpdatesStay
  <2>. QED  BY <2>1, <2>2, <2>3
<1>. QED
  BY <1>4, <1>5 DEF Latest, Accounted

LEMMA ChoiceStays ==
    ASSUME events' = events, NEW a
    PROVE  Choice(a)' = Choice(a)
<1>1. GuidanceAt(a)' = GuidanceAt(a)
  BY DEF GuidanceAt, SelectLastInSeq, Kind
<1>2. Guidance(a)' = Guidance(a)
  BY <1>1 DEF Guidance
<1>3. PICK g : g = Guidance(a)
  OBVIOUS
<1>4. Told(g)' = Told(g)
  BY DEF Told, Ids, Kind, CanonicalUpdate
<1>5. Visible(a, g)' = Visible(a, g)
  BY <1>4 DEF Visible, Told
<1>6. Visible(a, Guidance(a))' = Visible(a, Guidance(a))
  BY <1>2, <1>3, <1>5
<1>7. Compactions' = Compactions
  BY DEF Compactions, Ids, Kind
<1>. QED
  BY <1>6, <1>7 DEF Choice

LEMMA SuitsStays ==
    ASSUME events' = events, NEW p, NEW a, Suits(p, a)
    PROVE  Suits(p, a)'
<1>1. Choice(a)' = Choice(a)
  BY ChoiceStays
<1>2. Compactions' = Compactions
  BY DEF Compactions, Ids, Kind
<1>. QED
  BY <1>1, <1>2 DEF Suits

-----------------------------------------------------------------------------
(* The history: the inductive invariant *)

\* The log and what is in use of it.
HistoryKept ==
    /\ IsLog(events) /\ InUse(events, Active)
    /\ Latest(events, Active) /\ Accounted(events, Active, summarised)
    /\ summarised \subseteq 1 .. Len(events)

\* There is room for the summary in use, if any.
HasRoom(log, a, space) == ~Fact(log, a[1]) => log[a[1]].size + 1 <= space

OverrideSuits == override = NoHistory \/ Suits(override, Active)

PromptSuits == prompted = NoHistory \/ Suits(prompted, Active)

\* A refused prompt lost room while it was prepared.
RefusalKept ==
    /\ refused \in {<<>>} \cup (Rooms \X Rooms)
    /\ refused # <<>> => refused[2] < refused[1]

\* The prompt that is being built and the last one shown.
PromptKept ==
    /\ stage \in {"loop", "build"} /\ room \in Rooms \cup {0}
    /\ stage = "loop" => override = NoHistory
    /\ stage = "build" => Open(events) = {} /\ room \in Rooms
    /\ stage = "build" /\ override = NoHistory => HasRoom(events, Active, room)
    /\ OverrideSuits /\ PromptSuits /\ RefusalKept

HistoryInv == HistoryKept /\ PromptKept

LEMMA OverrideStays ==
    ASSUME OverrideSuits, events' = events, override' = override
    PROVE  OverrideSuits'
<1>1. PICK a, p : a = Active /\ p = override
  OBVIOUS
<1>2. Active' = a /\ override' = p
  BY <1>1 DEF Active
<1>3. p = NoHistory \/ Suits(p, a)'
  BY <1>1, SuitsStays DEF OverrideSuits
<1>. QED
  BY <1>2, <1>3 DEF OverrideSuits

LEMMA PromptStays ==
    ASSUME NEW p, p = NoHistory \/ Suits(p, Active), events' = events, prompted' = p
    PROVE  PromptSuits'
<1>1. PICK a : a = Active
  OBVIOUS
<1>2. Active' = a
  BY <1>1 DEF Active
<1>3. p = NoHistory \/ Suits(p, a)'
  BY <1>1, SuitsStays
<1>. QED
  BY <1>2, <1>3 DEF PromptSuits

-----------------------------------------------------------------------------
(* The history: every step keeps the invariant *)

LEMMA EmptyIsNone == ToSet(<<>>) = {}
<1>1. DOMAIN <<>> = {}
  OBVIOUS
<1>. QED
  BY <1>1 DEF ToSet

LEMMA HistoryStart == HistoryInit => HistoryInv
<1>. SUFFICES ASSUME HistoryInit PROVE HistoryInv
  OBVIOUS
<1>1. PICK size \in Sizes : size = CHOOSE s \in Sizes : TRUE
  BY CompactionAssumption
<1>2. PICK ev : ev = Event("user_message", size)
  OBVIOUS
<1>3. /\ ev \in Events /\ ev.kind = "user_message" /\ ev.calls = 0 /\ ev.canonical = FALSE
      /\ ev.of = 0 /\ ev.covered = <<>>
  <2>1. "user_message" \in Kinds /\ 0 \in 0 .. MaxCalls /\ <<>> \in Seq(Nat) /\ 0 \in Nat
    BY CompactionAssumption DEF Kinds
  <2>. QED  BY <1>2, <2>1 DEF Event, Events
<1>4. PICK log : log = <<ev>>
  OBVIOUS
<1>5. log \in Seq(Events) /\ Len(log) = 1 /\ log[1] = ev /\ 1 .. 1 = {1}
  BY <1>3, <1>4
<1>6. events = log /\ summarised = {} /\ stage = "loop" /\ room = 0
      /\ override = NoHistory /\ prompted = NoHistory /\ refused = <<>>
  BY <1>1, <1>2, <1>4 DEF HistoryInit
<1>7. ToSet(<<>>) = {}
  BY EmptyIsNone
<1>8. IsLog(log)
  <2>1. Formed(log, 1)
    BY <1>3, <1>5, <1>7 DEF Formed
  <2>2. Followed(log, 1)
    <3>1. 1 .. 0 = {}
      OBVIOUS
    <3>. QED  BY <1>3, <1>5, <3>1 DEF Followed
  <2>. QED  BY <1>5, <2>1, <2>2 DEF IsLog
<1>9. PICK a : a = <<1>>
  OBVIOUS
<1>10. Active = a
  BY <1>3, <1>4, <1>6, <1>9, ActiveOfOne DEF Active
<1>11. a \in Seq(1 .. 1) /\ Len(a) = 1 /\ a[1] = 1 /\ DOMAIN a = {1} /\ a # <<>>
  BY <1>5, <1>9
<1>12. ToSet(a) = {1}
  BY <1>11 DEF ToSet
<1>13. InUse(log, a)
  <2>1. Ordered(log, a)
    <3>1. 2 .. Len(a) = {}
      BY <1>11
    <3>. QED  BY <1>5, <1>11, <3>1 DEF Ordered, Distinct
  <2>2. Whole(log, a) /\ Younger(log, a)
    BY <1>3, <1>5, <1>12 DEF Whole, Younger
  <2>3. \A e \in 1 .. Len(log) : Replacing(log, a, e)
    BY <1>3, <1>5, <1>7, <1>12 DEF Replacing
  <2>4. Fact(log, a[Len(a)])
    BY <1>3, <1>5, <1>11 DEF Fact
  <2>. QED  BY <1>11, <2>1, <2>2, <2>3, <2>4 DEF InUse
<1>14. Latest(log, a) /\ Accounted(log, a, summarised)
  BY <1>5, <1>12 DEF Latest, Accounted
<1>15. HistoryKept
  BY <1>6, <1>8, <1>10, <1>13, <1>14 DEF HistoryKept
<1>16. PromptKept
  BY <1>6 DEF PromptKept, OverrideSuits, PromptSuits, RefusalKept
<1>. QED
  BY <1>15, <1>16 DEF HistoryInv

LEMMA InUseIsHistory ==
    ASSUME NEW log, IsLog(log), NEW a, InUse(log, a)
    PROVE  a # NoHistory /\ \A e \in ToSet(a) : e \in 1 .. Len(log)
<1>1. Ordered(log, a) /\ a # <<>>
  BY DEF InUse
<1>2. \A p \in 1 .. Len(a) : a[p] \in 1 .. Len(log)
  BY <1>1, OrderedFacts
<1>3. \A x \in ToSet(a) : \E p \in 1 .. Len(a) : a[p] = x
  BY <1>1, OrderedFacts, Zenon
<1>4. ASSUME a = NoHistory PROVE FALSE
  <2>1. Len(a) = 1 /\ a[1] = 0 /\ 1 \in 1 .. 1
    BY <1>4 DEF NoHistory
  <2>2. 0 \in 1 .. Len(log)
    BY <1>2, <2>1
  <2>3. 0 \notin 1 .. Len(log)
    OBVIOUS
  <2>. QED  BY <2>2, <2>3
<1>. QED
  BY <1>2, <1>3, <1>4

\* Nothing of the prompt changes in the loop but that the last one is over.
LEMMA LoopKeeps ==
    ASSUME PromptKept, stage = "loop", NoPrompt,
           UNCHANGED <<stage, room, override>>
    PROVE  PromptKept'
<1>1. /\ stage' = "loop" /\ room' \in Rooms \cup {0}
      /\ override' = NoHistory /\ prompted' = NoHistory /\ refused' = <<>>
  BY DEF PromptKept, NoPrompt
<1>2. stage' # "build"
  BY <1>1
<1>. QED
  BY <1>1, <1>2 DEF PromptKept, OverrideSuits, PromptSuits, RefusalKept

\* An event that is not a summary comes after what is in use.
LEMMA AppendKeeps ==
    ASSUME HistoryKept, NEW ev \in Events, ev.kind # "compaction",
           ev.of # 0 => ev.of \in Open(events), \A c \in Open(events) : ev.of = c,
           events' = Append(events, ev), summarised' = summarised,
           Formed(events', Len(events) + 1)
    PROVE  HistoryKept'
<1>1. PICK log, a, more, read : /\ log = events /\ a = Active /\ more = events'
                                /\ read = summarised
  OBVIOUS
<1>2. /\ IsLog(log) /\ InUse(log, a) /\ Latest(log, a) /\ Accounted(log, a, read)
      /\ read \subseteq 1 .. Len(log) /\ log \in Seq(Events)
  BY <1>1 DEF HistoryKept, IsLog
<1>3. more = Append(log, ev) /\ Formed(more, Len(log) + 1) /\ \A c \in Open(log) : ev.of = c
  BY <1>1
<1>4. IsLog(more)
  BY <1>2, <1>3, LogGrows
<1>5. Len(more) = Len(log) + 1 /\ more[Len(log) + 1] = ev /\ Len(log) \in Nat
  BY <1>2, <1>3, OneMore
<1>6. PICK b : b = Append(a, Len(log) + 1)
  OBVIOUS
<1>7. InUse(more, b) /\ ToSet(b) = ToSet(a) \cup {Len(log) + 1}
  BY <1>1, <1>2, <1>3, <1>4, <1>6, AddFact
<1>8. Ordered(log, a)
  BY <1>2 DEF InUse
<1>9. a # NoHistory /\ \A e \in ToSet(a) : e \in 1 .. Len(log)
  BY <1>2, <1>8, InUseIsHistory
<1>10. ActiveOf(more) = b
  <2>1. ActiveOf(log) = a
    BY <1>1 DEF Active
  <2>2. ActiveOf(more) = Replaced(more, a, Len(log) + 1)
    BY <1>2, <1>3, <1>9, <2>1, ActiveOfMore
  <2>. QED  BY <1>5, <1>6, <2>2 DEF Replaced
<1>11. Latest(more, b) /\ Accounted(more, b, read)
  BY <1>2, <1>3, <1>7, <1>9, FactKeeps
<1>12. read \subseteq 1 .. Len(more)
  BY <1>2, <1>5
<1>13. Active' = b /\ events' = more /\ summarised' = read
  BY <1>1, <1>10 DEF Active
<1>. QED
  BY <1>4, <1>7, <1>11, <1>12, <1>13 DEF HistoryKept

LEMMA PlainKeeps ==
    ASSUME HistoryInv, NEW kind \in {"user_guidance", "model_instruction"}, AppendPlain(kind)
    PROVE  HistoryInv'
<1>1. PICK size \in Sizes : events' = Append(events, Event(kind, size))
  BY DEF AppendPlain
<1>2. PICK ev : ev = Event(kind, size)
  OBVIOUS
<1>3. /\ ev \in Events /\ ev.kind = kind /\ ev.calls = 0 /\ ev.canonical = FALSE
      /\ ev.of = 0 /\ ev.covered = <<>>
  <2>1. kind \in Kinds /\ 0 \in 0 .. MaxCalls /\ <<>> \in Seq(Nat) /\ 0 \in Nat
    BY CompactionAssumption DEF Kinds
  <2>. QED  BY <1>2, <2>1 DEF Event, Events
<1>4. Open(events) = {}
  BY UnansweredAreOpen DEF AppendPlain, HistoryInv, HistoryKept
<1>5. events \in Seq(Events) /\ events' = Append(events, ev)
  BY <1>1, <1>2 DEF HistoryInv, HistoryKept, IsLog
<1>6. Formed(events', Len(events) + 1)
  <2>1. PICK more, n : more = events' /\ n = Len(events) + 1
    OBVIOUS
  <2>2. more[n] = ev
    BY <1>3, <1>5, <2>1, OneMore
  <2>3. ToSet(<<>>) = {}
    BY EmptyIsNone
  <2>4. Formed(more, n)
    BY <1>3, <2>2, <2>3 DEF Formed
  <2>. QED  BY <2>1, <2>4
<1>7. HistoryKept'
  BY <1>3, <1>4, <1>5, <1>6, AppendKeeps DEF AppendPlain, HistoryInv
<1>8. PromptKept'
  BY LoopKeeps DEF AppendPlain, HistoryInv
<1>. QED
  BY <1>7, <1>8 DEF HistoryInv

\* The model asks for a call or a batch.
LEMMA CallKeeps == ASSUME HistoryInv, AppendCall PROVE HistoryInv'
<1>1. PICK size \in Sizes, n \in 1 .. MaxCalls, canonical \in BOOLEAN :
          /\ canonical => n = 1
          /\ events' = Append(events, [Event("assistant_tool_call", size) EXCEPT
                                          !.calls = n, !.canonical = canonical])
  BY DEF AppendCall
<1>2. PICK ev : ev = [Event("assistant_tool_call", size) EXCEPT
                         !.calls = n, !.canonical = canonical]
  OBVIOUS
<1>3. /\ ev \in Events /\ ev.kind = "assistant_tool_call" /\ ev.calls = n
      /\ ev.canonical = canonical /\ ev.of = 0 /\ ev.covered = <<>>
  <2>1. "assistant_tool_call" \in Kinds /\ n \in 0 .. MaxCalls /\ <<>> \in Seq(Nat) /\ 0 \in Nat
    BY CompactionAssumption DEF Kinds
  <2>. QED  BY <1>2, <2>1 DEF Event, Events
<1>4. Open(events) = {}
  BY UnansweredAreOpen DEF AppendCall, HistoryInv, HistoryKept
<1>5. events \in Seq(Events) /\ events' = Append(events, ev)
  BY <1>1, <1>2 DEF HistoryInv, HistoryKept, IsLog
<1>6. Formed(events', Len(events) + 1)
  <2>1. PICK more, p : more = events' /\ p = Len(events) + 1
    OBVIOUS
  <2>2. more[p] = ev
    BY <1>3, <1>5, <2>1, OneMore
  <2>3. ToSet(<<>>) = {}
    BY EmptyIsNone
  <2>4. n # 0 /\ n \in Nat
    BY CompactionAssumption
  <2>5. Formed(more, p)
    BY <1>1, <1>3, <2>2, <2>3, <2>4 DEF Formed
  <2>. QED  BY <2>1, <2>5
<1>7. HistoryKept'
  BY <1>3, <1>4, <1>5, <1>6, AppendKeeps DEF AppendCall, HistoryInv
<1>8. PromptKept'
  BY LoopKeeps DEF AppendCall, HistoryInv
<1>. QED
  BY <1>7, <1>8 DEF HistoryInv

\* A call returns.
LEMMA ResultKeeps == ASSUME HistoryInv, AppendResult PROVE HistoryInv'
<1>1. PICK c \in Unanswered, size \in Sizes, success \in BOOLEAN :
          events' = Append(events, [Event("tool_result", size) EXCEPT
                                      !.of = c, !.canonical = success /\ events[c].canonical])
  BY DEF AppendResult
<1>2. PICK ev : ev = [Event("tool_result", size) EXCEPT
                         !.of = c, !.canonical = success /\ events[c].canonical]
  OBVIOUS
<1>3. IsLog(events) /\ c \in Open(events)
  BY UnansweredAreOpen DEF HistoryInv, HistoryKept
<1>4. /\ c \in 1 .. Len(events) /\ c \in Nat /\ c # 0 /\ Len(events) + 1 <= c + events[c].calls
      /\ \A d \in Open(events) : d = c
  <2>1. /\ c \in 1 .. Len(events) /\ Len(events) + 1 <= c + events[c].calls
        /\ \A d \in Open(events) : d = c
    BY <1>3, OpenFacts
  <2>. QED  BY <2>1
<1>5. PICK canonical : canonical = (success /\ events[c].canonical)
  OBVIOUS
<1>6. canonical \in BOOLEAN /\ (canonical => events[c].canonical)
  BY <1>5
<1>7. /\ ev \in Events /\ ev.kind = "tool_result" /\ ev.calls = 0
      /\ ev.canonical = canonical /\ ev.of = c /\ ev.covered = <<>>
  <2>1. ev = [Event("tool_result", size) EXCEPT !.of = c, !.canonical = canonical]
    BY <1>2, <1>5
  <2>2. "tool_result" \in Kinds /\ 0 \in 0 .. MaxCalls /\ <<>> \in Seq(Nat)
    BY CompactionAssumption DEF Kinds
  <2>. QED  BY <1>4, <1>6, <2>1, <2>2 DEF Event, Events
<1>8. events \in Seq(Events) /\ events' = Append(events, ev)
  BY <1>1, <1>2, <1>3 DEF IsLog
<1>9. Formed(events', Len(events) + 1)
  <2>1. PICK more, p, N : more = events' /\ p = Len(events) + 1 /\ N = Len(events)
    OBVIOUS
  <2>2. more[p] = ev /\ more[c] = events[c] /\ N \in Nat
    BY <1>4, <1>7, <1>8, <2>1, OneMore
  <2>3. ToSet(<<>>) = {}
    BY EmptyIsNone
  <2>4. c < p /\ p <= c + more[c].calls
    BY <1>4, <2>1, <2>2
  <2>5. Formed(more, p)
    BY <1>4, <1>6, <1>7, <2>2, <2>3, <2>4 DEF Formed
  <2>. QED  BY <2>1, <2>5
<1>10. HistoryKept'
  <2>1. \A d \in Open(events) : ev.of = d
    BY <1>4, <1>7
  <2>. QED  BY <1>3, <1>7, <1>8, <1>9, <2>1, AppendKeeps DEF AppendResult, HistoryInv
<1>11. PromptKept'
  BY LoopKeeps DEF AppendResult, HistoryInv
<1>. QED
  BY <1>10, <1>11 DEF HistoryInv

LEMMA HistoryStays ==
    ASSUME HistoryKept, events' = events, summarised' = summarised
    PROVE  HistoryKept'
BY DEF HistoryKept, Active

LEMMA LeavesRoom ==
    ASSUME NEW x \in Nat, NEW y \in Nat, NEW slack \in Nat, NEW space \in Nat,
           y + slack < space, x <= y
    PROVE  x + 1 <= space
OBVIOUS

\* A history that fits leaves room for the summary in it.
LEMMA FittingHasRoom ==
    ASSUME HistoryKept, NEW a, a = Active, NEW space \in Nat,
           Tokens(Visible(a, Guidance(a))) + Slack < space
    PROVE  HasRoom(events, a, space)
<1>1. IsLog(events) /\ InUse(events, a)
  BY DEF HistoryKept
<1>2. SUFFICES ASSUME ~Fact(events, a[1]) PROVE events[a[1]].size + 1 <= space
  BY DEF HasRoom
<1>3. PICK v, g, c : v = Visible(a, Guidance(a)) /\ g = Guidance(a) /\ c = a[1]
  OBVIOUS
<1>4. v \in Seq(1 .. Len(events)) /\ ToSet(v) = ToSet(a) \cap Told(g)
  BY <1>1, <1>3, SelectionFacts
<1>5. c \in ToSet(a) /\ c \in 1 .. Len(events)
  <2>1. Ordered(events, a) /\ a # <<>>
    BY <1>1 DEF InUse
  <2>2. a \in Seq(Nat)
    BY <1>1, <2>1, OrderedFacts
  <2>3. 1 \in 1 .. Len(a)
    BY <2>1, <2>2
  <2>. QED  BY <1>1, <1>3, <2>1, <2>3, OrderedFacts
<1>6. Kind(c) = "compaction" /\ ~CanonicalUpdate(c)
  <2>1. Kind(c) = "compaction"
    BY <1>2, <1>3 DEF Fact, Kind
  <2>2. Formed(events, c)
    BY <1>1, <1>5 DEF IsLog
  <2>3. ~events[c].canonical
    BY <2>1, <2>2 DEF Formed, Kind
  <2>. QED  BY <2>1, <2>3 DEF CanonicalUpdate
<1>7. c # g
  <2>1. PICK p : p = GuidanceAt(a)
    OBVIOUS
  <2>2. a \in Seq(1 .. Len(events))
    BY <1>1 DEF InUse, Ordered
  <2>3. p # 0 => Kind(a[p]) = "user_guidance"
    BY <2>1, <2>2, GuidanceFacts
  <2>4. c # 0
    BY <1>5
  <2>. QED  BY <1>3, <1>6, <2>1, <2>3, <2>4 DEF Guidance
<1>8. c \in ToSet(v)
  BY <1>4, <1>5, <1>6, <1>7 DEF Told, Ids
<1>9. PICK i \in 1 .. Len(v) : v[i] = c
  BY <1>4, <1>8, PlaceOf
<1>10. PICK x, y : x = events[c].size /\ y = Tokens(v)
  OBVIOUS
<1>11. x \in Nat /\ y \in Nat /\ x <= y
  <2>1. y \in Nat /\ events[v[i]].size \in Nat /\ events[v[i]].size <= y
    <3>1. IsLog(events) /\ v \in Seq(1 .. Len(events))
      BY <1>1, <1>4
    <3>2. /\ Tokens(v) \in Nat
          /\ \A j \in 1 .. Len(v) : events[v[j]].size \in Nat /\ events[v[j]].size <= Tokens(v)
      BY <3>1, TokensFacts, Zenon
    <3>3. events[v[i]].size \in Nat /\ events[v[i]].size <= Tokens(v)
      BY <1>9, <3>2, Zenon
    <3>. QED  BY <1>10, <3>2, <3>3, Zenon
  <2>. QED  BY <1>9, <1>10, <2>1, Zenon
<1>12. x + 1 <= space
  <2>1. y + Slack < space /\ Slack \in Nat
    BY <1>3, <1>10, CompactionAssumption
  <2>. QED  BY <1>11, <2>1, LeavesRoom, Zenon
<1>. QED
  BY <1>3, <1>10, <1>12

LEMMA OpenStays ==
    ASSUME NEW log, IsLog(log), Open(log) = {}, NEW ev \in Events, ev.calls = 0,
           NEW more, more = Append(log, ev)
    PROVE  Open(more) = {}
<1>1. PICK N : N = Len(log)
  OBVIOUS
<1>2. /\ N \in Nat /\ Len(more) = N + 1 /\ more[N + 1] = ev /\ log \in Seq(Events)
      /\ \A e \in 1 .. N : more[e] = log[e]
  <2>1. log \in Seq(Events)
    BY DEF IsLog
  <2>. QED  BY <1>1, <2>1, OneMore
<1>3. ASSUME NEW c \in 1 .. N + 1, c + more[c].calls > N + 1 PROVE FALSE
  <2>1. CASE c = N + 1
    BY <1>2, <1>3, <2>1
  <2>2. CASE c # N + 1
    <3>1. c \in 1 .. N
      BY <1>2, <2>2
    <3>2. PICK n : n = log[c].calls
      OBVIOUS
    <3>3. n \in Nat /\ ~(c + n > N) /\ c + n > N + 1
      <4>1. n \in Nat
        BY <1>1, <1>2, <3>1, <3>2, LogFacts
      <4>2. ~(c + n > N)
        BY <1>1, <3>1, <3>2 DEF Open
      <4>. QED  BY <1>2, <1>3, <3>1, <3>2, <4>1, <4>2
    <3>. QED  BY <1>2, <3>1, <3>3
  <2>. QED  BY <2>1, <2>2
<1>. QED
  BY <1>2, <1>3 DEF Open

\* What a cut before k replaces, and that it can be committed.
LEMMA CutCovers ==
    ASSUME HistoryKept, NEW a, a = Active, Contiguous(a), Source(a) # <<>>,
           NEW k, k = Cut(a), NEW c, c = Covered(a)
    PROVE  /\ k \in 2 .. Len(a) /\ Len(a) \in Nat
           /\ c \in Seq(1 .. Len(events)) /\ Distinct(c) /\ Len(c) = k - 1 /\ c # <<>>
           /\ IsPrefix(c, a) /\ ToSet(c) = {a[p] : p \in 1 .. k - 1}
           /\ Kind(a[k]) # "tool_result" /\ Coverable(a, c)
<1>1. IsLog(events) /\ a # <<>> /\ Ordered(events, a)
  BY DEF HistoryKept, InUse
<1>2. PICK N, T : N = Len(a) /\ T = 1 .. Len(events)
  OBVIOUS
<1>3. /\ a \in Seq(T) /\ N \in Nat /\ DOMAIN a = 1 .. N
      /\ \A p \in 1 .. N : a[p] \in T
      /\ \A p, q \in 1 .. N : a[p] = a[q] => p = q
  <2>1. a \in Seq(T) /\ Distinct(a)
    BY <1>1, <1>2 DEF Ordered
  <2>2. N \in Nat /\ DOMAIN a = 1 .. N /\ \A p \in 1 .. N : a[p] \in T
    BY <1>2, <2>1
  <2>. QED  BY <2>1, <2>2 DEF Distinct
<1>4. k \in 1 .. N /\ (k \in UnitStarts(a) \/ Kind(a[k]) = "user_guidance")
  BY <1>1, <1>2, <1>3, CutFacts
<1>5. Kind(a[k]) # "tool_result"
  BY <1>4 DEF Contiguous
<1>6. c = SubSeq(a, 1, k - 1)
  BY DEF Covered
<1>7. k \in Nat /\ 1 <= k /\ k <= N /\ \A p \in 1 .. k - 1 : p \in 1 .. N
  BY <1>3, <1>4
<1>8. /\ c \in Seq(T) /\ Len(c) = k - 1 /\ DOMAIN c = 1 .. k - 1
      /\ \A p \in 1 .. k - 1 : c[p] = a[p]
  <2>1. \A p \in 1 .. k - 1 : a[p] \in T
    BY <1>3, <1>7
  <2>2. c = [p \in 1 .. k - 1 |-> a[p]]
    BY <1>2, <1>3, <1>6, <1>7
  <2>3. k - 1 \in Nat
    BY <1>7
  <2>. QED  BY <2>1, <2>2, <2>3
<1>9. Distinct(c)
  BY <1>3, <1>7, <1>8 DEF Distinct
<1>10. ToSet(c) = {a[p] : p \in 1 .. k - 1}
  BY <1>8 DEF ToSet
<1>11. c # <<>>
  <2>1. SUFFICES ASSUME c = <<>> PROVE FALSE
    OBVIOUS
  <2>2. PICK s, g : s = Source(a) /\ g = Guidance(a)
    OBVIOUS
  <2>3. s = Visible(c, g)
    BY <2>2 DEF Source
  <2>4. s \in Seq(T) /\ ToSet(s) = ToSet(c) \cap Told(g)
    BY <1>1, <1>2, <1>8, <1>9, <2>3, VisibleFacts
  <2>5. ToSet(s) = {}
    BY <2>1, <2>4, EmptyIsNone
  <2>6. s # <<>>
    BY <2>2
  <2>7. 1 \in DOMAIN s
    BY <2>4, <2>6
  <2>. QED  BY <2>5, <2>7 DEF ToSet
<1>12. k # 1
  <2>1. SUFFICES ASSUME k = 1 PROVE FALSE
    OBVIOUS
  <2>2. Len(c) = 0
    BY <1>8, <2>1
  <2>. QED  BY <1>8, <1>11, <2>2
<1>13. k \in 2 .. N
  BY <1>4, <1>12
<1>14. IsPrefix(c, a)
  <2>1. Len(c) <= Len(a)
    BY <1>2, <1>7, <1>8
  <2>2. SubSeq(a, 1, Len(c)) = c
    BY <1>6, <1>8
  <2>3. SubSeq(c, 1, Len(c)) = c
    <3>1. c = [p \in 1 .. Len(c) |-> c[p]]
      BY <1>8
    <3>2. SubSeq(c, 1, Len(c)) = [p \in 1 .. Len(c) |-> c[p]]
      BY <1>8
    <3>. QED  BY <3>1, <3>2
  <2>. QED  BY <2>1, <2>2, <2>3 DEF IsPrefix
<1>15. Coverable(a, c)
  <2>1. Len(c) + 1 = k
    BY <1>7, <1>8
  <2>. QED  BY <1>5, <1>11, <1>14, <2>1 DEF Coverable
<1>. QED
  BY <1>2, <1>3, <1>5, <1>8, <1>9, <1>10, <1>11, <1>13, <1>14, <1>15

LEMMA SourceFacts ==
    ASSUME IsLog(events), NEW a, NEW c \in Seq(1 .. Len(events)), Distinct(c), c = Covered(a)
    PROVE  ToSet(Source(a)) = ToSet(c) \cap Told(Guidance(a))
<1>1. PICK v, h : v = Source(a) /\ h = Guidance(a)
  OBVIOUS
<1>2. v = Visible(c, h)
  BY <1>1 DEF Source
<1>3. ToSet(v) = ToSet(c) \cap Told(h)
  BY <1>2, VisibleFacts
<1>. QED
  BY <1>1, <1>3

LEMMA Apart ==
    ASSUME NEW L \in Nat, NEW k \in 2 .. L, NEW g \in k .. L, NEW p \in 1 .. k - 1
    PROVE  g \in 1 .. L /\ g # p
OBVIOUS

\* What a summary replaces was in what it was made from, or stands elsewhere.
LEMMA ReplacedWasRead ==
    ASSUME IsLog(events), NEW a, Ordered(events, a),
           NEW k \in 2 .. Len(a), NEW c \in Seq(1 .. Len(events)), Distinct(c),
           c = Covered(a), ToSet(c) = {a[p] : p \in 1 .. k - 1},
           NEW g, g = GuidanceAt(a), g # 0 => g \in k .. Len(a),
           NEW p \in 1 .. k - 1
    PROVE  \/ a[p] \in ToSet(Source(a))
           \/ events[a[p]].kind = "user_message" \/ Updates(events, a[p])
<1>1. PICK s, h, e : s = Source(a) /\ h = Guidance(a) /\ e = a[p]
  OBVIOUS
<1>3. ToSet(s) = ToSet(c) \cap Told(h)
  BY <1>1, SourceFacts
<1>4. e \in ToSet(c)
  BY <1>1
<1>5. /\ a \in Seq(Nat) /\ Len(a) \in Nat /\ p \in 1 .. Len(a) /\ e \in 1 .. Len(events) /\ e # 0
      /\ \A i, j \in 1 .. Len(a) : a[i] = a[j] => i = j
  <2>1. a \in Seq(Nat) /\ Len(a) \in Nat
    BY OrderedFacts
  <2>2. p \in 1 .. Len(a)
    BY <2>1
  <2>3. e \in 1 .. Len(events)
    BY <1>1, <2>2, OrderedFacts
  <2>4. DOMAIN a = 1 .. Len(a) /\ Distinct(a)
    BY <2>1 DEF Ordered
  <2>5. \A i, j \in 1 .. Len(a) : a[i] = a[j] => i = j
    BY <2>4 DEF Distinct
  <2>6. e \in 1 .. Len(events) /\ e # 0
    BY <2>3
  <2>. QED  BY <2>1, <2>2, <2>5, <2>6
<1>6. e # h
  <2>1. CASE g = 0
    BY <1>1, <1>5, <2>1 DEF Guidance
  <2>2. CASE g # 0
    <3>1. g \in k .. Len(a) /\ h = a[g]
      BY <1>1, <2>2 DEF Guidance
    <3>2. g \in 1 .. Len(a) /\ g # p
      BY <1>5, <3>1, Apart, Zenon
    <3>3. a[g] # a[p]
      BY <1>5, <3>2, Zenon
    <3>. QED  BY <1>1, <3>1, <3>3, Zenon
  <2>. QED  BY <2>1, <2>2
<1>7. CASE e \in Told(h)
  BY <1>1, <1>3, <1>4, <1>7
<1>8. CASE e \notin Told(h)
  <2>1. Kind(e) = "user_message" \/ CanonicalUpdate(e)
    BY <1>5, <1>6, <1>8 DEF Told, Ids
  <2>. QED  BY <1>1, <2>1 DEF Kind, CanonicalUpdate, Updates, Ids
<1>. QED
  BY <1>7, <1>8

\* What has to hold for a summary of what a has before position k, made from c.
Summarisable(log, a, k, c) ==
    /\ IsLog(log) /\ Open(log) = {} /\ InUse(log, a) /\ ActiveOf(log) = a
    /\ Len(a) \in Nat /\ k \in 2 .. Len(a) /\ log[a[k]].kind # "tool_result"
    /\ c \in Seq(1 .. Len(log)) /\ Len(c) = k - 1 /\ c # <<>> /\ IsPrefix(c, a)
    /\ ToSet(c) = {a[p] : p \in 1 .. k - 1}

\* The event, the log and what is in use after it.
Summarised(log, a, k, c, size, ev, more, n, b) ==
    /\ ev = [Event("compaction", size) EXCEPT !.covered = c]
    /\ more = Append(log, ev) /\ n = Len(log) + 1 /\ b = <<n>> \o From(a, k)

LEMMA SummaryGrows ==
    ASSUME NEW log, NEW a, NEW k, NEW c, Summarisable(log, a, k, c), NEW size \in Sizes,
           NEW ev, NEW more, NEW n, NEW b, Summarised(log, a, k, c, size, ev, more, n, b)
    PROVE  /\ ev \in Events /\ IsLog(more) /\ Open(more) = {}
           /\ Len(more) = n /\ more[n].size = size /\ b[1] = n
           /\ ActiveOf(more) = b /\ InUse(more, b)
           /\ ToSet(b) = {n} \cup {a[p] : p \in k .. Len(a)}
<1>1. /\ IsLog(log) /\ Open(log) = {} /\ InUse(log, a) /\ ActiveOf(log) = a
      /\ Len(a) \in Nat /\ k \in 2 .. Len(a) /\ log[a[k]].kind # "tool_result"
      /\ c \in Seq(1 .. Len(log)) /\ Len(c) = k - 1 /\ c # <<>> /\ IsPrefix(c, a)
      /\ ToSet(c) = {a[p] : p \in 1 .. k - 1}
      /\ log \in Seq(Events) /\ Ordered(log, a)
  BY DEF Summarisable, InUse, IsLog
<1>d. /\ ev = [Event("compaction", size) EXCEPT !.covered = c]
      /\ more = Append(log, ev) /\ n = Len(log) + 1 /\ b = <<n>> \o From(a, k)
  BY DEF Summarised
<1>2. /\ ev \in Events /\ ev.kind = "compaction" /\ ev.size = size /\ ev.calls = 0
      /\ ev.canonical = FALSE /\ ev.of = 0 /\ ev.covered = c
  <2>1. /\ "compaction" \in Kinds /\ 0 \in 0 .. MaxCalls /\ 0 \in Nat
        /\ FALSE \in BOOLEAN
    BY CompactionAssumption DEF Kinds
  <2>2. c \in Seq(Nat)
    <3>1. c \in Seq(1 .. Len(log))
      BY <1>1
    <3>2. \A i \in 1 .. Len(c) : c[i] \in Nat
      BY <3>1
    <3>. QED  BY <3>1, <3>2, AllOfType, Zenon
  <2>. QED  BY <1>d, <2>1, <2>2 DEF Event, Events
<1>3. Len(more) = n /\ more[n] = ev /\ Len(log) \in Nat /\ n \in Nat
  <2>1. log \in Seq(Events)
    BY <1>1
  <2>. QED  BY <1>d, <1>2, <2>1, OneMore
<1>4. IsLog(more)
  <2>1. ToSet(c) \subseteq 1 .. Len(log)
    BY <1>1, SetOfElements
  <2>2. n - 1 = Len(log)
    BY <1>d, <1>3
  <2>3. Formed(more, n)
    BY <1>1, <1>2, <1>3, <2>1, <2>2 DEF Formed
  <2>. QED  BY <1>d, <1>1, <1>2, <2>3, LogGrows
<1>5. ActiveOf(more) = b
  <2>1. a # NoHistory
    BY <1>1, InUseIsHistory
  <2>2. ActiveOf(more) = Replaced(more, a, n)
    BY <1>d, <1>1, <1>2, <2>1, ActiveOfMore
  <2>3. Len(c) + 1 = k
    BY <1>1
  <2>. QED  BY <1>d, <1>1, <1>2, <1>3, <2>2, <2>3 DEF Replaced, From
<1>6. Joined(b, Len(log) + 1, a, k)
  <2>1. a \in Seq(Nat)
    BY <1>1, OrderedFacts
  <2>2. Joined(b, n, a, k)
    BY <1>d, <1>1, <1>3, <2>1, JoinedFacts
  <2>. QED  BY <1>d, <2>2
<1>7. Covers(ev, a, k)
  BY <1>1, <1>2 DEF Covers
<1>8. Replacement(log, a, k, ev, more, b)
  BY <1>d, <1>1, <1>2, <1>4, <1>6, <1>7 DEF Replacement
<1>9. InUse(more, b) /\ ToSet(b) = {Len(log) + 1} \cup {a[p] : p \in k .. Len(a)}
  BY <1>8, AddSummary
<1>10. Open(more) = {}
  <2>1. IsLog(log) /\ Open(log) = {} /\ ev \in Events /\ ev.calls = 0 /\ more = Append(log, ev)
    BY <1>d, <1>1, <1>2
  <2>. QED  BY <2>1, OpenStays
<1>11. b[1] = n
  <2>1. b[1] = Len(log) + 1
    BY <1>6 DEF Joined
  <2>. QED  BY <1>d, <2>1
<1>12. ToSet(b) = {n} \cup {a[p] : p \in k .. Len(a)} /\ InUse(more, b)
  <2>1. n = Len(log) + 1
    BY <1>d
  <2>. QED  BY <1>9, <2>1, Zenon
<1>13. Len(more) = n /\ more[n].size = size
  BY <1>2, <1>3
<1>. QED
  BY <1>2, <1>4, <1>5, <1>10, <1>11, <1>12, <1>13

\* A summary is committed: the history in use, the log and the room stay sound.
LEMMA CommitKeeps ==
    ASSUME HistoryKept, Open(events) = {}, NEW a, a = Active, Contiguous(a), Source(a) # <<>>,
           NEW size \in Sizes, Commit(a, size), NEW space, size + 1 <= space
    PROVE  /\ HistoryKept' /\ stage' = "build" /\ Open(events') = {}
           /\ HasRoom(events, Active, space)'
<1>1. PICK log, read, k, c, g :
          /\ log = events /\ read = summarised /\ k = Cut(a) /\ c = Covered(a)
          /\ g = GuidanceAt(a)
  OBVIOUS
<1>2. /\ IsLog(log) /\ InUse(log, a) /\ Latest(log, a) /\ Accounted(log, a, read)
      /\ read \subseteq 1 .. Len(log) /\ Ordered(log, a) /\ ActiveOf(log) = a
      /\ Open(log) = {}
  BY <1>1 DEF HistoryKept, InUse, Active
<1>3. /\ k \in 2 .. Len(a) /\ Len(a) \in Nat
      /\ c \in Seq(1 .. Len(log)) /\ Distinct(c) /\ Len(c) = k - 1 /\ c # <<>>
      /\ IsPrefix(c, a) /\ ToSet(c) = {a[p] : p \in 1 .. k - 1}
      /\ log[a[k]].kind # "tool_result" /\ Coverable(a, c)
  <2>1. /\ k \in 2 .. Len(a) /\ Len(a) \in Nat
        /\ c \in Seq(1 .. Len(events)) /\ Distinct(c) /\ Len(c) = k - 1 /\ c # <<>>
        /\ IsPrefix(c, a) /\ ToSet(c) = {a[p] : p \in 1 .. k - 1}
        /\ Kind(a[k]) # "tool_result" /\ Coverable(a, c)
    <3>1. k = Cut(a) /\ c = Covered(a)
      BY <1>1
    <3>. QED  BY <3>1, CutCovers
  <2>. QED  BY <1>1, <2>1 DEF Kind
<1>4. PICK ev, n, now, b : /\ ev = [Event("compaction", size) EXCEPT !.covered = c]
                           /\ n = Len(log) + 1 /\ now = read \cup ToSet(Source(a))
                           /\ b = <<n>> \o From(a, k)
  OBVIOUS
<1>5. PICK more : more = Append(log, ev)
  OBVIOUS
<1>6. events' = more /\ summarised' = now /\ stage' = "build"
  BY <1>1, <1>3, <1>4, <1>5 DEF Commit
<1>7. \/ g = 0 /\ \A i \in 1 .. Len(a) : log[a[i]].kind # "user_guidance"
      \/ /\ g \in k .. Len(a) /\ log[a[g]].kind = "user_guidance"
         /\ \A i \in 1 .. Len(a) : log[a[i]].kind = "user_guidance" => i <= g
  <2>1. a \in Seq(1 .. Len(log)) /\ a # <<>>
    BY <1>2 DEF Ordered, InUse
  <2>2. g # 0 => k <= g
    BY <1>1, <2>1, CutFacts
  <2>3. \/ g = 0 /\ \A i \in 1 .. Len(a) : log[a[i]].kind # "user_guidance"
        \/ /\ g \in 1 .. Len(a) /\ g # 0 /\ log[a[g]].kind = "user_guidance"
           /\ \A i \in 1 .. Len(a) : log[a[i]].kind = "user_guidance" => i <= g
    BY <1>1, <2>1, GuidanceFacts DEF Kind
  <2>. QED  BY <1>3, <2>2, <2>3
<1>8. LatestFrom(log, a, k)
  BY <1>7 DEF LatestFrom
<1>9. WasRead(log, a, k, now)
  <2>. SUFFICES ASSUME NEW p \in 1 .. k - 1
                PROVE  \/ a[p] \in now
                       \/ log[a[p]].kind = "user_message" \/ Updates(log, a[p])
    BY DEF WasRead
  <2>1. g # 0 => g \in k .. Len(a)
    BY <1>7
  <2>2. \/ a[p] \in ToSet(Source(a))
        \/ events[a[p]].kind = "user_message" \/ Updates(events, a[p])
    BY <1>1, <1>2, <1>3, <2>1, ReplacedWasRead
  <2>. QED  BY <1>1, <1>4, <2>2
<1>10. Summarisable(log, a, k, c)
  BY <1>2, <1>3 DEF Summarisable
<1>11. /\ ev \in Events /\ IsLog(more) /\ Open(more) = {}
       /\ Len(more) = n /\ more[n].size = size /\ b[1] = n
       /\ ActiveOf(more) = b /\ InUse(more, b)
       /\ ToSet(b) = {n} \cup {a[p] : p \in k .. Len(a)}
  <2>1. Summarised(log, a, k, c, size, ev, more, n, b)
    BY <1>4, <1>5 DEF Summarised
  <2>. QED  BY <1>10, <2>1, SummaryGrows
<1>12. Latest(more, b) /\ Accounted(more, b, now)
  <2>1. k \in 1 .. Len(a) /\ read \subseteq now
    BY <1>3, <1>4
  <2>2. ToSet(b) = {Len(log) + 1} \cup {a[p] : p \in k .. Len(a)}
    BY <1>4, <1>11
  <2>3. /\ IsLog(log) /\ InUse(log, a) /\ Latest(log, a) /\ Accounted(log, a, read)
        /\ ev \in Events /\ more = Append(log, ev) /\ k \in 1 .. Len(a)
        /\ LatestFrom(log, a, k) /\ WasRead(log, a, k, now)
    BY <1>2, <1>5, <1>8, <1>9, <1>11, <2>1
  <2>. QED  BY <2>1, <2>2, <2>3, SummaryKeeps, Zenon
<1>13. now \subseteq 1 .. Len(more)
  <2>1. ToSet(Source(a)) \subseteq ToSet(c)
    <3>1. IsLog(events) /\ c \in Seq(1 .. Len(events)) /\ c = Covered(a) /\ Distinct(c)
      BY <1>1, <1>2, <1>3
    <3>. QED  BY <3>1, SourceFacts
  <2>2. ToSet(c) \subseteq 1 .. Len(log)
    BY <1>3, SetOfElements
  <2>3. Len(log) \in Nat
    BY <1>2 DEF IsLog
  <2>4. \A e \in 1 .. Len(log) : e \in 1 .. Len(more)
    BY <1>4, <1>11, <2>3
  <2>. QED  BY <1>2, <1>4, <2>1, <2>2, <2>4
<1>14. Active' = b
  BY <1>6, <1>11 DEF Active
<1>15. HistoryKept'
  BY <1>6, <1>11, <1>12, <1>13, <1>14 DEF HistoryKept
<1>16. HasRoom(more, b, space)
  BY <1>11 DEF HasRoom
<1>. QED
  BY <1>6, <1>11, <1>14, <1>15, <1>16

\* prepare: a planned summary succeeds, is refused or fails.
LEMMA PrepareKeeps == ASSUME HistoryInv, PrepareCompaction PROVE HistoryInv'
<1>1. PICK a : a = Active
  OBVIOUS
<1>2. /\ HistoryKept /\ PromptKept /\ Open(events) = {} /\ room' \in Rooms /\ room' \in Nat
      /\ prompted' = NoHistory /\ refused' = <<>>
  BY UnansweredAreOpen, CompactionAssumption
     DEF PrepareCompaction, NoPrompt, HistoryInv, HistoryKept
<1>3. ASSUME Tokens(Visible(a, Guidance(a))) + Slack < room',
             override' = NoHistory, stage' = "build", UNCHANGED <<events, summarised>>
      PROVE  HistoryInv'
  <2>1. HistoryKept'
    BY <1>2, <1>3, HistoryStays
  <2>2. HasRoom(events, a, room')
    BY <1>1, <1>2, <1>3, FittingHasRoom
  <2>3. HasRoom(events, Active, room)'
    <3>1. Active' = a /\ events' = events
      BY <1>1, <1>3 DEF Active
    <3>. QED  BY <2>2, <3>1 DEF HasRoom
  <2>4. PromptKept'
    BY <1>2, <1>3, <2>3 DEF PromptKept, OverrideSuits, PromptSuits, RefusalKept
  <2>. QED  BY <2>1, <2>4 DEF HistoryInv
<1>4. ASSUME Plannable(a), NEW size \in Sizes, SummaryAccepted(a, size), Commit(a, size),
             override' = NoHistory
      PROVE  HistoryInv'
  <2>1. size + 1 <= room' /\ Contiguous(a) /\ Source(a) # <<>>
    BY <1>4 DEF SummaryAccepted, Plannable
  <2>2. HistoryKept' /\ stage' = "build" /\ Open(events') = {} /\ HasRoom(events, Active, room)'
    <3>1. PICK space : space = room'
      OBVIOUS
    <3>2. /\ HistoryKept' /\ stage' = "build" /\ Open(events') = {}
          /\ HasRoom(events, Active, space)'
      BY <1>1, <1>2, <1>4, <2>1, <3>1, CommitKeeps
    <3>. QED  BY <3>1, <3>2 DEF HasRoom
  <2>3. PromptKept'
    BY <1>2, <1>4, <2>2 DEF PromptKept, OverrideSuits, PromptSuits, RefusalKept
  <2>. QED  BY <2>2, <2>3 DEF HistoryInv
<1>5. ASSUME override' = Recent(a, IF KeepRecent < room' THEN KeepRecent ELSE room'),
             stage' = "build", UNCHANGED <<events, summarised>>
      PROVE  HistoryInv'
  <2>1. HistoryKept'
    BY <1>2, <1>5, HistoryStays
  <2>2. PICK p : p = override'
    OBVIOUS
  <2>3. Suits(p, a)
    BY <1>1, <1>2, <1>5, <2>2, RecentSuits DEF HistoryKept
  <2>4. Suits(p, a)'
    BY <1>5, <2>3, SuitsStays
  <2>5. OverrideSuits'
    <3>1. Active' = a
      BY <1>1, <1>5 DEF Active
    <3>. QED  BY <2>2, <2>4, <3>1 DEF OverrideSuits
  <2>6. override' # NoHistory
    BY <2>2, <2>3, SuitedIsNoHistory
  <2>7. PromptKept'
    BY <1>2, <1>5, <2>5, <2>6 DEF PromptKept, PromptSuits, RefusalKept
  <2>. QED  BY <2>1, <2>7 DEF HistoryInv
<1>. QED
  BY <1>1, <1>3, <1>4, <1>5 DEF PrepareCompaction

\* The prompt is built from the history in use or from the fallback, or refused.
LEMMA BuildKeeps == ASSUME HistoryInv, BuildPrompt PROVE HistoryInv'
<1>1. /\ IsLog(events) /\ InUse(events, Active) /\ Open(events) = {} /\ HistoryKept
      /\ room \in Rooms /\ room \in Nat /\ stage = "build" /\ OverrideSuits
      /\ override = NoHistory => HasRoom(events, Active, room)
  BY CompactionAssumption DEF BuildPrompt, HistoryInv, HistoryKept, PromptKept
<1>2. /\ stage' = "loop" /\ room' = 0 /\ override' = NoHistory
      /\ events' = events /\ summarised' = summarised
  BY DEF BuildPrompt
<1>3. PICK space \in Rooms :
          IF override = NoHistory /\ CompactedRaises(Active, space)
          THEN prompted' = NoHistory /\ refused' = <<room, space>>
          ELSE /\ prompted' \in {NoHistory, IF override = NoHistory THEN Projected(Active, space)
                                              ELSE Bounded(override, 1, space)}
               /\ refused' = <<>>
  BY DEF BuildPrompt
<1>4. PICK p : p = prompted'
  OBVIOUS
<1>5. p = NoHistory \/ Suits(p, Active)
  <2>1. CASE override = NoHistory
    <3>1. Suits(Projected(Active, space), Active)
      <4>1. PICK a : a = Active
        OBVIOUS
      <4>2. Suits(Projected(a, space), a)
        BY <1>1, <4>1, ProjectedSuits
      <4>. QED  BY <4>1, <4>2
    <3>. QED  BY <1>3, <1>4, <2>1, <3>1
  <2>2. CASE override # NoHistory
    <3>1. Suits(override, Active)
      BY <1>1, <2>2 DEF OverrideSuits
    <3>2. Suits(Bounded(override, 1, space), Active)
      BY <1>1, <3>1, BoundedSuits
    <3>. QED  BY <1>3, <1>4, <2>2, <3>2
  <2>. QED  BY <2>1, <2>2
<1>6. RefusalKept'
  <2>1. CASE override = NoHistory /\ CompactedRaises(Active, space)
    <3>1. PICK a : a = Active
      OBVIOUS
    <3>2. space \in Nat
      BY CompactionAssumption
    <3>3. ~(~Fact(events, a[1]) => events[a[1]].size + 1 <= space)
      BY <1>1, <2>1, <3>1, <3>2, NotRaised
    <3>4. events[a[1]].size + 1 <= room
      BY <1>1, <2>1, <3>1, <3>3 DEF HasRoom
    <3>5. PICK n : n = events[a[1]].size
      OBVIOUS
    <3>6. n \in Nat
      <4>1. Ordered(events, a) /\ Len(a) \in Nat /\ a # <<>>
        BY <1>1, <3>1 DEF InUse, Ordered
      <4>2. 1 \in 1 .. Len(a)
        <5>1. a \in Seq(1 .. Len(events))
          BY <4>1 DEF Ordered
        <5>. QED  BY <4>1, <5>1
      <4>3. a[1] \in 1 .. Len(events)
        BY <1>1, <4>1, <4>2, OrderedFacts
      <4>4. events \in Seq(Events)
        BY <1>1 DEF IsLog
      <4>5. n \in Sizes
        BY <3>5, <4>3, <4>4, LogFacts
      <4>. QED  BY <4>5, CompactionAssumption
    <3>7. space < room
      BY <1>1, <3>2, <3>3, <3>4, <3>5, <3>6
    <3>8. refused' = <<room, space>>
      BY <1>3, <2>1
    <3>. QED  BY <1>1, <3>7, <3>8 DEF RefusalKept
  <2>2. CASE ~(override = NoHistory /\ CompactedRaises(Active, space))
    <3>1. refused' = <<>>
      BY <1>3, <2>2
    <3>. QED  BY <3>1 DEF RefusalKept
  <2>. QED  BY <2>1, <2>2
<1>7. PromptSuits'
  BY <1>2, <1>4, <1>5, PromptStays
<1>8. HistoryKept'
  BY <1>1, <1>2, HistoryStays
<1>9. PromptKept'
  BY <1>2, <1>6, <1>7 DEF PromptKept, OverrideSuits
<1>. QED
  BY <1>8, <1>9 DEF HistoryInv

LEMMA StutterKeeps == ASSUME HistoryInv, UNCHANGED historyVars PROVE HistoryInv'
<1>1. /\ HistoryKept /\ PromptKept /\ events' = events /\ summarised' = summarised
      /\ stage' = stage /\ room' = room /\ override' = override /\ prompted' = prompted
      /\ refused' = refused
  BY DEF HistoryInv, historyVars
<1>2. HistoryKept'
  BY <1>1, HistoryStays
<1>3. OverrideSuits'
  BY <1>1, OverrideStays DEF PromptKept
<1>4. PromptSuits'
  <2>1. PICK p : p = prompted
    OBVIOUS
  <2>2. p = NoHistory \/ Suits(p, Active)
    BY <1>1, <2>1 DEF PromptKept, PromptSuits
  <2>. QED  BY <1>1, <2>1, <2>2, PromptStays
<1>5. Active' = Active
  BY <1>1 DEF Active
<1>6. PromptKept'
  BY <1>1, <1>3, <1>4, <1>5 DEF PromptKept, HasRoom, RefusalKept
<1>. QED
  BY <1>2, <1>6 DEF HistoryInv

\* HistoryInv is an invariant of the history: whatever is appended to the Run Log and
\* summarised from it, by prepare and by the build of each prompt.
THEOREM HistoryInvariance == HistorySpec => []HistoryInv
<1>1. HistoryInit => HistoryInv
  BY HistoryStart
<1>2. HistoryInv /\ [HistoryNext]_historyVars => HistoryInv'
  <2>. SUFFICES ASSUME HistoryInv, [HistoryNext]_historyVars PROVE HistoryInv'
    OBVIOUS
  <2>1. CASE AppendPlain("user_guidance")
    BY <2>1, PlainKeeps
  <2>2. CASE AppendPlain("model_instruction")
    BY <2>2, PlainKeeps
  <2>3. CASE AppendCall
    BY <2>3, CallKeeps
  <2>4. CASE AppendResult
    BY <2>4, ResultKeeps
  <2>5. CASE PrepareCompaction
    BY <2>5, PrepareKeeps
  <2>6. CASE BuildPrompt
    BY <2>6, BuildKeeps
  <2>7. CASE UNCHANGED historyVars
    BY <2>7, StutterKeeps
  <2>. QED  BY <2>1, <2>2, <2>3, <2>4, <2>5, <2>6, <2>7 DEF HistoryNext
<1>. QED
  BY <1>1, <1>2, PTL DEF HistorySpec

LEMMA KeptIsSound == HistoryInv => HistoryTypeOK
<1>. SUFFICES ASSUME HistoryInv PROVE HistoryTypeOK
  OBVIOUS
<1>1. /\ IsLog(events) /\ events \in Seq(Events) /\ Len(events) \in Nat
      /\ summarised \subseteq 1 .. Len(events) /\ stage \in {"loop", "build"}
      /\ room \in Rooms \cup {0} /\ OverrideSuits /\ PromptSuits /\ RefusalKept
  <2>1. IsLog(events) /\ events \in Seq(Events)
    BY DEF HistoryInv, HistoryKept, IsLog
  <2>. QED  BY <2>1, LogFacts DEF HistoryInv, HistoryKept, PromptKept
<1>2. ASSUME NEW e \in 1 .. Len(events)
      PROVE  /\ Kind(e) \in Kinds /\ events[e].size \in Sizes
             /\ events[e].calls \in 0 .. MaxCalls
             /\ Kind(e) = "assistant_tool_call" <=> events[e].calls # 0
             /\ events[e].of \in 0 .. (e - 1)
             /\ events[e].canonical \in BOOLEAN
             /\ Kind(e) = "compaction" <=> events[e].covered # <<>>
             /\ ToSet(events[e].covered) \subseteq 1 .. (e - 1)
  <2>1. Formed(events, e)
    BY <1>1 DEF IsLog
  <2>2. /\ events[e].kind \in Kinds /\ events[e].size \in Sizes
        /\ events[e].calls \in Nat /\ events[e].calls <= MaxCalls
        /\ events[e].canonical \in BOOLEAN /\ events[e].of \in Nat
    BY <1>1, LogFacts
  <2>3. PICK n, c : n = events[e].calls /\ c = events[e].of
    OBVIOUS
  <2>4. n \in 0 .. MaxCalls
    BY <2>2, <2>3, CompactionAssumption
  <2>5. c \in 0 .. (e - 1)
    <3>1. c # 0 => c < e
      BY <2>1, <2>3 DEF Formed
    <3>. QED  BY <1>1, <2>2, <2>3, <3>1
  <2>6. /\ events[e].kind = "assistant_tool_call" <=> events[e].calls # 0
        /\ events[e].kind = "compaction" <=> events[e].covered # <<>>
        /\ ToSet(events[e].covered) \subseteq 1 .. (e - 1)
    BY <2>1 DEF Formed
  <2>. QED  BY <2>2, <2>3, <2>4, <2>5, <2>6 DEF Kind
<1>3. ASSUME NEW p, p = NoHistory \/ Suits(p, Active)
      PROVE  ToSet(p) \subseteq 1 .. Len(events) \cup {0}
  <2>1. CASE p = NoHistory
    <3>1. NoHistory \in Seq({0})
      BY DEF NoHistory
    <3>2. ToSet(NoHistory) \subseteq {0}
      BY <3>1, SetOfElements
    <3>. QED  BY <2>1, <3>2
  <2>2. CASE Suits(p, Active)
    <3>1. p \in Seq(1 .. Len(events))
      BY <2>2 DEF Suits
    <3>2. ToSet(p) \subseteq 1 .. Len(events)
      BY <3>1, SetOfElements
    <3>. QED  BY <3>2
  <2>. QED  BY <1>3, <2>1, <2>2
<1>4. ToSet(override) \subseteq 1 .. Len(events) \cup {0}
  <2>1. PICK p : p = override
    OBVIOUS
  <2>. QED  BY <1>1, <1>3, <2>1 DEF OverrideSuits
<1>5. ToSet(prompted) \subseteq 1 .. Len(events) \cup {0}
  <2>1. PICK p : p = prompted
    OBVIOUS
  <2>. QED  BY <1>1, <1>3, <2>1 DEF PromptSuits
<1>. QED
  BY <1>1, <1>2, <1>4, <1>5 DEF HistoryTypeOK, RefusalKept, Ids

\* _history_units does not raise on the history in use.
LEMMA KeptIsReadable == HistoryInv => ActiveIsReadable
<1>. SUFFICES ASSUME HistoryInv PROVE ActiveIsReadable
  OBVIOUS
<1>1. PICK a : a = Active
  OBVIOUS
<1>2. IsLog(events) /\ InUse(events, a) /\ Ordered(events, a) /\ Whole(events, a)
  BY <1>1 DEF HistoryInv, HistoryKept, InUse
<1>3. Contiguous(a) /\ (Incomplete(a) => Open(events) # {})
  BY <1>2, UnitsAreWhole
<1>4. a # NoHistory
  BY <1>2, InUseIsHistory
<1>. QED
  BY <1>1, <1>2, <1>3, <1>4, UnansweredAreOpen DEF ActiveIsReadable

\* Every event is in use or covered by one summary.
LEMMA KeptForgetsNothing == HistoryInv => NothingForgotten
<1>. SUFFICES ASSUME HistoryInv PROVE NothingForgotten
  OBVIOUS
<1>1. PICK a, active, facts : /\ a = Active /\ active = ToSet(Active)
                              /\ facts = Ids \ Compactions
  OBVIOUS
<1>2. /\ IsLog(events) /\ Ordered(events, a) /\ Younger(events, a)
      /\ \A e \in 1 .. Len(events) : Replacing(events, a, e) /\ Formed(events, e)
  BY <1>1 DEF HistoryInv, HistoryKept, InUse, IsLog
<1>3. \A e \in 1 .. Len(events) : e \in Compactions <=> ~Fact(events, e)
  BY DEF Compactions, Fact, Kind, Ids
<1>4. ASSUME NEW e \in 1 .. Len(events)
      PROVE  Cardinality({c \in Compactions : e \in ToSet(events[c].covered)})
                 = IF e \in active THEN 0 ELSE 1
  <2>1. Replacing(events, a, e)
    BY <1>2
  <2>2. PICK C : C = {c \in Compactions : e \in ToSet(events[c].covered)}
    OBVIOUS
  <2>3. CASE e \in active
    <3>1. C = {}
      BY <1>1, <2>1, <2>2, <2>3 DEF Replacing, Compactions, Ids
    <3>. QED  BY <2>2, <2>3, <3>1, FS_EmptySet
  <2>4. CASE e \notin active
    <3>1. PICK c \in 1 .. Len(events) :
              \A d \in 1 .. Len(events) : e \in ToSet(events[d].covered) <=> d = c
      BY <1>1, <2>1, <2>4 DEF Replacing
    <3>2. c \in Compactions
      <4>1. e \in ToSet(events[c].covered)
        BY <3>1
      <4>2. events[c].covered # <<>>
        BY <4>1, EmptyIsNone
      <4>3. events[c].kind = "compaction"
        BY <1>2, <4>2 DEF Formed
      <4>. QED  BY <4>3 DEF Compactions, Ids, Kind
    <3>3. C = {c}
      BY <2>2, <3>1, <3>2 DEF Compactions, Ids
    <3>4. Cardinality({c}) = 1
      BY FS_Singleton
    <3>. QED  BY <2>2, <2>4, <3>3, <3>4
  <2>. QED  BY <2>3, <2>4
<1>5. ASSUME NEW e \in facts \ active, NEW f \in facts \cap active PROVE e < f
  BY <1>1, <1>2, <1>3 DEF Younger, Ids
<1>6. ASSUME NEW i \in 1 .. Len(a), NEW j \in 1 .. Len(a), i < j, {a[i], a[j]} \subseteq facts
      PROVE  a[i] < a[j]
  <2>1. a[i] \in 1 .. Len(events) /\ a[j] \in 1 .. Len(events)
    BY <1>1, <1>6 DEF Ids
  <2>2. Fact(events, a[i]) /\ Fact(events, a[j])
    BY <1>1, <1>3, <1>6, <2>1
  <2>. QED  BY <1>2, <1>6, <2>2 DEF Ordered
<1>. QED
  BY <1>1, <1>4, <1>5, <1>6 DEF NothingForgotten, Ids

\* The history of a Run stays whole: active_events and _history_units never raise, every
\* event is in use or covered by exactly one summary, and what is covered is the oldest
\* (history.py).
THEOREM TheHistoryIsComplete == HistorySpec => []HistoryIsComplete
<1>1. HistoryInv => HistoryIsComplete
  BY KeptIsSound, KeptIsReadable, KeptForgetsNothing DEF HistoryIsComplete
<1>. QED
  BY <1>1, HistoryInvariance, PTL

\* No summary that is committed replaces the latest guidance, nor anything it was not made
\* from, other than the task's message and what the working state repeats (plan_compaction,
\* _without_projected_state).
THEOREM TheSummariesAreHonest == HistorySpec => []SummariesAreHonest
<1>1. HistoryInv => SummariesAreHonest
  <2>. SUFFICES ASSUME HistoryInv PROVE GuidanceStays /\ NothingLeavesUnsummarised
    BY DEF SummariesAreHonest
  <2>1. Latest(events, Active) /\ Accounted(events, Active, summarised)
    BY DEF HistoryInv, HistoryKept
  <2>2. GuidanceStays
    BY <2>1 DEF Latest, GuidanceStays, Ids, Kind
  <2>3. NothingLeavesUnsummarised
    BY <2>1 DEF Accounted, Updates, CanonicalUpdate, NothingLeavesUnsummarised, Ids, Kind
  <2>. QED  BY <2>2, <2>3
<1>. QED
  BY <1>1, HistoryInvariance, PTL

\* A build of a prompt is refused for its history only when its room is less than the one
\* it was prepared for, and what a prompt shows is a recent part of the history in use in
\* whole transactions (plan_compaction, render_compacted_projection,
\* render_recent_projection).
THEOREM ThePromptsAreServed == HistorySpec => []PromptsAreServed
<1>1. HistoryInv => PromptsAreServed
  <2>. SUFFICES ASSUME HistoryInv PROVE RefusedOnlyInLessRoom /\ ShownIsRecentAndWhole
    BY DEF PromptsAreServed
  <2>1. RefusedOnlyInLessRoom
    BY DEF HistoryInv, PromptKept, RefusalKept, RefusedOnlyInLessRoom
  <2>2. ShownIsRecentAndWhole
    <3>1. prompted # NoHistory => Suits(prompted, Active)
      BY DEF HistoryInv, PromptKept, PromptSuits
    <3>. QED  BY <3>1 DEF ShownIsRecentAndWhole, Suits, Choice
  <2>. QED  BY <2>1, <2>2
<1>. QED
  BY <1>1, HistoryInvariance, PTL
=============================================================================
