------------------------------ MODULE SharedLemmas -----------------------------
(***************************************************************************)
(* Facts several proofs need.  About queues of things of which some, the   *)
(* members of P, must not be anywhere twice: how putting and taking change *)
(* what is in a queue, and how many things fit.  About numbers: induction  *)
(* over a set, and functions defined by recursion.                         *)
(***************************************************************************)
EXTENDS Integers, Sequences, SequencesExt, FiniteSets, SequenceTheorems,
        FiniteSetTheorems, WellFoundedInduction, TLAPS

\* No member of P is in s twice.
Once(s, P) == \A i, j \in DOMAIN s : s[i] = s[j] /\ s[i] \in P => i = j

\* Where in s the members of P are.
Where(s, P) == {i \in DOMAIN s : s[i] \in P}

\* What is in a sequence.
LEMMA InSet ==
    ASSUME NEW S, NEW s \in Seq(S)
    PROVE  /\ ToSet(s) \subseteq S
           /\ \A x : x \in ToSet(s) <=> \E i \in 1 .. Len(s) : s[i] = x
BY DEF ToSet

\* One more at the end.
LEMMA AppendOnce ==
    ASSUME NEW S, NEW s \in Seq(S), NEW e \in S, NEW P,
           Once(s, P), e \in P => e \notin ToSet(s)
    PROVE  /\ Append(s, e) \in Seq(S)
           /\ Len(Append(s, e)) = Len(s) + 1
           /\ ToSet(Append(s, e)) = ToSet(s) \cup {e}
           /\ Once(Append(s, e), P)
<1> DEFINE t == Append(s, e)
<1>1. /\ t \in Seq(S) /\ Len(t) = Len(s) + 1 /\ t[Len(s) + 1] = e
      /\ \A i \in 1 .. Len(s) : t[i] = s[i]
  BY AppendProperties
<1> HIDE DEF t
<1>2. DOMAIN t = 1 .. Len(s) + 1 /\ DOMAIN s = 1 .. Len(s) /\ Len(s) \in Nat BY <1>1
<1>3. \A i \in DOMAIN t : i \in DOMAIN s \/ i = Len(s) + 1 BY <1>2
<1>4. ToSet(t) = ToSet(s) \cup {e}
  <2>1. ASSUME NEW x \in ToSet(t) PROVE x \in ToSet(s) \cup {e} BY <1>1, <1>2, <1>3 DEF ToSet
  <2>2. ASSUME NEW x \in ToSet(s) \cup {e} PROVE x \in ToSet(t) BY <1>1, <1>2 DEF ToSet
  <2> QED BY <2>1, <2>2
<1>5. Once(t, P)
  <2> SUFFICES ASSUME NEW i \in DOMAIN t, NEW j \in DOMAIN t, t[i] = t[j], t[i] \in P PROVE i = j
    BY DEF Once
  <2>1. i \in DOMAIN s => t[i] = s[i] /\ s[i] \in ToSet(s) BY <1>1, <1>2 DEF ToSet
  <2>2. j \in DOMAIN s => t[j] = s[j] /\ s[j] \in ToSet(s) BY <1>1, <1>2 DEF ToSet
  <2> QED BY <1>1, <1>3, <2>1, <2>2 DEF Once
<1> QED BY <1>1, <1>4, <1>5 DEF t

\* One fewer at the front.
LEMMA TailOnce ==
    ASSUME NEW S, NEW s \in Seq(S), s # << >>, NEW P, Once(s, P)
    PROVE  /\ Head(s) \in S /\ Tail(s) \in Seq(S)
           /\ Len(Tail(s)) = Len(s) - 1 /\ Len(s) >= 1
           /\ ToSet(s) = ToSet(Tail(s)) \cup {Head(s)}
           /\ Once(Tail(s), P)
           /\ Head(s) \in P => Head(s) \notin ToSet(Tail(s))
<1> DEFINE t == Tail(s)
           n == Len(s)
<1>1. /\ Head(s) \in S /\ t \in Seq(S) /\ Len(t) = n - 1 /\ Head(s) = s[1]
      /\ \A i \in 1 .. n - 1 : t[i] = s[i + 1]
  BY HeadTailProperties
<1>2. n \in Nat /\ n >= 1 /\ DOMAIN s = 1 .. n BY EmptySeq
<1> HIDE DEF t, n
<1>3. DOMAIN t = 1 .. n - 1 BY <1>1
<1>4. ToSet(s) = ToSet(t) \cup {s[1]}
  <2>1. ASSUME NEW i \in 1 .. n PROVE s[i] \in ToSet(t) \cup {s[1]}
    <3>1. CASE i = 1 BY <3>1
    <3>2. CASE i # 1
      <4>1. i - 1 \in 1 .. n - 1 /\ (i - 1) + 1 = i BY <1>2, <3>2
      <4>2. t[i - 1] = s[i] BY <1>1, <4>1
      <4> QED BY <1>3, <4>1, <4>2 DEF ToSet
    <3> QED BY <3>1, <3>2
  <2>2. ASSUME NEW i \in 1 .. n - 1 PROVE t[i] \in ToSet(s)
    <3>1. i + 1 \in 1 .. n BY <1>2
    <3> QED BY <1>1, <1>2, <3>1 DEF ToSet
  <2>3. s[1] \in ToSet(s) BY <1>2 DEF ToSet
  <2>4. ToSet(s) = {s[i] : i \in 1 .. n} /\ ToSet(t) = {t[i] : i \in 1 .. n - 1}
    BY <1>2, <1>3 DEF ToSet
  <2> QED BY <2>1, <2>2, <2>3, <2>4
<1>5. Once(t, P)
  <2> SUFFICES ASSUME NEW i \in 1 .. n - 1, NEW j \in 1 .. n - 1, t[i] = t[j], t[i] \in P PROVE i = j
    BY <1>3 DEF Once
  <2>1. i + 1 \in 1 .. n /\ j + 1 \in 1 .. n BY <1>2
  <2>2. t[i] = s[i + 1] /\ t[j] = s[j + 1] BY <1>1
  <2>3. i + 1 = j + 1 BY <1>2, <2>1, <2>2 DEF Once
  <2> QED BY <2>3
<1>6. ASSUME s[1] \in P, NEW i \in 1 .. n - 1, t[i] = s[1] PROVE FALSE
  <2>1. i + 1 \in 1 .. n /\ 1 \in 1 .. n /\ i + 1 # 1 BY <1>2
  <2>2. s[i + 1] = s[1] BY <1>1, <1>6
  <2> QED BY <1>2, <1>6, <2>1, <2>2 DEF Once
<1>7. s[1] \in P => s[1] \notin ToSet(t) BY <1>3, <1>6 DEF ToSet
<1> QED BY <1>1, <1>2, <1>4, <1>5, <1>7 DEF t, n

\* One queue after another.
LEMMA ConcatOnce ==
    ASSUME NEW S, NEW s \in Seq(S), NEW t \in Seq(S), NEW P,
           Once(s, P), Once(t, P), ToSet(s) \cap ToSet(t) \cap P = {}
    PROVE  /\ s \o t \in Seq(S)
           /\ ToSet(s \o t) = ToSet(s) \cup ToSet(t)
           /\ Once(s \o t, P)
<1> DEFINE u == s \o t
           m == Len(s)
           n == Len(t)
<1>1. /\ u \in Seq(S) /\ Len(u) = m + n
      /\ \A i \in 1 .. m + n : u[i] = IF i <= m THEN s[i] ELSE t[i - m]
  BY ConcatProperties
<1>2. m \in Nat /\ n \in Nat /\ DOMAIN s = 1 .. m /\ DOMAIN t = 1 .. n OBVIOUS
<1> HIDE DEF u, m, n
<1>3. DOMAIN u = 1 .. m + n BY <1>1
<1>4. ASSUME NEW i \in 1 .. m + n
      PROVE  \/ i \in 1 .. m /\ u[i] = s[i] /\ u[i] \in ToSet(s)
             \/ i - m \in 1 .. n /\ u[i] = t[i - m] /\ u[i] \in ToSet(t)
  <2>1. CASE i <= m
    <3>1. i \in 1 .. m /\ u[i] = s[i] BY <1>1, <1>2, <2>1
    <3> QED BY <1>2, <3>1 DEF ToSet
  <2>2. CASE i > m
    <3>1. i - m \in 1 .. n /\ u[i] = t[i - m] BY <1>1, <1>2, <2>2
    <3> QED BY <1>2, <3>1 DEF ToSet
  <2> QED BY <1>2, <2>1, <2>2
<1>5. ASSUME NEW i \in 1 .. m PROVE s[i] \in ToSet(u)
  <2>1. i \in 1 .. m + n /\ u[i] = s[i] BY <1>1, <1>2
  <2> QED BY <1>3, <2>1 DEF ToSet
<1>6. ASSUME NEW i \in 1 .. n PROVE t[i] \in ToSet(u)
  <2>1. i + m \in 1 .. m + n /\ ~(i + m <= m) /\ (i + m) - m = i BY <1>2
  <2>2. u[i + m] = t[i] BY <1>1, <2>1
  <2> QED BY <1>3, <2>1, <2>2 DEF ToSet
<1>7. ToSet(u) = ToSet(s) \cup ToSet(t)
  <2>1. /\ ToSet(u) = {u[i] : i \in 1 .. m + n}
        /\ ToSet(s) = {s[i] : i \in 1 .. m} /\ ToSet(t) = {t[i] : i \in 1 .. n}
    BY <1>2, <1>3 DEF ToSet
  <2> QED BY <1>4, <1>5, <1>6, <2>1
<1>8. Once(u, P)
  <2> SUFFICES ASSUME NEW i \in 1 .. m + n, NEW j \in 1 .. m + n, u[i] = u[j], u[i] \in P PROVE i = j
    BY <1>3 DEF Once
  <2>1. CASE i \in 1 .. m /\ u[i] = s[i] /\ u[i] \in ToSet(s)
    <3>1. j \in 1 .. m /\ u[j] = s[j] BY <1>4, <2>1
    <3> QED BY <1>2, <2>1, <3>1 DEF Once
  <2>2. CASE i - m \in 1 .. n /\ u[i] = t[i - m] /\ u[i] \in ToSet(t)
    <3>1. j - m \in 1 .. n /\ u[j] = t[j - m] BY <1>4, <2>2
    <3>2. i - m = j - m BY <1>2, <2>2, <3>1 DEF Once
    <3> QED BY <1>2, <3>2
  <2> QED BY <1>4, <2>1, <2>2
<1> QED BY <1>1, <1>7, <1>8 DEF u

\* A queue without a repetition is no longer than the set it comes from.
LEMMA OnceLen ==
    ASSUME NEW S, NEW s \in Seq(S), Once(s, S), NEW T, ToSet(s) \subseteq T, IsFiniteSet(T)
    PROVE  Len(s) <= Cardinality(T)
<1>1. s \in Injection(1 .. Len(s), T) BY DEF Injection, IsInjective, Once, ToSet
<1>2. Cardinality(1 .. Len(s)) = Len(s)
  <2>1. Len(s) \in Nat /\ 1 \in Int /\ Len(s) \in Int OBVIOUS
  <2>2. Cardinality(1 .. Len(s)) = IF 1 > Len(s) THEN 0 ELSE Len(s) - 1 + 1 BY <2>1, FS_Interval
  <2> QED BY <2>1, <2>2
<1> QED BY <1>1, <1>2, FS_Injection

\* As many places as things.
LEMMA OnceCount ==
    ASSUME NEW S, NEW s \in Seq(S), NEW P, Once(s, P)
    PROVE  /\ IsFiniteSet(ToSet(s) \cap P)
           /\ Cardinality(Where(s, P)) = Cardinality(ToSet(s) \cap P)
<1> DEFINE W == Where(s, P)
           f == [i \in W |-> s[i]]
<1>1. W \subseteq 1 .. Len(s) /\ DOMAIN s = 1 .. Len(s) BY DEF Where
<1>2. IsFiniteSet(W)
  <2>1. IsFiniteSet(1 .. Len(s)) BY FS_Interval
  <2> QED BY <1>1, <2>1, FS_Subset
<1>3. f \in Injection(W, ToSet(s) \cap P) BY DEF Injection, IsInjective, Once, ToSet, Where
<1>4. f \in Surjection(W, ToSet(s) \cap P)
  <2>1. ASSUME NEW x \in ToSet(s) \cap P PROVE \E i \in W : f[i] = x BY DEF ToSet, Where
  <2>2. f \in [W -> ToSet(s) \cap P] BY <1>3 DEF Injection
  <2> QED BY <2>1, <2>2 DEF Surjection
<1> HIDE DEF f, W
<1>5. IsFiniteSet(ToSet(s) \cap P) BY <1>2, <1>4, FS_Surjection
<1>6. Cardinality(ToSet(s) \cap P) = Cardinality(W) BY <1>2, <1>3, <1>4, FS_Surjection
<1> QED BY <1>5, <1>6 DEF W
-----------------------------------------------------------------------------
\* There is a lowest among some numbers.
LEMMA Lowest ==
    ASSUME NEW T \in SUBSET Nat, T # {}
    PROVE  \E x \in T : \A y \in T : x <= y
<1> DEFINE U == {1 .. n : n \in T}
<1>1. U \subseteq FiniteSubsetsOf(Nat) /\ U # {}
  <2>1. \A n \in T : 1 .. n \in SUBSET Nat /\ IsFiniteSet(1 .. n) BY FS_Interval
  <2> QED BY <2>1 DEF FiniteSubsetsOf
<1>2. PICK u \in U : \A v \in U : <<v, u>> \notin StrictSubsetOrdering(Nat)
  <2> HIDE DEF U
  <2> QED BY <1>1, FS_StrictSubsetOrderingWellFounded, WFMin
<1>3. PICK x \in T : u = 1 .. x OBVIOUS
<1>4. ASSUME NEW y \in T, y < x PROVE FALSE
  <2>1. 1 .. y \subseteq 1 .. x BY <1>4
  <2>2. x \in 1 .. x /\ x \notin 1 .. y BY <1>4
  <2>3. 1 .. y \in SUBSET Nat /\ 1 .. x \in SUBSET Nat OBVIOUS
  <2>4. <<1 .. y, 1 .. x>> \in StrictSubsetOrdering(Nat) BY <2>1, <2>2, <2>3 DEF StrictSubsetOrdering
  <2> QED BY <1>2, <1>3, <2>4
<1> QED BY <1>4

\* Induction, with the set P of the numbers the claim holds for.
LEMMA Induction ==
    ASSUME NEW P, 0 \in P, \A n \in Nat : n \in P => n + 1 \in P
    PROVE  Nat \subseteq P
<1> SUFFICES ASSUME Nat \ P # {} PROVE FALSE OBVIOUS
<1>1. PICK x \in Nat \ P : \A y \in Nat \ P : x <= y
  <2>1. Nat \ P \in SUBSET Nat OBVIOUS
  <2> QED BY <2>1, Lowest
<1>2. x # 0 /\ x - 1 \in Nat BY <1>1
<1>3. x - 1 \in P BY <1>1, <1>2
<1>4. (x - 1) + 1 \in P BY <1>2, <1>3
<1> QED BY <1>1, <1>4

LEMMA CountingUp ==
    ASSUME NEW N \in Nat, NEW P, 0 \in P, \A n \in 1 .. N : n - 1 \in P => n \in P
    PROVE  0 .. N \subseteq P
<1> DEFINE Q == {n \in Nat : n <= N => n \in P}
<1>1. \A n \in Nat : n \in Q => n + 1 \in Q
  <2> SUFFICES ASSUME NEW n \in Q, n + 1 <= N PROVE n + 1 \in P OBVIOUS
  <2>1. n + 1 \in 1 .. N /\ (n + 1) - 1 = n /\ n \in P OBVIOUS
  <2> QED BY <2>1
<1>2. 0 \in Q OBVIOUS
<1>3. Nat \subseteq Q
  <2> HIDE DEF Q
  <2> QED BY <1>1, <1>2, Induction
<1> QED BY <1>3

LEMMA CountingDown ==
    ASSUME NEW N \in Nat, NEW P, N \in P, \A n \in 1 .. N - 1 : n + 1 \in P => n \in P
    PROVE  1 .. N \subseteq P
<1> DEFINE Q == {k \in Nat : k < N => N - k \in P}
<1>1. \A k \in Nat : k \in Q => k + 1 \in Q
  <2> SUFFICES ASSUME NEW k \in Q, k + 1 < N PROVE N - (k + 1) \in P OBVIOUS
  <2>1. /\ N - (k + 1) \in 1 .. N - 1 /\ (N - (k + 1)) + 1 = N - k
        /\ N - k \in P
    OBVIOUS
  <2> QED BY <2>1
<1>2. 0 \in Q OBVIOUS
<1>3. Nat \subseteq Q
  <2> HIDE DEF Q
  <2> QED BY <1>1, <1>2, Induction
<1>4. ASSUME NEW n \in 1 .. N PROVE n \in P
  <2>1. N - n \in Nat /\ N - n < N /\ N - (N - n) = n OBVIOUS
  <2> QED BY <1>3, <2>1
<1> QED BY <1>4

\* There is a function that begins with base and goes on as F says.
LEMMA Recursion ==
    ASSUME NEW N \in Nat, NEW base \in Int, NEW F \in [1 .. N -> [Int -> Int]]
    PROVE  \E f \in [0 .. N -> Int] : f[0] = base /\ \A n \in 1 .. N : f[n] = F[n][f[n - 1]]
<1> DEFINE Good(n) == \E f \in [0 .. n -> Int] : f[0] = base /\ \A m \in 1 .. n : f[m] = F[m][f[m - 1]]
           P == {n \in 0 .. N : Good(n)}
<1>1. 0 \in P
  <2> DEFINE f == [m \in 0 .. 0 |-> base]
  <2>1. f \in [0 .. 0 -> Int] /\ f[0] = base /\ 1 .. 0 = {} OBVIOUS
  <2> HIDE DEF f
  <2>2. Good(0) BY <2>1
  <2>3. 0 \in 0 .. N OBVIOUS
  <2> HIDE DEF Good
  <2> QED BY <2>2, <2>3
<1>2. ASSUME NEW n \in 1 .. N, n - 1 \in P PROVE n \in P
  <2>1. PICK f \in [0 .. n - 1 -> Int] : f[0] = base /\ \A m \in 1 .. n - 1 : f[m] = F[m][f[m - 1]]
    BY <1>2
  <2> DEFINE g == [m \in 0 .. n |-> IF m = n THEN F[n][f[n - 1]] ELSE f[m]]
  <2>2. F[n][f[n - 1]] \in Int
    <3>1. f[n - 1] \in Int BY <2>1
    <3>2. F[n] \in [Int -> Int] OBVIOUS
    <3> QED BY <3>1, <3>2
  <2>3. g \in [0 .. n -> Int] BY <2>1, <2>2
  <2>4. g[0] = base BY <2>1
  <2>5. \A m \in 1 .. n : g[m] = F[m][g[m - 1]]
    <3> TAKE m \in 1 .. n
    <3>1. g[m - 1] = f[m - 1] OBVIOUS
    <3>2. CASE m = n BY <3>1, <3>2
    <3>3. CASE m # n
      <4>1. m \in 1 .. n - 1 BY <3>3
      <4> QED BY <2>1, <3>1, <3>3, <4>1
    <3> QED BY <3>2, <3>3
  <2> HIDE DEF g
  <2>6. Good(n) BY <2>3, <2>4, <2>5
  <2>7. n \in 0 .. N OBVIOUS
  <2> HIDE DEF Good
  <2> QED BY <2>6, <2>7
<1>3. N \in P
  <2> HIDE DEF P
  <2>1. 0 .. N \subseteq P BY <1>1, <1>2, CountingUp
  <2> QED BY <2>1
<1> QED BY <1>3

\* Division with remainder: there is one way.
LEMMA Division ==
    ASSUME NEW v \in Nat, NEW n \in Nat \ {0}
    PROVE  \E a \in Nat, r \in 0 .. n - 1 : v = a * n + r
<1> DEFINE P == {w \in Nat : \E a \in Nat, r \in 0 .. n - 1 : w = a * n + r}
<1>1. 0 \in P
  <2>1. 0 = 0 * n + 0 /\ 0 \in 0 .. n - 1 OBVIOUS
  <2> QED BY <2>1
<1>2. ASSUME NEW w \in Nat, w \in P PROVE w + 1 \in P
  <2>1. PICK a \in Nat, r \in 0 .. n - 1 : w = a * n + r BY <1>2
  <2>2. CASE r + 1 < n
    <3> DEFINE q == r + 1
    <3>1. w + 1 = a * n + q /\ q \in 0 .. n - 1 /\ w + 1 \in Nat
      <4>1. a * n \in Nat OBVIOUS
      <4> QED BY <2>1, <2>2, <4>1
    <3> HIDE DEF q
    <3> QED BY <3>1
  <2>3. CASE r + 1 = n
    <3> DEFINE c == a + 1
    <3>1. w + 1 = c * n + 0 /\ 0 \in 0 .. n - 1 /\ c \in Nat /\ w + 1 \in Nat
      <4>1. (a + 1) * n = a * n + n /\ a * n \in Nat OBVIOUS
      <4> QED BY <2>1, <2>3, <4>1
    <3> HIDE DEF c
    <3> QED BY <3>1
  <2> QED BY <2>2, <2>3
<1>3. v \in P
  <2> HIDE DEF P
  <2> QED BY <1>1, <1>2, Induction
<1> QED BY <1>3

LEMMA DivisionUnique ==
    ASSUME NEW n \in Nat, NEW a \in Nat, NEW b \in Nat, NEW q \in 0 .. n - 1, NEW r \in 0 .. n - 1,
           a * n + q = b * n + r
    PROVE  a = b /\ q = r
<1>1. ASSUME NEW c \in Nat, NEW d \in Nat, c < d PROVE c * n + n <= d * n
  <2>1. PICK e \in Nat : d = c + 1 + e
    <3>1. d - c - 1 \in Nat /\ d = c + 1 + (d - c - 1) BY <1>1
    <3> QED BY <3>1
  <2>2. d * n = c * n + n + e * n BY <2>1
  <2>3. e * n \in Nat /\ c * n \in Nat OBVIOUS
  <2> QED BY <2>2, <2>3
<1>2. a * n \in Nat /\ b * n \in Nat OBVIOUS
<1>3. ~(a < b) BY <1>1, <1>2
<1>4. ~(b < a) BY <1>1, <1>2
<1>5. a = b BY <1>3, <1>4
<1> QED BY <1>2, <1>5
=============================================================================
