--------------------------- MODULE MigrationsProofs ---------------------------
(***************************************************************************)
(* Theorems about Migrations: up and down between any revisions, in any    *)
(* order and with any rows, the tables depend on the revision alone.       *)
(* A command runs a path of statements, so the proofs begin with what the  *)
(* community modules' FoldLeft and FlattenSeq do: that their recursive     *)
(* functions exist is shown by induction over a set (Climb), which needs   *)
(* no theorem with an operator for a parameter.                            *)
(***************************************************************************)
EXTENDS Migrations, FiniteSetTheorems, TLAPS

-----------------------------------------------------------------------------
(* Running the statements of a path                                        *)

\* A set of numbers with 0 and with the successor of each of its members has all of
\* them: induction, with a set for the predicate.
LEMMA Climb ==
  ASSUME NEW S, 0 \in S, \A n \in Nat : n \in S => n + 1 \in S
  PROVE  Nat \subseteq S
<1> SUFFICES ASSUME NEW k \in Nat, k \notin S PROVE FALSE
  OBVIOUS
<1> DEFINE below(i) == 1 .. i
           Failing == {i \in 0 .. k : i \notin S}
           X == {below(i) : i \in Failing}
<1>1. IsFiniteSet(below(k)) /\ FiniteSubsetsOf(below(k)) = SUBSET below(k)
  <2>1. IsFiniteSet(below(k))
    BY FS_Interval
  <2> HIDE DEF below
  <2> QED
    BY <2>1, FS_FiniteSubsetsOfFinite
<1>2. X \subseteq SUBSET below(k) /\ X # {}
  OBVIOUS
<1>3. PICK T \in X : \A U \in X : ~ <<U, T>> \in StrictSubsetOrdering(below(k))
  <2> HIDE DEF X, below
  <2> QED
    BY <1>1, <1>2, FS_StrictSubsetOrderingWellFounded, WFMin
<1>4. PICK j \in Failing : T = below(j)
  BY <1>3
<1>5. j - 1 \in Failing
  BY <1>4
<1>6. <<below(j - 1), below(j)>> \in StrictSubsetOrdering(below(k))
  <2>1. /\ below(j - 1) \subseteq below(j) /\ below(j - 1) # below(j)
        /\ below(j - 1) \in SUBSET below(k) /\ below(j) \in SUBSET below(k)
    <3>1. j \in Nat /\ j <= k /\ j # 0
      BY <1>4
    <3>2. j \in below(j) /\ j \notin below(j - 1)
      BY <3>1
    <3> QED
      BY <3>1, <3>2
  <2> QED
    BY <2>1 DEF StrictSubsetOrdering
<1> QED
  BY <1>3, <1>4, <1>5, <1>6

\* h goes through the databases that the statements lead to, one by one.
RunOf(h, db, sts, n) ==
  /\ h = [i \in 0 .. n |-> h[i]]
  /\ h[0] = db
  /\ \A i \in 1 .. n : h[i] = Executed(h[i - 1], sts[i])

\* There is such a run for every sequence of statements.
LEMMA RunExists ==
  ASSUME NEW db, NEW sts, NEW n \in Nat
  PROVE  \E h : RunOf(h, db, sts, n)
<1> DEFINE S == {k \in Nat : \E h : RunOf(h, db, sts, k)}
<1>1. 0 \in S
  <2> DEFINE h == [i \in 0 .. 0 |-> db]
  <2>1. RunOf(h, db, sts, 0)
    BY DEF RunOf
  <2> QED
    BY <2>1
<1>2. ASSUME NEW k \in Nat, k \in S PROVE k + 1 \in S
  <2>1. PICK h : RunOf(h, db, sts, k)
    BY <1>2
  <2> DEFINE next == Executed(h[k], sts[k + 1])
             g == [i \in 0 .. k + 1 |-> IF i = k + 1 THEN next ELSE h[i]]
  <2>2. RunOf(g, db, sts, k + 1)
    <3>1. g = [i \in 0 .. k + 1 |-> g[i]] /\ g[k + 1] = next
      OBVIOUS
    <3>2. g[0] = db /\ \A i \in 0 .. k : g[i] = h[i]
      BY <2>1 DEF RunOf
    <3>3. \A i \in 1 .. k : h[i] = Executed(h[i - 1], sts[i])
      BY <2>1 DEF RunOf
    <3>4. ASSUME NEW i \in 1 .. k + 1 PROVE g[i] = Executed(g[i - 1], sts[i])
      <4>1. CASE i = k + 1
        <5>1. g[i - 1] = h[k]
          BY <3>2, <4>1
        <5> QED
          BY <3>1, <4>1, <5>1
      <4>2. CASE i # k + 1
        <5>1. i \in 1 .. k /\ i - 1 \in 0 .. k /\ i \in 0 .. k
          BY <4>2
        <5> HIDE DEF g
        <5> QED
          BY <3>2, <3>3, <5>1
      <4> QED
        BY <4>1, <4>2
    <3> HIDE DEF g
    <3> QED
      BY <3>1, <3>2, <3>4 DEF RunOf
  <2> QED
    BY <2>2
<1> HIDE DEF S
<1>3. n \in S
  BY <1>1, <1>2, Climb
<1> QED
  BY <1>3 DEF S

\* Where they lead from db.
After(db, sts) == FoldLeft(Executed, db, sts)

\* What the library's fold over the statements is computed by.
Folds(f, db, sts, n) ==
  f = [s \in SUBSET (1 .. n) |->
         IF s = {} THEN db ELSE Executed(f[s \ {Max(s)}], sts[Max(s)])]

\* The greatest member of a set of numbers.
LEMMA Greatest ==
  ASSUME NEW S \in SUBSET Nat, NEW m \in S, \A i \in S : i <= m
  PROVE  Max(S) = m
<1>1. \A i \in S : m >= i
  OBVIOUS
<1>2. Max(S) \in S /\ \A i \in S : Max(S) >= i
  BY <1>1, Zenon DEF Max
<1>3. ASSUME NEW x \in S, \A i \in S : x >= i PROVE x = m
  BY <1>3
<1> QED
  BY <1>2, <1>3, Zenon

\* There is such a function for every sequence.
LEMMA FoldsExists ==
  ASSUME NEW db, NEW sts, NEW n \in Nat
  PROVE  \E f : Folds(f, db, sts, n)
<1> DEFINE S == {k \in Nat : \E f : Folds(f, db, sts, k)}
<1>1. 0 \in S
  <2> DEFINE f == [s \in SUBSET (1 .. 0) |-> db]
  <2>1. f = [s \in SUBSET (1 .. 0) |->
               IF s = {} THEN db ELSE Executed(f[s \ {Max(s)}], sts[Max(s)])]
    OBVIOUS
  <2> QED
    BY <2>1 DEF Folds
<1>2. ASSUME NEW k \in Nat, k \in S PROVE k + 1 \in S
  <2>1. PICK f : Folds(f, db, sts, k)
    BY <1>2
  <2> DEFINE g == [s \in SUBSET (1 .. k + 1) |->
                     IF k + 1 \in s THEN Executed(f[s \ {k + 1}], sts[k + 1]) ELSE f[s]]
  <2>2. ASSUME NEW s \in SUBSET (1 .. k + 1)
        PROVE  g[s] = IF s = {} THEN db ELSE Executed(g[s \ {Max(s)}], sts[Max(s)])
    <3>1. CASE k + 1 \in s
      <4>1. Max(s) = k + 1
        BY <3>1, Greatest
      <4>2. s \ {k + 1} \in SUBSET (1 .. k + 1) /\ k + 1 \notin s \ {k + 1}
        OBVIOUS
      <4>3. g[s \ {k + 1}] = f[s \ {k + 1}] /\ g[s] = Executed(f[s \ {k + 1}], sts[k + 1])
        BY <3>1, <4>2
      <4> HIDE DEF g
      <4> QED
        BY <3>1, <4>1, <4>3
    <3>2. CASE k + 1 \notin s
      <4>1. s \in SUBSET (1 .. k)
        BY <3>2
      <4>2. f[s] = IF s = {} THEN db ELSE Executed(f[s \ {Max(s)}], sts[Max(s)])
        <5>1. f = [t \in SUBSET (1 .. k) |->
                     IF t = {} THEN db ELSE Executed(f[t \ {Max(t)}], sts[Max(t)])]
          BY <2>1, Zenon DEF Folds
        <5> QED
          BY <4>1, <5>1, Zenon
      <4>3. g[s] = f[s] /\ g[s \ {Max(s)}] = f[s \ {Max(s)}]
        BY <3>2
      <4> HIDE DEF g
      <4> QED
        BY <4>2, <4>3
    <3> QED
      BY <3>1, <3>2
  <2>3. g = [s \in SUBSET (1 .. k + 1) |-> g[s]]
    OBVIOUS
  <2>4. [s \in SUBSET (1 .. k + 1) |-> g[s]] =
          [s \in SUBSET (1 .. k + 1) |->
             IF s = {} THEN db ELSE Executed(g[s \ {Max(s)}], sts[Max(s)])]
    <3> HIDE DEF g
    <3> QED
      BY <2>2, Zenon
  <2>5. Folds(g, db, sts, k + 1)
    <3> HIDE DEF g
    <3> QED
      BY <2>3, <2>4, Zenon DEF Folds
  <2> QED
    BY <2>5
<1> HIDE DEF S
<1>3. n \in S
  BY <1>1, <1>2, Climb
<1> QED
  BY <1>3 DEF S

\* A run ends where the fold does.
LEMMA AfterRun ==
  ASSUME NEW db, NEW sts, NEW n \in Nat, DOMAIN sts = 1 .. n,
         NEW h, RunOf(h, db, sts, n)
  PROVE  After(db, sts) = h[n]
<1> DEFINE iter == CHOOSE f : Folds(f, db, sts, n)
<1>1. After(db, sts) = iter[1 .. n]
  BY DEF After, FoldLeft, MapThenFoldSet, Folds
<1>2. Folds(iter, db, sts, n)
  BY FoldsExists
<1> HIDE DEF iter
<1> DEFINE S == {k \in Nat : k <= n => iter[1 .. k] = h[k]}
<1>3. \A s \in SUBSET (1 .. n) :
        iter[s] = IF s = {} THEN db ELSE Executed(iter[s \ {Max(s)}], sts[Max(s)])
  BY <1>2, Zenon DEF Folds
<1>4. 0 \in S
  <2>1. 1 .. 0 = {} /\ 1 .. 0 \in SUBSET (1 .. n) /\ h[0] = db
    BY DEF RunOf
  <2>2. iter[1 .. 0] = db
    BY <1>3, <2>1
  <2> QED
    BY <2>1, <2>2
<1>5. ASSUME NEW k \in Nat, k \in S PROVE k + 1 \in S
  <2> SUFFICES ASSUME k + 1 <= n PROVE iter[1 .. k + 1] = h[k + 1]
    OBVIOUS
  <2>1. /\ 1 .. k + 1 \in SUBSET (1 .. n) /\ 1 .. k + 1 # {}
        /\ (1 .. k + 1) \ {k + 1} = 1 .. k
    OBVIOUS
  <2>2. Max(1 .. k + 1) = k + 1
    BY Greatest
  <2>3. iter[1 .. k + 1] = Executed(iter[1 .. k], sts[k + 1])
    BY <1>3, <2>1, <2>2
  <2>4. iter[1 .. k] = h[k]
    BY <1>5
  <2>5. h[k + 1] = Executed(h[k], sts[k + 1])
    <3>1. k + 1 \in 1 .. n /\ (k + 1) - 1 = k
      OBVIOUS
    <3> QED
      BY <3>1 DEF RunOf
  <2> QED
    BY <2>3, <2>4, <2>5
<1> HIDE DEF S
<1>6. n \in S
  BY <1>4, <1>5, Climb
<1> QED
  BY <1>1, <1>6 DEF S

\* Two paths in a row are run one after the other.
LEMMA AfterConcat ==
  ASSUME NEW db, NEW S, NEW a \in Seq(S), NEW b \in Seq(S)
  PROVE  After(db, a \o b) = After(After(db, a), b)
<1> DEFINE n == Len(a)
           k == Len(b)
           c == a \o b
<1>1. /\ n \in Nat /\ k \in Nat /\ n + k \in Nat
      /\ DOMAIN a = 1 .. n /\ DOMAIN b = 1 .. k /\ DOMAIN c = 1 .. n + k
      /\ \A i \in 1 .. n : c[i] = a[i]
      /\ \A i \in 1 .. k : c[n + i] = b[i]
  OBVIOUS
<1> HIDE DEF n, k, c
<1>2. PICK h : RunOf(h, db, c, n + k)
  BY <1>1, RunExists
<1>3. h[0] = db /\ \A i \in 1 .. n + k : h[i] = Executed(h[i - 1], c[i])
  BY <1>2 DEF RunOf
<1> DEFINE f == [i \in 0 .. n |-> h[i]]
           g == [i \in 0 .. k |-> h[n + i]]
<1>4. RunOf(f, db, a, n) /\ f[n] = h[n]
  <2>1. f = [i \in 0 .. n |-> f[i]] /\ \A i \in 0 .. n : f[i] = h[i]
    OBVIOUS
  <2>2. ASSUME NEW i \in 1 .. n PROVE f[i] = Executed(f[i - 1], a[i])
    <3>1. i \in 1 .. n + k /\ i \in 0 .. n /\ i - 1 \in 0 .. n
      BY <1>1
    <3> HIDE DEF f
    <3> QED
      BY <1>1, <1>3, <2>1, <3>1
  <2>3. f[0] = db /\ f[n] = h[n]
    BY <1>1, <1>3, <2>1
  <2> HIDE DEF f
  <2> QED
    BY <2>1, <2>2, <2>3, Zenon DEF RunOf
<1>5. RunOf(g, h[n], b, k) /\ g[k] = h[n + k]
  <2>1. g = [i \in 0 .. k |-> g[i]] /\ \A i \in 0 .. k : g[i] = h[n + i]
    OBVIOUS
  <2>2. ASSUME NEW i \in 1 .. k PROVE g[i] = Executed(g[i - 1], b[i])
    <3>1. /\ n + i \in 1 .. n + k /\ i \in 0 .. k /\ i - 1 \in 0 .. k
          /\ (n + i) - 1 = n + (i - 1)
      BY <1>1
    <3>2. h[n + i] = Executed(h[n + (i - 1)], c[n + i])
      BY <1>3, <3>1
    <3> HIDE DEF g
    <3> QED
      BY <1>1, <2>1, <3>1, <3>2
  <2>3. g[0] = h[n] /\ g[k] = h[n + k]
    BY <1>1, <2>1
  <2> HIDE DEF g
  <2> QED
    BY <2>1, <2>2, <2>3, Zenon DEF RunOf
<1> HIDE DEF f, g
<1>6. After(db, c) = h[n + k] /\ After(db, a) = f[n] /\ After(h[n], b) = g[k]
  BY <1>1, <1>2, <1>4, <1>5, AfterRun
<1> QED
  BY <1>4, <1>5, <1>6 DEF c

\* A path of no statement leads nowhere.
LEMMA AfterNone ==
  ASSUME NEW db
  PROVE  After(db, <<>>) = db
<1> DEFINE h == [i \in 0 .. 0 |-> db]
<1>1. RunOf(h, db, <<>>, 0) /\ h[0] = db
  BY DEF RunOf
<1> HIDE DEF h
<1>2. DOMAIN <<>> = 1 .. 0
  OBVIOUS
<1> QED
  BY <1>1, <1>2, AfterRun

\* A path of one statement executes it.
LEMMA AfterOne ==
  ASSUME NEW db, NEW st
  PROVE  After(db, <<st>>) = Executed(db, st)
<1> DEFINE h == [i \in 0 .. 1 |-> IF i = 0 THEN db ELSE Executed(db, st)]
<1>1. h = [i \in 0 .. 1 |-> h[i]] /\ h[0] = db /\ h[1] = Executed(db, st)
  OBVIOUS
<1> HIDE DEF h
<1> DEFINE sts == <<st>>
<1>2. DOMAIN sts = 1 .. 1 /\ sts[1] = st
  OBVIOUS
<1> HIDE DEF sts
<1>3. RunOf(h, db, sts, 1)
  BY <1>1, <1>2 DEF RunOf
<1>4. After(db, sts) = h[1]
  BY <1>2, <1>3, AfterRun
<1> QED
  BY <1>1, <1>4 DEF sts

\* What the library flattens a sequence of paths by.
Flattens(f, ss, n) == f = [i \in 1 .. n |-> IF i = 1 THEN ss[i] ELSE f[i - 1] \o ss[i]]

\* There is such a function for every sequence of sequences.
LEMMA FlattensExists ==
  ASSUME NEW ss, NEW n \in Nat
  PROVE  \E f : Flattens(f, ss, n)
<1> DEFINE S == {k \in Nat : \E f : Flattens(f, ss, k)}
<1>1. 0 \in S
  <2> DEFINE f == [i \in 1 .. 0 |-> ss]
  <2>1. f = [i \in 1 .. 0 |-> IF i = 1 THEN ss[i] ELSE f[i - 1] \o ss[i]]
    OBVIOUS
  <2> QED
    BY <2>1 DEF Flattens
<1>2. ASSUME NEW k \in Nat, k \in S PROVE k + 1 \in S
  <2>1. PICK f : Flattens(f, ss, k)
    BY <1>2
  <2> DEFINE g == [i \in 1 .. k + 1 |->
                     IF i = 1 THEN ss[i] ELSE f[i - 1] \o ss[i]]
  <2>2. ASSUME NEW i \in 1 .. k PROVE g[i] = f[i]
    <3>1. f = [j \in 1 .. k |-> IF j = 1 THEN ss[j] ELSE f[j - 1] \o ss[j]]
      BY <2>1, Zenon DEF Flattens
    <3>2. f[i] = IF i = 1 THEN ss[i] ELSE f[i - 1] \o ss[i]
      BY <3>1, Zenon
    <3> QED
      BY <3>2
  <2>3. ASSUME NEW i \in 1 .. k + 1
        PROVE  g[i] = IF i = 1 THEN ss[i] ELSE g[i - 1] \o ss[i]
    <3>1. i # 1 => i - 1 \in 1 .. k
      OBVIOUS
    <3>2. g[i] = IF i = 1 THEN ss[i] ELSE f[i - 1] \o ss[i]
      OBVIOUS
    <3> HIDE DEF g
    <3> QED
      BY <2>2, <3>1, <3>2
  <2>4. g = [i \in 1 .. k + 1 |-> g[i]]
    OBVIOUS
  <2>5. [i \in 1 .. k + 1 |-> g[i]] =
          [i \in 1 .. k + 1 |-> IF i = 1 THEN ss[i] ELSE g[i - 1] \o ss[i]]
    <3> HIDE DEF g
    <3> QED
      BY <2>3, Zenon
  <2>6. Flattens(g, ss, k + 1)
    <3> HIDE DEF g
    <3> QED
      BY <2>4, <2>5, Zenon DEF Flattens
  <2> QED
    BY <2>6
<1> HIDE DEF S
<1>3. n \in S
  BY <1>1, <1>2, Climb
<1> QED
  BY <1>3 DEF S

\* One path more is added at the end.
LEMMA FlattenAppend ==
  ASSUME NEW S, NEW ss \in Seq(Seq(S)), NEW s \in Seq(S)
  PROVE  /\ FlattenSeq(ss) \in Seq(S)
         /\ FlattenSeq(Append(ss, s)) = FlattenSeq(ss) \o s
<1> DEFINE n == Len(ss)
           tt == Append(ss, s)
           f == CHOOSE x : Flattens(x, ss, n)
           g == CHOOSE x : Flattens(x, tt, n + 1)
<1>1. /\ n \in Nat /\ Len(tt) = n + 1 /\ tt[n + 1] = s
      /\ \A i \in 1 .. n : ss[i] \in Seq(S) /\ tt[i] = ss[i]
  OBVIOUS
<1>2. /\ n # 0 => FlattenSeq(ss) = f[n]
      /\ n = 0 => FlattenSeq(ss) = ss
  BY DEF FlattenSeq, Flattens
<1>3. FlattenSeq(tt) = g[n + 1]
  <2>1. Len(tt) # 0
    BY <1>1
  <2> HIDE DEF n
  <2> QED
    BY <1>1, <2>1 DEF FlattenSeq, Flattens
<1> HIDE DEF n, tt
<1>4. Flattens(f, ss, n) /\ Flattens(g, tt, n + 1)
  <2>1. n + 1 \in Nat
    BY <1>1
  <2>2. (\E x : Flattens(x, ss, n)) /\ \E x : Flattens(x, tt, n + 1)
    BY <1>1, <2>1, FlattensExists
  <2> QED
    BY <2>2, Zenon
<1> HIDE DEF f, g
<1>5. /\ \A i \in 1 .. n : f[i] = IF i = 1 THEN ss[i] ELSE f[i - 1] \o ss[i]
      /\ \A i \in 1 .. n + 1 : g[i] = IF i = 1 THEN tt[i] ELSE g[i - 1] \o tt[i]
  BY <1>4, Zenon DEF Flattens
<1> DEFINE K == {k \in Nat : k \in 1 .. n => f[k] = g[k] /\ f[k] \in Seq(S)}
<1>6. 0 \in K
  OBVIOUS
<1>7. ASSUME NEW k \in Nat, k \in K PROVE k + 1 \in K
  <2> SUFFICES ASSUME k + 1 \in 1 .. n PROVE f[k + 1] = g[k + 1] /\ f[k + 1] \in Seq(S)
    OBVIOUS
  <2>1. k + 1 \in 1 .. n + 1 /\ ss[k + 1] \in Seq(S) /\ tt[k + 1] = ss[k + 1]
    BY <1>1
  <2>2. CASE k = 0
    BY <1>5, <2>1, <2>2
  <2>3. CASE k # 0
    <3>1. f[k] = g[k] /\ f[k] \in Seq(S)
      BY <1>1, <1>7, <2>3
    <3>2. f[k + 1] = f[k] \o ss[k + 1] /\ g[k + 1] = g[k] \o tt[k + 1]
      <4>1. k + 1 # 1 /\ (k + 1) - 1 = k
        BY <2>3
      <4>2. /\ f[k + 1] = f[(k + 1) - 1] \o ss[k + 1]
            /\ g[k + 1] = g[(k + 1) - 1] \o tt[k + 1]
        BY <1>5, <2>1, <4>1, Zenon
      <4> QED
        BY <4>1, <4>2, Zenon
    <3> QED
      BY <2>1, <3>1, <3>2
  <2> QED
    BY <2>2, <2>3
<1>8. n \in K
  <2> HIDE DEF K
  <2> QED
    BY <1>1, <1>6, <1>7, Climb
<1>9. CASE n = 0
  <2>1. ss = <<>> /\ g[1] = s
    BY <1>1, <1>5, <1>9 DEF n
  <2> QED
    <3>1. <<>> \o s = s /\ <<>> \in Seq(S) /\ n + 1 = 1
      BY <1>9
    <3> QED
      BY <1>2, <1>3, <1>9, <2>1, <3>1 DEF tt
<1>10. CASE n # 0
  <2>1. f[n] = g[n] /\ f[n] \in Seq(S)
    BY <1>1, <1>8, <1>10
  <2>2. g[n + 1] = g[n] \o s
    <3>1. n + 1 \in 1 .. n + 1 /\ n + 1 # 1 /\ (n + 1) - 1 = n
      BY <1>1, <1>10
    <3>2. g[n + 1] = g[(n + 1) - 1] \o tt[n + 1]
      BY <1>5, <3>1, Zenon
    <3> QED
      BY <1>1, <3>1, <3>2, Zenon
  <2> QED
    BY <1>2, <1>3, <1>10, <2>1, <2>2 DEF tt
<1> QED
  BY <1>9, <1>10

\* A path of two statements executes one after the other.
LEMMA AfterTwo ==
  ASSUME NEW db, NEW a, NEW b
  PROVE  After(db, <<a, b>>) = Executed(Executed(db, a), b)
<1> DEFINE d1 == Executed(db, a)
           d2 == Executed(d1, b)
           two == <<a, b>>
           f == [i \in 0 .. 2 |-> IF i = 0 THEN db ELSE IF i = 1 THEN d1 ELSE d2]
<1>1. DOMAIN two = 1 .. 2 /\ two[1] = a /\ two[2] = b
  OBVIOUS
<1> HIDE DEF d1, d2
<1>2. f = [i \in 0 .. 2 |-> f[i]] /\ f[0] = db /\ f[1] = d1 /\ f[2] = d2
  OBVIOUS
<1> HIDE DEF two, f
<1>3. d1 = Executed(db, a) /\ d2 = Executed(d1, b)
  BY DEF d1, d2
<1>4. \A i \in 1 .. 2 : f[i] = Executed(f[i - 1], two[i])
  BY <1>1, <1>2, <1>3
<1>5. RunOf(f, db, two, 2)
  BY <1>2, <1>4, Zenon DEF RunOf
<1>6. 2 \in Nat
  OBVIOUS
<1>7. After(db, two) = f[2]
  BY <1>1, <1>5, <1>6, AfterRun, Zenon
<1> QED
  BY <1>2, <1>3, <1>7 DEF two

\* Three statements, one after the other.
LEMMA AfterThree ==
  ASSUME NEW db, NEW a, NEW b, NEW c
  PROVE  After(db, <<a, b, c>>) = Executed(Executed(Executed(db, a), b), c)
<1> DEFINE d1 == Executed(db, a)
           d2 == Executed(d1, b)
           d3 == Executed(d2, c)
           three == <<a, b, c>>
           g == [i \in 0 .. 3 |->
                   IF i = 0 THEN db ELSE IF i = 1 THEN d1 ELSE IF i = 2 THEN d2 ELSE d3]
<1>1. DOMAIN three = 1 .. 3 /\ three[1] = a /\ three[2] = b /\ three[3] = c
  OBVIOUS
<1> HIDE DEF d1, d2, d3
<1>2. g = [i \in 0 .. 3 |-> g[i]] /\ g[0] = db /\ g[1] = d1 /\ g[2] = d2 /\ g[3] = d3
  OBVIOUS
<1> HIDE DEF three, g
<1>3. d1 = Executed(db, a) /\ d2 = Executed(d1, b) /\ d3 = Executed(d2, c)
  BY DEF d1, d2, d3
<1>4. \A i \in 1 .. 3 : g[i] = Executed(g[i - 1], three[i])
  BY <1>1, <1>2, <1>3
<1>5. RunOf(g, db, three, 3)
  BY <1>2, <1>4, Zenon DEF RunOf
<1>6. 3 \in Nat
  OBVIOUS
<1>7. After(db, three) = g[3]
  BY <1>1, <1>5, <1>6, AfterRun, Zenon
<1> QED
  BY <1>2, <1>3, <1>7 DEF three

-----------------------------------------------------------------------------
(* Paths                                                                   *)

Statements ==
  UNION {{r.up[i] : i \in DOMAIN r.up} \cup {r.down[i] : i \in DOMAIN r.down} :
           r \in {Revisions[n] : n \in 1 .. 12}}

\* There are twelve revisions, and they are sequences of statements.
LEMMA Scripts ==
  /\ Latest = 12
  /\ \A n \in 1 .. 12 : Revisions[n].up \in Seq(Statements) /\ Revisions[n].down \in Seq(Statements)
<1> DEFINE IsScript(r) ==
             /\ \E X : r.up \in Seq(X)
             /\ \E X : r.down \in Seq(X)
<1>1. ASSUME NEW name, NEW table PROVE IsScript(Creating(name, table))
  <2>1. /\ <<CreateTable(name, table)>> \in Seq({CreateTable(name, table)})
        /\ <<DropTable(name)>> \in Seq({DropTable(name)})
    OBVIOUS
  <2> QED
    BY <2>1 DEF Creating
<1>2. /\ IsScript(CreateInventoryItems) /\ IsScript(CreateOutboxEvents)
      /\ IsScript(CreateIdempotencyKeys) /\ IsScript(CreateInboxEvents)
      /\ IsScript(CreatePayments) /\ IsScript(CreateInvoices) /\ IsScript(CreateNotifications)
      /\ IsScript(CreateEventProcessingAttempts) /\ IsScript(CreateDeadLetterEvents)
  <2> HIDE DEF IsScript
  <2> QED
    BY <1>1 DEF CreateInventoryItems, CreateOutboxEvents, CreateIdempotencyKeys,
                CreateInboxEvents, CreatePayments, CreateInvoices, CreateNotifications,
                CreateEventProcessingAttempts, CreateDeadLetterEvents
<1>3. IsScript(CreateOrders)
  <2>1. ASSUME NEW a, NEW b PROVE <<a, b>> \in Seq({a, b})
    OBVIOUS
  <2> QED
    BY <2>1 DEF CreateOrders, OrderStatements
<1>4. IsScript(AddOutboxNextAttemptAt)
  <2>1. ASSUME NEW a PROVE <<a>> \in Seq({a})
    OBVIOUS
  <2> QED
    BY <2>1 DEF AddOutboxNextAttemptAt
<1>5. IsScript(AddDeadLetterReplayFields)
  <2>1. ASSUME NEW a, NEW b, NEW c PROVE <<a, b, c>> \in Seq({a, b, c})
    OBVIOUS
  <2> QED
    BY <2>1 DEF AddDeadLetterReplayFields, ReplayFields
<1>6. \A n \in 1 .. 12 : IsScript(Revisions[n])
  <2> HIDE DEF IsScript
  <2> QED
    BY <1>2, <1>3, <1>4, <1>5 DEF Revisions
<1>7. ASSUME NEW n \in 1 .. 12
      PROVE  Revisions[n].up \in Seq(Statements) /\ Revisions[n].down \in Seq(Statements)
  <2>1. \A i \in DOMAIN Revisions[n].up : Revisions[n].up[i] \in Statements
    BY DEF Statements
  <2>2. \A i \in DOMAIN Revisions[n].down : Revisions[n].down[i] \in Statements
    BY DEF Statements
  <2>3. ASSUME NEW X, NEW s \in Seq(X), \A i \in DOMAIN s : s[i] \in Statements
        PROVE  s \in Seq(Statements)
    BY <2>3
  <2> QED
    BY <1>6, <2>1, <2>2, <2>3
<1> QED
  BY <1>7 DEF Latest, Revisions

\* One revision more at the end of a path.
LEMMA PathStep ==
  ASSUME NEW m \in 0 .. 12, NEW n \in 0 .. 11
  PROVE  /\ Path(m, m) = <<>>
         /\ m <= n => /\ Path(m, n) \in Seq(Statements)
                      /\ Path(m, n + 1) = Path(m, n) \o Revisions[n + 1].up
         /\ n < m => /\ Path(m, n + 1) \in Seq(Statements)
                     /\ Path(m, n) = Path(m, n + 1) \o Revisions[n + 1].down
<1> DEFINE ups(k) == [i \in 1 .. k - m |-> Revisions[m + i].up]
           downs(k) == [i \in 1 .. m - k |-> Revisions[m - i + 1].down]
<1>1. Path(m, m) = <<>>
  <2>1. ups(m) = <<>> /\ Len(<<>>) = 0
    OBVIOUS
  <2>2. FlattenSeq(<<>>) = <<>>
    BY DEF FlattenSeq
  <2> QED
    BY <2>1, <2>2 DEF Path
<1>2. ASSUME NEW k \in Nat, NEW f, \A i \in 1 .. k : f[i] \in Seq(Statements),
             f = [i \in 1 .. k |-> f[i]]
      PROVE  f \in Seq(Seq(Statements)) /\ Len(f) = k
  BY <1>2
<1>3. CASE m <= n
  <2>1. n - m \in Nat /\ n + 1 \in 1 .. 12 /\ \A i \in 1 .. n - m : m + i \in 1 .. 12
    BY <1>3
  <2>2. /\ \A i \in 1 .. n - m : ups(n)[i] \in Seq(Statements)
        /\ ups(n) = [i \in 1 .. n - m |-> ups(n)[i]]
    BY <2>1, Scripts
  <2>3. ups(n) \in Seq(Seq(Statements))
    <3> HIDE DEF ups
    <3> QED
      BY <1>2, <2>1, <2>2
  <2>4. ups(n + 1) = Append(ups(n), Revisions[n + 1].up)
    BY <1>3
  <2>5. Path(m, n) = FlattenSeq(ups(n)) /\ Path(m, n + 1) = FlattenSeq(ups(n + 1))
    BY <1>3 DEF Path
  <2> HIDE DEF ups
  <2>6. /\ FlattenSeq(ups(n)) \in Seq(Statements)
        /\ FlattenSeq(Append(ups(n), Revisions[n + 1].up)) =
             FlattenSeq(ups(n)) \o Revisions[n + 1].up
    <3>1. Revisions[n + 1].up \in Seq(Statements)
      BY <2>1, Scripts
    <3> QED
      BY <2>3, <3>1, FlattenAppend
  <2>7. ~(n < m)
    BY <1>3
  <2> QED
    BY <1>1, <2>4, <2>5, <2>6, <2>7, Zenon
<1>4. CASE n < m
  <2>1. /\ m - (n + 1) \in Nat /\ n + 1 \in 1 .. 12
        /\ \A i \in 1 .. m - (n + 1) : m - i + 1 \in 1 .. 12
    BY <1>4
  <2>2. /\ \A i \in 1 .. m - (n + 1) : downs(n + 1)[i] \in Seq(Statements)
        /\ downs(n + 1) = [i \in 1 .. m - (n + 1) |-> downs(n + 1)[i]]
    BY <2>1, Scripts
  <2>3. downs(n + 1) \in Seq(Seq(Statements)) /\ Len(downs(n + 1)) = m - (n + 1)
    <3> HIDE DEF downs
    <3> QED
      BY <1>2, <2>1, <2>2
  <2>4. downs(n) = Append(downs(n + 1), Revisions[n + 1].down)
    BY <1>4
  <2>5. Path(m, n) = FlattenSeq(downs(n))
    BY <1>4 DEF Path
  <2>6. Path(m, n + 1) = FlattenSeq(downs(n + 1))
    <3>1. CASE n + 1 = m
      <4>1. downs(n + 1) = <<>> /\ Len(<<>>) = 0
        BY <3>1
      <4> QED
        BY <1>1, <3>1, <4>1 DEF FlattenSeq
    <3>2. CASE n + 1 # m
      BY <1>4, <3>2 DEF Path
    <3> QED
      BY <3>1, <3>2
  <2> HIDE DEF downs
  <2>7. /\ FlattenSeq(downs(n + 1)) \in Seq(Statements)
        /\ FlattenSeq(Append(downs(n + 1), Revisions[n + 1].down)) =
             FlattenSeq(downs(n + 1)) \o Revisions[n + 1].down
    <3>1. Revisions[n + 1].down \in Seq(Statements)
      BY <2>1, Scripts
    <3> QED
      BY <2>3, <3>1, FlattenAppend
  <2>8. ~(m <= n)
    BY <1>4
  <2> QED
    BY <1>1, <2>4, <2>5, <2>6, <2>7, <2>8, Zenon
<1> QED
  BY <1>1, <1>3, <1>4

-----------------------------------------------------------------------------
(* The tables of a revision                                                *)

\* The revision that creates a table, and the table as it is created.
CreatedBy ==
  [orders |-> 1, order_items |-> 1, inventory_items |-> 2, outbox_events |-> 3,
   idempotency_keys |-> 4, inbox_events |-> 5, payments |-> 6, invoices |-> 7,
   notifications |-> 8, event_processing_attempts |-> 9, dead_letter_events |-> 11]

AtFirst ==
  [orders |-> OrderStatements[1].table,
   order_items |-> OrderStatements[2].table,
   inventory_items |-> CreateInventoryItems.up[1].table,
   outbox_events |-> CreateOutboxEvents.up[1].table,
   idempotency_keys |-> CreateIdempotencyKeys.up[1].table,
   inbox_events |-> CreateInboxEvents.up[1].table,
   payments |-> CreatePayments.up[1].table,
   invoices |-> CreateInvoices.up[1].table,
   notifications |-> CreateNotifications.up[1].table,
   event_processing_attempts |-> CreateEventProcessingAttempts.up[1].table,
   dead_letter_events |-> CreateDeadLetterEvents.up[1].table]

NamesAt(n) == {t \in DOMAIN CreatedBy : CreatedBy[t] <= n}

\* Two tables have been altered since.
Versioned(table) == Widened(table, "event_version", "defaulted")

Correlated(table) == Widened(Versioned(table), "correlation_id", "required")

Replayable(table) == Widened(Correlated(table), "causation_id", "nullable")

TableAt(t, n) ==
  CASE t = "outbox_events" /\ n >= 10 -> Widened(AtFirst[t], "next_attempt_at", "nullable")
    [] t = "dead_letter_events" /\ n >= 12 -> Replayable(AtFirst[t])
    [] OTHER -> AtFirst[t]

SchemaAt(n) == [t \in NamesAt(n) |-> TableAt(t, n)]

TableOf(r, d, n, k, p) ==
  [required |-> r, defaulted |-> d, nullable |-> n, keys |-> k, parents |-> p]

IsTable(T) == \E r, d, n, k, p : T = TableOf(r, d, n, k, p)

\* A column more changes one class of columns, and a column less undoes it.
LEMMA WidenedNarrowed ==
  ASSUME NEW T, IsTable(T), NEW column, column \notin Columns(T),
         NEW class \in {"required", "defaulted", "nullable"}
  PROVE  /\ IsTable(Widened(T, column, class))
         /\ Columns(Widened(T, column, class)) = Columns(T) \cup {column}
         /\ Widened(T, column, class).keys = T.keys
         /\ Widened(T, column, class).parents = T.parents
         /\ Narrowed(Widened(T, column, class), column) = T
<1>1. PICK r, d, n, k, p : T = TableOf(r, d, n, k, p)
  BY DEF IsTable
<1>2. column \notin r /\ column \notin d /\ column \notin n
  BY <1>1 DEF TableOf, Columns
<1>3. ASSUME NEW s, column \notin s PROVE s \ {column} = s /\ (s \cup {column}) \ {column} = s
  BY <1>3
<1>4. \A a, b, c : IsTable(TableOf(a, b, c, k, p))
  BY DEF IsTable
<1>5. T.keys = k /\ T.parents = p /\ Columns(T) = r \cup d \cup n
  BY <1>1 DEF TableOf, Columns
<1>6. CASE class = "required"
  <2>1. Widened(T, column, class) = TableOf(r \cup {column}, d, n, k, p)
    BY <1>1, <1>6 DEF Widened, TableOf
  <2>2. /\ (r \cup {column}) \ {column} = r /\ d \ {column} = d /\ n \ {column} = n
        /\ (r \cup {column}) \cup d \cup n = (r \cup d \cup n) \cup {column}
    BY <1>2, <1>3
  <2> DEFINE W == TableOf(r \cup {column}, d, n, k, p)
  <2>3. /\ W.keys = k /\ W.parents = p
        /\ Columns(W) = (r \cup {column}) \cup d \cup n
        /\ Narrowed(W, column) =
             TableOf((r \cup {column}) \ {column}, d \ {column}, n \ {column}, k, p)
    BY DEF TableOf, Columns, Narrowed
  <2>4. IsTable(W)
    BY <1>4
  <2>5. Narrowed(W, column) = T
    BY <1>1, <2>2, <2>3
  <2>6. W.keys = T.keys /\ W.parents = T.parents /\ Columns(W) = Columns(T) \cup {column}
    BY <1>5, <2>2, <2>3
  <2> HIDE DEF W
  <2>7. Widened(T, column, class) = W
    BY <2>1, Zenon DEF W
  <2> QED
    BY <2>4, <2>5, <2>6, <2>7, Zenon
<1>7. CASE class = "defaulted"
  <2>1. Widened(T, column, class) = TableOf(r, d \cup {column}, n, k, p)
    BY <1>1, <1>7 DEF Widened, TableOf
  <2>2. /\ r \ {column} = r /\ (d \cup {column}) \ {column} = d /\ n \ {column} = n
        /\ r \cup (d \cup {column}) \cup n = (r \cup d \cup n) \cup {column}
    BY <1>2, <1>3
  <2> DEFINE W == TableOf(r, d \cup {column}, n, k, p)
  <2>3. /\ W.keys = k /\ W.parents = p
        /\ Columns(W) = r \cup (d \cup {column}) \cup n
        /\ Narrowed(W, column) =
             TableOf(r \ {column}, (d \cup {column}) \ {column}, n \ {column}, k, p)
    BY DEF TableOf, Columns, Narrowed
  <2>4. IsTable(W)
    BY <1>4
  <2>5. Narrowed(W, column) = T
    BY <1>1, <2>2, <2>3
  <2>6. W.keys = T.keys /\ W.parents = T.parents /\ Columns(W) = Columns(T) \cup {column}
    BY <1>5, <2>2, <2>3
  <2> HIDE DEF W
  <2>7. Widened(T, column, class) = W
    BY <2>1, Zenon DEF W
  <2> QED
    BY <2>4, <2>5, <2>6, <2>7, Zenon
<1>8. CASE class = "nullable"
  <2>1. Widened(T, column, class) = TableOf(r, d, n \cup {column}, k, p)
    BY <1>1, <1>8 DEF Widened, TableOf
  <2>2. /\ r \ {column} = r /\ d \ {column} = d /\ (n \cup {column}) \ {column} = n
        /\ r \cup d \cup (n \cup {column}) = (r \cup d \cup n) \cup {column}
    BY <1>2, <1>3
  <2> DEFINE W == TableOf(r, d, n \cup {column}, k, p)
  <2>3. /\ W.keys = k /\ W.parents = p
        /\ Columns(W) = r \cup d \cup (n \cup {column})
        /\ Narrowed(W, column) =
             TableOf(r \ {column}, d \ {column}, (n \cup {column}) \ {column}, k, p)
    BY DEF TableOf, Columns, Narrowed
  <2>4. IsTable(W)
    BY <1>4
  <2>5. Narrowed(W, column) = T
    BY <1>1, <2>2, <2>3
  <2>6. W.keys = T.keys /\ W.parents = T.parents /\ Columns(W) = Columns(T) \cup {column}
    BY <1>5, <2>2, <2>3
  <2> HIDE DEF W
  <2>7. Widened(T, column, class) = W
    BY <2>1, Zenon DEF W
  <2> QED
    BY <2>4, <2>5, <2>6, <2>7, Zenon
<1> QED
  BY <1>6, <1>7, <1>8

\* The tables as they are created, and what they refer to.
LEMMA FirstTables ==
  /\ DOMAIN AtFirst = DOMAIN CreatedBy
  /\ \A t \in DOMAIN CreatedBy : IsTable(AtFirst[t])
  /\ AtFirst.order_items.parents = {"orders"}
  /\ AtFirst.event_processing_attempts.parents = {"outbox_events"}
  /\ \A t \in DOMAIN CreatedBy \ {"order_items", "event_processing_attempts"} :
       AtFirst[t].parents = {}
  /\ "next_attempt_at" \notin Columns(AtFirst.outbox_events)
  /\ {"event_version", "correlation_id", "causation_id"}
       \cap Columns(AtFirst.dead_letter_events) = {}
<1>1. ASSUME NEW r, NEW n, NEW k, NEW p
      PROVE  IsTable(Table(r, n, k, p)) /\ Table(r, n, k, p).parents = p
  <2>1. Table(r, n, k, p) = TableOf(r, {}, n, k, p)
    BY DEF Table, TableOf
  <2>2. TableOf(r, {}, n, k, p).parents = p
    BY DEF TableOf
  <2> QED
    BY <2>1, <2>2 DEF IsTable
<1>2. ASSUME NEW name, NEW table PROVE Creating(name, table).up[1].table = table
  BY DEF Creating, CreateTable
<1>3. IsTable(OrderStatements[1].table) /\ OrderStatements[1].table.parents = {}
  BY <1>1 DEF OrderStatements, CreateTable, ById
<1>4. IsTable(OrderStatements[2].table) /\ OrderStatements[2].table.parents = {"orders"}
  BY <1>1 DEF OrderStatements, CreateTable, ById
<1>5. /\ IsTable(CreateInventoryItems.up[1].table)
      /\ CreateInventoryItems.up[1].table.parents = {}
  <2>1. CreateInventoryItems.up[1].table = 
          Table({"id", "sku", "name", "quantity_available", "unit_price_cents",
          "created_at"}, {}, {{"id"}, {"sku"}}, {})
    BY <1>2 DEF CreateInventoryItems
  <2> QED
    BY <1>1, <2>1
<1>6. /\ IsTable(CreateOutboxEvents.up[1].table)
      /\ CreateOutboxEvents.up[1].table.parents = {}
      /\ "next_attempt_at" \notin Columns(CreateOutboxEvents.up[1].table)
  <2>1. CreateOutboxEvents.up[1].table = 
          Table({"event_id", "event_type", "event_version", "aggregate_type",
          "aggregate_id", "correlation_id", "occurred_at", "payload", "status",
          "failure_count"}, {"causation_id", "published_at", "last_error"},
          {{"event_id"}}, {})
    BY <1>2 DEF CreateOutboxEvents
  <2> QED
    BY <1>1, <2>1 DEF Table, Columns
<1>7. /\ IsTable(CreateIdempotencyKeys.up[1].table)
      /\ CreateIdempotencyKeys.up[1].table.parents = {}
  <2>1. CreateIdempotencyKeys.up[1].table = 
          Table({"key", "request_hash", "expires_at", "created_at", "updated_at"},
          {"response_body", "status_code"}, {{"key"}}, {})
    BY <1>2 DEF CreateIdempotencyKeys
  <2> QED
    BY <1>1, <2>1
<1>8. /\ IsTable(CreateInboxEvents.up[1].table)
      /\ CreateInboxEvents.up[1].table.parents = {}
  <2>1. CreateInboxEvents.up[1].table = 
          Table({"consumer_name", "event_id", "processed_at"}, {}, {{"consumer_name",
          "event_id"}}, {})
    BY <1>2 DEF CreateInboxEvents
  <2> QED
    BY <1>1, <2>1
<1>9. /\ IsTable(CreatePayments.up[1].table)
      /\ CreatePayments.up[1].table.parents = {}
  <2>1. CreatePayments.up[1].table = 
          Table({"id", "order_id", "status", "amount_cents", "created_at"},
          {"failure_reason"}, ById, {})
    BY <1>2 DEF CreatePayments
  <2> QED
    BY <1>1, <2>1 DEF ById
<1>10. /\ IsTable(CreateInvoices.up[1].table)
      /\ CreateInvoices.up[1].table.parents = {}
  <2>1. CreateInvoices.up[1].table = 
          Table({"id", "order_id", "payment_id", "status", "amount_cents", "created_at"},
          {}, ById, {})
    BY <1>2 DEF CreateInvoices
  <2> QED
    BY <1>1, <2>1 DEF ById
<1>11. /\ IsTable(CreateNotifications.up[1].table)
      /\ CreateNotifications.up[1].table.parents = {}
  <2>1. CreateNotifications.up[1].table = 
          Table({"id", "order_id", "notification_type", "status", "payload", "sent_at",
          "created_at"}, {"recipient_email"}, ById, {})
    BY <1>2 DEF CreateNotifications
  <2> QED
    BY <1>1, <2>1 DEF ById
<1>12. /\ IsTable(CreateEventProcessingAttempts.up[1].table)
      /\ CreateEventProcessingAttempts.up[1].table.parents = {"outbox_events"}
  <2>1. CreateEventProcessingAttempts.up[1].table = 
          Table({"id", "event_id", "consumer_name", "attempt_number", "error",
          "attempted_at"}, {}, ById, {"outbox_events"})
    BY <1>2 DEF CreateEventProcessingAttempts
  <2> QED
    BY <1>1, <2>1 DEF ById
<1>13. /\ IsTable(CreateDeadLetterEvents.up[1].table)
      /\ CreateDeadLetterEvents.up[1].table.parents = {}
      /\ {"event_version", "correlation_id", "causation_id"}
           \cap Columns(CreateDeadLetterEvents.up[1].table) = {}
  <2>1. CreateDeadLetterEvents.up[1].table = 
          Table({"id", "event_id", "event_type", "aggregate_type", "aggregate_id",
          "consumer_name", "attempt_number", "error", "payload", "failed_at"},
          {"replayed_at"}, ById, {})
    BY <1>2 DEF CreateDeadLetterEvents
  <2> QED
    BY <1>1, <2>1 DEF ById, Table, Columns
<1> QED
  BY <1>3, <1>4, <1>5, <1>6, <1>7, <1>8, <1>9, <1>10, <1>11, <1>12, <1>13
  DEF AtFirst, CreatedBy

\* The three columns of revision 12, one by one, and back.
LEMMA ReplayableTable ==
  LET created == AtFirst.dead_letter_events
  IN  /\ IsTable(Versioned(created)) /\ IsTable(Correlated(created))
      /\ IsTable(Replayable(created))
      /\ Replayable(created).keys = created.keys /\ Replayable(created).parents = created.parents
      /\ "event_version" \notin Columns(created)
      /\ "correlation_id" \notin Columns(Versioned(created))
      /\ "causation_id" \notin Columns(Correlated(created))
      /\ "event_version" \in Columns(Versioned(created))
      /\ "correlation_id" \in Columns(Correlated(created))
      /\ Columns(Replayable(created)) =
           Columns(created) \cup {"event_version", "correlation_id", "causation_id"}
      /\ Narrowed(Replayable(created), "causation_id") = Correlated(created)
      /\ Narrowed(Correlated(created), "correlation_id") = Versioned(created)
      /\ Narrowed(Versioned(created), "event_version") = created
<1> DEFINE created == AtFirst.dead_letter_events
<1>1. /\ IsTable(created)
      /\ "event_version" \notin Columns(created) /\ "correlation_id" \notin Columns(created)
      /\ "causation_id" \notin Columns(created)
  <2>1. "dead_letter_events" \in DOMAIN CreatedBy
    BY DEF CreatedBy
  <2> QED
    BY <2>1, FirstTables
<1> HIDE DEF created
<1>2. /\ IsTable(Versioned(created))
      /\ Columns(Versioned(created)) = Columns(created) \cup {"event_version"}
      /\ Versioned(created).keys = created.keys /\ Versioned(created).parents = created.parents
      /\ Narrowed(Versioned(created), "event_version") = created
  BY <1>1, WidenedNarrowed DEF Versioned
<1>3. "correlation_id" \notin Columns(Versioned(created))
  BY <1>1, <1>2
<1>4. /\ IsTable(Correlated(created))
      /\ Columns(Correlated(created)) = Columns(Versioned(created)) \cup {"correlation_id"}
      /\ Correlated(created).keys = created.keys /\ Correlated(created).parents = created.parents
      /\ Narrowed(Correlated(created), "correlation_id") = Versioned(created)
  BY <1>2, <1>3, WidenedNarrowed DEF Correlated
<1>5. "causation_id" \notin Columns(Correlated(created))
  BY <1>1, <1>2, <1>4
<1>6. /\ IsTable(Replayable(created))
      /\ Columns(Replayable(created)) = Columns(Correlated(created)) \cup {"causation_id"}
      /\ Replayable(created).keys = created.keys /\ Replayable(created).parents = created.parents
      /\ Narrowed(Replayable(created), "causation_id") = Correlated(created)
  BY <1>4, <1>5, WidenedNarrowed DEF Replayable
<1>7. Columns(Replayable(created)) =
        Columns(created) \cup {"event_version", "correlation_id", "causation_id"}
  BY <1>2, <1>4, <1>6
<1>8. /\ "event_version" \in Columns(Versioned(created))
      /\ "correlation_id" \in Columns(Correlated(created))
  BY <1>2, <1>4
<1> QED
  BY <1>1, <1>2, <1>3, <1>4, <1>5, <1>6, <1>7, <1>8 DEF created

-----------------------------------------------------------------------------
(* What a statement does                                                   *)

WithTable(s, name, table) == [t \in DOMAIN s \cup {name} |-> IF t = name THEN table ELSE s[t]]

WithoutTable(s, name) == [t \in DOMAIN s \ {name} |-> s[t]]

WithAltered(s, name, table) == [s EXCEPT ![name] = table]

\* CREATE TABLE.
LEMMA CreateDone ==
  ASSUME NEW s, NEW F, NEW name, name \notin DOMAIN s,
         NEW table, table.parents \subseteq DOMAIN s
  PROVE  Executed(Database(s, F), CreateTable(name, table)) =
           Database(WithTable(s, name, table), F)
<1>1. Created(Database(s, F), name, table) = Database(WithTable(s, name, table), F)
  BY DEF Created, Database, WithTable
<1>2. Executed(Database(s, F), CreateTable(name, table)) = Created(Database(s, F), name, table)
  BY DEF Executed, Database, CreateTable
<1> QED
  BY <1>1, <1>2

\* DROP TABLE.
LEMMA DropDone ==
  ASSUME NEW s, NEW F, NEW name \in DOMAIN s,
         \A t \in DOMAIN s \ {name} : name \notin s[t].parents
  PROVE  Executed(Database(s, F), DropTable(name)) =
           Database(WithoutTable(s, name), F \ {name})
<1>1. Dropped(Database(s, F), name) = Database(WithoutTable(s, name), F \ {name})
  BY DEF Dropped, Database, Restrict, WithoutTable
<1>2. Executed(Database(s, F), DropTable(name)) = Dropped(Database(s, F), name)
  BY DEF Executed, Database, DropTable
<1> QED
  BY <1>1, <1>2

\* ADD COLUMN, if the rows there are can do without the column.
LEMMA AddDone ==
  ASSUME NEW s, NEW F, NEW name \in DOMAIN s, NEW column, NEW class,
         column \notin Columns(s[name]), class = "required" => name \notin F
  PROVE  Executed(Database(s, F), AddColumn(name, column, class)) =
           Database(WithAltered(s, name, Widened(s[name], column, class)), F)
<1>1. Executed(Database(s, F), AddColumn(name, column, class)) =
        Added(Database(s, F), name, column, class)
  BY DEF Executed, Database, AddColumn
<1> QED
  BY <1>1 DEF Added, Database, WithAltered

\* ADD COLUMN, if they cannot.
LEMMA AddRefused ==
  ASSUME NEW s, NEW F, NEW name \in F, NEW column
  PROVE  ~Executed(Database(s, F), AddColumn(name, column, "required")).ok
<1>1. Executed(Database(s, F), AddColumn(name, column, "required")) =
        Added(Database(s, F), name, column, "required")
  BY DEF Executed, Database, AddColumn
<1> QED
  BY <1>1 DEF Added, Database, Refused

\* DROP COLUMN.
LEMMA RemoveDone ==
  ASSUME NEW s, NEW F, NEW name \in DOMAIN s, NEW column, column \in Columns(s[name])
  PROVE  Executed(Database(s, F), DropColumn(name, column)) =
           Database(WithAltered(s, name, Narrowed(s[name], column)), F)
<1>1. Executed(Database(s, F), DropColumn(name, column)) =
        Removed(Database(s, F), name, column)
  BY DEF Executed, Database, DropColumn
<1> QED
  BY <1>1 DEF Removed, Database, WithAltered

\* What was refused stays refused.
LEMMA RefusedStays ==
  ASSUME NEW db, ~db.ok, NEW st
  PROVE  ~Executed(db, st).ok
  BY DEF Executed

-----------------------------------------------------------------------------
(* One revision up, one revision down                                      *)

\* Altering a table leaves its keys and what it refers to.
LEMMA TablesAt ==
  ASSUME NEW t \in DOMAIN CreatedBy, NEW n
  PROVE  /\ IsTable(TableAt(t, n))
         /\ TableAt(t, n).keys = AtFirst[t].keys /\ TableAt(t, n).parents = AtFirst[t].parents
<1>1. /\ "outbox_events" \in DOMAIN CreatedBy /\ "dead_letter_events" \in DOMAIN CreatedBy
      /\ IsTable(AtFirst[t]) /\ IsTable(AtFirst.outbox_events)
      /\ IsTable(AtFirst.dead_letter_events)
  <2>1. "outbox_events" \in DOMAIN CreatedBy /\ "dead_letter_events" \in DOMAIN CreatedBy
    BY DEF CreatedBy
  <2> QED
    BY <2>1, FirstTables
<1>2. CASE t = "outbox_events" /\ n >= 10
  <2>1. TableAt(t, n) = Widened(AtFirst.outbox_events, "next_attempt_at", "nullable")
    BY <1>2 DEF TableAt
  <2>2. "next_attempt_at" \notin Columns(AtFirst.outbox_events)
    BY FirstTables
  <2> QED
    BY <1>1, <1>2, <2>1, <2>2, WidenedNarrowed
<1>3. CASE t = "dead_letter_events" /\ n >= 12
  <2>1. TableAt(t, n) = Replayable(AtFirst.dead_letter_events)
    BY <1>3 DEF TableAt, Replayable
  <2> QED
    BY <1>1, <1>3, <2>1, ReplayableTable
<1>4. CASE ~(t = "outbox_events" /\ n >= 10) /\ ~(t = "dead_letter_events" /\ n >= 12)
  <2>1. TableAt(t, n) = AtFirst[t]
    BY <1>4 DEF TableAt
  <2> QED
    BY <1>1, <2>1
<1> QED
  BY <1>2, <1>3, <1>4

\* The tables between two revisions.
LEMMA NamesChange ==
  /\ NamesAt(0) = {} /\ NamesAt(1) = {"orders", "order_items"}
  /\ NamesAt(10) = NamesAt(9) /\ NamesAt(12) = NamesAt(11) /\ NamesAt(12) = DOMAIN CreatedBy
  /\ \A name \in DOMAIN CreatedBy :
       CreatedBy[name] # 1 =>
         /\ NamesAt(CreatedBy[name]) = NamesAt(CreatedBy[name] - 1) \cup {name}
         /\ name \notin NamesAt(CreatedBy[name] - 1)
  BY DEF NamesAt, CreatedBy

\* The revisions that create one table.
LEMMA OneTableEach ==
  ASSUME NEW name \in DOMAIN CreatedBy \ {"orders", "order_items"}
  PROVE  /\ CreatedBy[name] \in 2 .. 11 /\ CreatedBy[name] # 10
         /\ Revisions[CreatedBy[name]] = Creating(name, AtFirst[name])
<1>1. ASSUME NEW n, NEW table
      PROVE  Creating(n, table) = Creating(n, Creating(n, table).up[1].table)
  <2>1. Creating(n, table).up[1].table = table
    BY DEF Creating, CreateTable
  <2> QED
    BY <2>1
<1>2. CASE name = "inventory_items"
  <2>1. CreatedBy[name] = 2 /\ AtFirst[name] = CreateInventoryItems.up[1].table
    BY <1>2 DEF CreatedBy, AtFirst
  <2> QED
    BY <1>1, <1>2, <2>1 DEF CreateInventoryItems, Revisions
<1>3. CASE name = "outbox_events"
  <2>1. CreatedBy[name] = 3 /\ AtFirst[name] = CreateOutboxEvents.up[1].table
    BY <1>3 DEF CreatedBy, AtFirst
  <2> QED
    BY <1>1, <1>3, <2>1 DEF CreateOutboxEvents, Revisions
<1>4. CASE name = "idempotency_keys"
  <2>1. CreatedBy[name] = 4 /\ AtFirst[name] = CreateIdempotencyKeys.up[1].table
    BY <1>4 DEF CreatedBy, AtFirst
  <2> QED
    BY <1>1, <1>4, <2>1 DEF CreateIdempotencyKeys, Revisions
<1>5. CASE name = "inbox_events"
  <2>1. CreatedBy[name] = 5 /\ AtFirst[name] = CreateInboxEvents.up[1].table
    BY <1>5 DEF CreatedBy, AtFirst
  <2> QED
    BY <1>1, <1>5, <2>1 DEF CreateInboxEvents, Revisions
<1>6. CASE name = "payments"
  <2>1. CreatedBy[name] = 6 /\ AtFirst[name] = CreatePayments.up[1].table
    BY <1>6 DEF CreatedBy, AtFirst
  <2> QED
    BY <1>1, <1>6, <2>1 DEF CreatePayments, Revisions
<1>7. CASE name = "invoices"
  <2>1. CreatedBy[name] = 7 /\ AtFirst[name] = CreateInvoices.up[1].table
    BY <1>7 DEF CreatedBy, AtFirst
  <2> QED
    BY <1>1, <1>7, <2>1 DEF CreateInvoices, Revisions
<1>8. CASE name = "notifications"
  <2>1. CreatedBy[name] = 8 /\ AtFirst[name] = CreateNotifications.up[1].table
    BY <1>8 DEF CreatedBy, AtFirst
  <2> QED
    BY <1>1, <1>8, <2>1 DEF CreateNotifications, Revisions
<1>9. CASE name = "event_processing_attempts"
  <2>1. CreatedBy[name] = 9 /\ AtFirst[name] = CreateEventProcessingAttempts.up[1].table
    BY <1>9 DEF CreatedBy, AtFirst
  <2> QED
    BY <1>1, <1>9, <2>1 DEF CreateEventProcessingAttempts, Revisions
<1>10. CASE name = "dead_letter_events"
  <2>1. CreatedBy[name] = 11 /\ AtFirst[name] = CreateDeadLetterEvents.up[1].table
    BY <1>10 DEF CreatedBy, AtFirst
  <2> QED
    BY <1>1, <1>10, <2>1 DEF CreateDeadLetterEvents, Revisions
<1>11. DOMAIN CreatedBy \ {"orders", "order_items"} =
         {"inventory_items", "outbox_events", "idempotency_keys", "inbox_events", "payments",
          "invoices", "notifications", "event_processing_attempts", "dead_letter_events"}
  BY DEF CreatedBy
<1> QED
  BY <1>2, <1>3, <1>4, <1>5, <1>6, <1>7, <1>8, <1>9, <1>10, <1>11

\* Creating a table, and dropping it, between two revisions.
LEMMA OneTableMore ==
  ASSUME NEW name \in DOMAIN CreatedBy \ {"orders", "order_items"}, NEW F
  PROVE  LET n == CreatedBy[name]
         IN  /\ After(Database(SchemaAt(n - 1), F), Revisions[n].up) = Database(SchemaAt(n), F)
             /\ After(Database(SchemaAt(n), F), Revisions[n].down) =
                  Database(SchemaAt(n - 1), F \ {name})
<1> DEFINE n == CreatedBy[name]
           before == SchemaAt(n - 1)
           after == SchemaAt(n)
           table == AtFirst[name]
<1>1. n \in 2 .. 11 /\ n # 10 /\ Revisions[n] = Creating(name, table)
  BY OneTableEach
<1>2. /\ NamesAt(n) = NamesAt(n - 1) \cup {name} /\ name \notin NamesAt(n - 1)
      /\ DOMAIN before = NamesAt(n - 1) /\ DOMAIN after = NamesAt(n)
      /\ NamesAt(n - 1) \subseteq DOMAIN CreatedBy
  <2>1. name \in DOMAIN CreatedBy /\ CreatedBy[name] # 1
    BY <1>1
  <2> QED
    BY <2>1, NamesChange, Zenon DEF SchemaAt, NamesAt
<1>3. \A t : TableAt(t, n) = TableAt(t, n - 1)
  BY <1>1 DEF TableAt
<1>4. TableAt(name, n) = table
  BY <1>1, <1>3 DEF TableAt, CreatedBy
<1>5. table.parents \subseteq NamesAt(n - 1)
  BY <1>1, FirstTables DEF NamesAt, CreatedBy
<1>6. \A t \in NamesAt(n - 1) : name \notin TableAt(t, n).parents
  <2> SUFFICES ASSUME NEW t \in NamesAt(n - 1) PROVE name \notin AtFirst[t].parents
    BY <1>2, TablesAt
  <2>1. t \in DOMAIN CreatedBy /\ CreatedBy[t] <= n - 1
    BY DEF NamesAt
  <2>2. AtFirst[t].parents \subseteq {"orders", "outbox_events"}
    BY <2>1, FirstTables
  <2>3. CASE name = "outbox_events"
    <3>1. n = 3 /\ t # "event_processing_attempts"
      BY <2>1, <2>3 DEF CreatedBy
    <3> QED
      BY <2>1, <2>3, <3>1, FirstTables
  <2> QED
    BY <2>2, <2>3
<1>7. After(Database(before, F), Revisions[n].up) = Database(after, F)
  <2>1. Revisions[n].up = <<CreateTable(name, table)>>
    BY <1>1 DEF Creating
  <2>2. WithTable(before, name, table) = after
    BY <1>2, <1>3, <1>4 DEF SchemaAt, WithTable
  <2>3. Executed(Database(before, F), CreateTable(name, table)) = Database(after, F)
    <3>1. name \notin DOMAIN before /\ table.parents \subseteq DOMAIN before
      BY <1>2, <1>5
    <3> HIDE DEF n, before, after, table
    <3> QED
      BY <2>2, <3>1, CreateDone
  <2> QED
    BY <2>1, <2>3, AfterOne
<1>8. After(Database(after, F), Revisions[n].down) = Database(before, F \ {name})
  <2>1. Revisions[n].down = <<DropTable(name)>>
    BY <1>1 DEF Creating
  <2>2. WithoutTable(after, name) = before
    BY <1>2, <1>3 DEF SchemaAt, WithoutTable
  <2>3. \A t \in DOMAIN after \ {name} : name \notin after[t].parents
    BY <1>2, <1>6 DEF SchemaAt
  <2>4. Executed(Database(after, F), DropTable(name)) = Database(before, F \ {name})
    <3>1. name \in DOMAIN after
      BY <1>2
    <3> HIDE DEF n, before, after, table
    <3> QED
      BY <2>2, <2>3, <3>1, DropDone
  <2> QED
    BY <2>1, <2>4, AfterOne
<1> QED
  BY <1>7, <1>8

\* Revision 1 makes two tables, the second of which refers to the first.
LEMMA OrdersMore ==
  ASSUME NEW F
  PROVE  /\ After(Database(SchemaAt(0), F), Revisions[1].up) = Database(SchemaAt(1), F)
         /\ After(Database(SchemaAt(1), F), Revisions[1].down) =
              Database(SchemaAt(0), F \ {"orders", "order_items"})
<1> DEFINE orders == AtFirst.orders
           items == AtFirst.order_items
           one == WithTable(SchemaAt(0), "orders", orders)
<1>1. /\ Revisions[1].up = <<CreateTable("orders", orders), CreateTable("order_items", items)>>
      /\ Revisions[1].down = <<DropTable("order_items"), DropTable("orders")>>
  <2>1. Revisions[1] = CreateOrders
    BY DEF Revisions
  <2>2. orders = OrderStatements[1].table /\ items = OrderStatements[2].table
    BY DEF AtFirst
  <2>3. OrderStatements = <<CreateTable("orders", OrderStatements[1].table),
                            CreateTable("order_items", OrderStatements[2].table)>>
    BY DEF OrderStatements, CreateTable
  <2> QED
    BY <2>1, <2>2, <2>3 DEF CreateOrders
<1>2. orders.parents = {} /\ items.parents = {"orders"}
  BY FirstTables DEF CreatedBy
<1>3. /\ DOMAIN SchemaAt(0) = {} /\ DOMAIN one = {"orders"} /\ one["orders"] = orders
      /\ DOMAIN SchemaAt(1) = {"orders", "order_items"}
      /\ SchemaAt(1)["orders"] = orders /\ SchemaAt(1)["order_items"] = items
  BY NamesChange DEF SchemaAt, WithTable, TableAt
<1>4. WithTable(one, "order_items", items) = SchemaAt(1)
  BY <1>3 DEF SchemaAt, WithTable
<1>5. /\ WithoutTable(SchemaAt(1), "order_items") = one
      /\ WithoutTable(one, "orders") = SchemaAt(0)
  BY <1>3, NamesChange DEF SchemaAt, WithTable, WithoutTable
<1> HIDE DEF orders, items, one
<1>6. /\ Executed(Database(SchemaAt(0), F), CreateTable("orders", orders)) = Database(one, F)
      /\ Executed(Database(one, F), CreateTable("order_items", items)) =
           Database(SchemaAt(1), F)
  <2>1. Executed(Database(SchemaAt(0), F), CreateTable("orders", orders)) = Database(one, F)
    <3>1. "orders" \notin DOMAIN SchemaAt(0) /\ orders.parents \subseteq DOMAIN SchemaAt(0)
      BY <1>2, <1>3
    <3> QED
      BY <3>1, CreateDone, Zenon DEF one
  <2>2. Executed(Database(one, F), CreateTable("order_items", items)) =
          Database(WithTable(one, "order_items", items), F)
    BY <1>2, <1>3, CreateDone
  <2> QED
    BY <1>4, <2>1, <2>2
<1>7. ASSUME NEW G
      PROVE  /\ Executed(Database(SchemaAt(1), G), DropTable("order_items")) =
                  Database(one, G \ {"order_items"})
             /\ Executed(Database(one, G), DropTable("orders")) =
                  Database(SchemaAt(0), G \ {"orders"})
  BY <1>2, <1>3, <1>5, DropDone
<1>8. (F \ {"order_items"}) \ {"orders"} = F \ {"orders", "order_items"}
  OBVIOUS
<1>9. After(Database(SchemaAt(0), F), Revisions[1].up) = Database(SchemaAt(1), F)
  <2>1. After(Database(SchemaAt(0), F), Revisions[1].up) =
          Executed(Executed(Database(SchemaAt(0), F), CreateTable("orders", orders)),
                   CreateTable("order_items", items))
    <3>1. After(Database(SchemaAt(0), F),
                <<CreateTable("orders", orders), CreateTable("order_items", items)>>) =
            Executed(Executed(Database(SchemaAt(0), F), CreateTable("orders", orders)),
                     CreateTable("order_items", items))
      BY AfterTwo
    <3> QED
      BY <1>1, <3>1, Zenon
  <2> QED
    BY <1>6, <2>1, Zenon
<1>10. After(Database(SchemaAt(1), F), Revisions[1].down) =
         Database(SchemaAt(0), F \ {"orders", "order_items"})
  <2>1. After(Database(SchemaAt(1), F), Revisions[1].down) =
          Executed(Executed(Database(SchemaAt(1), F), DropTable("order_items")),
                   DropTable("orders"))
    <3>1. After(Database(SchemaAt(1), F), <<DropTable("order_items"), DropTable("orders")>>) =
            Executed(Executed(Database(SchemaAt(1), F), DropTable("order_items")),
                     DropTable("orders"))
      BY AfterTwo
    <3> QED
      BY <1>1, <3>1, Zenon
  <2>2. Executed(Executed(Database(SchemaAt(1), F), DropTable("order_items")),
                 DropTable("orders")) =
          Database(SchemaAt(0), (F \ {"order_items"}) \ {"orders"})
    BY <1>7, Zenon
  <2> QED
    BY <1>8, <2>1, <2>2, Zenon
<1> QED
  BY <1>9, <1>10

\* Revision 10 adds a column that may be NULL.
LEMMA NextAttemptMore ==
  ASSUME NEW F
  PROVE  /\ After(Database(SchemaAt(9), F), Revisions[10].up) = Database(SchemaAt(10), F)
         /\ After(Database(SchemaAt(10), F), Revisions[10].down) = Database(SchemaAt(9), F)
<1> DEFINE outbox == AtFirst.outbox_events
           wide == Widened(outbox, "next_attempt_at", "nullable")
<1>1. /\ Revisions[10].up = <<AddColumn("outbox_events", "next_attempt_at", "nullable")>>
      /\ Revisions[10].down = <<DropColumn("outbox_events", "next_attempt_at")>>
  BY DEF Revisions, AddOutboxNextAttemptAt
<1>2. /\ "outbox_events" \in NamesAt(9) /\ NamesAt(10) = NamesAt(9)
      /\ DOMAIN SchemaAt(9) = NamesAt(9) /\ DOMAIN SchemaAt(10) = NamesAt(10)
      /\ SchemaAt(9)["outbox_events"] = outbox /\ SchemaAt(10)["outbox_events"] = wide
      /\ \A t \in NamesAt(9) \ {"outbox_events"} : SchemaAt(10)[t] = SchemaAt(9)[t]
  <2>1. "outbox_events" \in NamesAt(9) /\ NamesAt(10) = NamesAt(9)
    BY NamesChange DEF NamesAt, CreatedBy
  <2> QED
    BY <2>1 DEF SchemaAt, TableAt
<1>3. "next_attempt_at" \notin Columns(outbox) /\ IsTable(outbox)
  BY FirstTables DEF CreatedBy
<1>4. Narrowed(wide, "next_attempt_at") = outbox /\ "next_attempt_at" \in Columns(wide)
  BY <1>3, WidenedNarrowed
<1>5. /\ WithAltered(SchemaAt(9), "outbox_events", wide) = SchemaAt(10)
      /\ WithAltered(SchemaAt(10), "outbox_events", outbox) = SchemaAt(9)
  BY <1>2 DEF SchemaAt, WithAltered
<1> HIDE DEF outbox
<1>6. Executed(Database(SchemaAt(9), F),
               AddColumn("outbox_events", "next_attempt_at", "nullable")) =
        Database(SchemaAt(10), F)
  BY <1>2, <1>3, <1>5, AddDone
<1>7. Executed(Database(SchemaAt(10), F), DropColumn("outbox_events", "next_attempt_at")) =
        Database(SchemaAt(9), F)
  BY <1>2, <1>4, <1>5, RemoveDone
<1> QED
  BY <1>1, <1>6, <1>7, AfterOne

\* Revision 12 adds three columns; the second must be given, and a table with rows does
\* not take it.
LEMMA ReplayFieldsMore ==
  ASSUME NEW F
  PROVE  /\ "dead_letter_events" \notin F =>
              After(Database(SchemaAt(11), F), Revisions[12].up) = Database(SchemaAt(12), F)
         /\ "dead_letter_events" \in F =>
              ~After(Database(SchemaAt(11), F), Revisions[12].up).ok
         /\ After(Database(SchemaAt(12), F), Revisions[12].down) = Database(SchemaAt(11), F)
<1> DEFINE d == "dead_letter_events"
           dead == AtFirst.dead_letter_events
           versioned == WithAltered(SchemaAt(11), d, Versioned(dead))
           correlated == WithAltered(SchemaAt(11), d, Correlated(dead))
<1>1. /\ Revisions[12].up = <<AddColumn(d, "event_version", "defaulted"),
                              AddColumn(d, "correlation_id", "required"),
                              AddColumn(d, "causation_id", "nullable")>>
      /\ Revisions[12].down = <<DropColumn(d, "causation_id"), DropColumn(d, "correlation_id"),
                                DropColumn(d, "event_version")>>
  BY DEF Revisions, AddDeadLetterReplayFields, ReplayFields
<1>2. /\ d \in NamesAt(11) /\ NamesAt(12) = NamesAt(11)
      /\ DOMAIN SchemaAt(11) = NamesAt(11) /\ DOMAIN SchemaAt(12) = NamesAt(12)
      /\ SchemaAt(11)[d] = dead /\ SchemaAt(12)[d] = Replayable(dead)
      /\ \A t \in NamesAt(11) \ {d} : SchemaAt(12)[t] = SchemaAt(11)[t]
  <2>1. d \in NamesAt(11) /\ NamesAt(12) = NamesAt(11)
    BY NamesChange DEF NamesAt, CreatedBy
  <2> QED
    BY <2>1 DEF SchemaAt, TableAt
<1>3. /\ DOMAIN versioned = NamesAt(11) /\ versioned[d] = Versioned(dead)
      /\ DOMAIN correlated = NamesAt(11) /\ correlated[d] = Correlated(dead)
      /\ \A t \in NamesAt(11) \ {d} :
           versioned[t] = SchemaAt(11)[t] /\ correlated[t] = SchemaAt(11)[t]
  BY <1>2 DEF WithAltered
<1>4. /\ WithAltered(versioned, d, Correlated(dead)) = correlated
      /\ WithAltered(correlated, d, Replayable(dead)) = SchemaAt(12)
      /\ WithAltered(SchemaAt(12), d, Correlated(dead)) = correlated
      /\ WithAltered(correlated, d, Versioned(dead)) = versioned
      /\ WithAltered(versioned, d, dead) = SchemaAt(11)
  BY <1>2 DEF SchemaAt, WithAltered
<1>5. /\ "event_version" \notin Columns(dead)
      /\ "correlation_id" \notin Columns(Versioned(dead))
      /\ "causation_id" \notin Columns(Correlated(dead))
      /\ Narrowed(Replayable(dead), "causation_id") = Correlated(dead)
      /\ Narrowed(Correlated(dead), "correlation_id") = Versioned(dead)
      /\ Narrowed(Versioned(dead), "event_version") = dead
  BY ReplayableTable
<1>6. /\ "causation_id" \in Columns(Replayable(dead))
      /\ "correlation_id" \in Columns(Correlated(dead))
      /\ "event_version" \in Columns(Versioned(dead))
  BY ReplayableTable
<1> HIDE DEF dead, versioned, correlated
<1>7. Executed(Database(SchemaAt(11), F), AddColumn(d, "event_version", "defaulted")) =
        Database(versioned, F)
  <2>1. Widened(SchemaAt(11)[d], "event_version", "defaulted") = Versioned(dead)
    BY <1>2, Zenon DEF Versioned
  <2>2. /\ "event_version" \notin Columns(SchemaAt(11)[d]) /\ d \in DOMAIN SchemaAt(11)
        /\ "defaulted" = "required" => d \notin F
    BY <1>2, <1>5
  <2>3. Executed(Database(SchemaAt(11), F), AddColumn(d, "event_version", "defaulted")) =
          Database(WithAltered(SchemaAt(11), d,
                               Widened(SchemaAt(11)[d], "event_version", "defaulted")), F)
    BY <2>2, AddDone
  <2> QED
    BY <2>1, <2>3, Zenon DEF versioned
<1>8. /\ d \notin F =>
           Executed(Database(versioned, F), AddColumn(d, "correlation_id", "required")) =
             Database(correlated, F)
      /\ d \in F =>
           ~Executed(Database(versioned, F), AddColumn(d, "correlation_id", "required")).ok
  <2>1. ASSUME d \notin F
        PROVE  Executed(Database(versioned, F), AddColumn(d, "correlation_id", "required")) =
                 Database(correlated, F)
    <3>1. Widened(versioned[d], "correlation_id", "required") = Correlated(dead)
      BY <1>3, Zenon DEF Correlated
    <3>2. /\ "correlation_id" \notin Columns(versioned[d]) /\ d \in DOMAIN versioned
          /\ "required" = "required" => d \notin F
      BY <1>2, <1>3, <1>5, <2>1
    <3>3. Executed(Database(versioned, F), AddColumn(d, "correlation_id", "required")) =
            Database(WithAltered(versioned, d,
                                 Widened(versioned[d], "correlation_id", "required")), F)
      BY <3>2, AddDone
    <3> QED
      BY <1>4, <3>1, <3>3, Zenon
  <2> QED
    BY <2>1, AddRefused
<1>9. Executed(Database(correlated, F), AddColumn(d, "causation_id", "nullable")) =
        Database(SchemaAt(12), F)
  <2>1. Widened(correlated[d], "causation_id", "nullable") = Replayable(dead)
    BY <1>3, Zenon DEF Replayable
  <2>2. /\ "causation_id" \notin Columns(correlated[d]) /\ d \in DOMAIN correlated
        /\ "nullable" = "required" => d \notin F
    BY <1>2, <1>3, <1>5
  <2>3. Executed(Database(correlated, F), AddColumn(d, "causation_id", "nullable")) =
          Database(WithAltered(correlated, d,
                               Widened(correlated[d], "causation_id", "nullable")), F)
    BY <2>2, AddDone
  <2> QED
    BY <1>4, <2>1, <2>3, Zenon
<1>10. /\ Executed(Database(SchemaAt(12), F), DropColumn(d, "causation_id")) =
            Database(correlated, F)
       /\ Executed(Database(correlated, F), DropColumn(d, "correlation_id")) =
            Database(versioned, F)
       /\ Executed(Database(versioned, F), DropColumn(d, "event_version")) =
            Database(SchemaAt(11), F)
  BY <1>2, <1>3, <1>4, <1>5, <1>6, RemoveDone
<1>11. /\ After(Database(SchemaAt(11), F), Revisions[12].up) =
            Executed(Executed(Executed(Database(SchemaAt(11), F),
                                       AddColumn(d, "event_version", "defaulted")),
                              AddColumn(d, "correlation_id", "required")),
                     AddColumn(d, "causation_id", "nullable"))
       /\ After(Database(SchemaAt(12), F), Revisions[12].down) =
            Executed(Executed(Executed(Database(SchemaAt(12), F), DropColumn(d, "causation_id")),
                              DropColumn(d, "correlation_id")),
                     DropColumn(d, "event_version"))
  <2>1. ASSUME NEW db, NEW a, NEW b, NEW c, NEW sts, sts = <<a, b, c>>
        PROVE  After(db, sts) = Executed(Executed(Executed(db, a), b), c)
    BY <2>1, AfterThree
  <2> QED
    BY <1>1, <2>1
<1>12. CASE d \notin F
  BY <1>7, <1>8, <1>9, <1>10, <1>11, <1>12
<1>13. CASE d \in F
  BY <1>7, <1>8, <1>10, <1>11, <1>13, RefusedStays
<1> QED
  BY <1>12, <1>13

\* upgrade() of the next revision: only revision 12 may be refused.
LEMMA OneUp ==
  ASSUME NEW n \in 0 .. 11, NEW F
  PROVE  /\ ~(n = 11 /\ "dead_letter_events" \in F) =>
              After(Database(SchemaAt(n), F), Revisions[n + 1].up) = Database(SchemaAt(n + 1), F)
         /\ n = 11 /\ "dead_letter_events" \in F =>
              ~After(Database(SchemaAt(n), F), Revisions[n + 1].up).ok
<1>1. CASE n = 0
  <2>1. n + 1 = 1 /\ n # 11
    BY <1>1
  <2> QED
    BY <1>1, <2>1, OrdersMore, Zenon
<1>2. CASE n = 9
  BY <1>2, NextAttemptMore
<1>3. CASE n = 11
  BY <1>3, ReplayFieldsMore
<1>4. CASE n \notin {0, 9, 11}
  <2>1. PICK name \in DOMAIN CreatedBy \ {"orders", "order_items"} : CreatedBy[name] = n + 1
    BY <1>4 DEF CreatedBy
  <2>2. (n + 1) - 1 = n
    OBVIOUS
  <2> QED
    BY <1>4, <2>1, <2>2, OneTableMore
<1> QED
  BY <1>1, <1>2, <1>3, <1>4

\* downgrade() of a revision; the rows of the tables it drops are gone.
LEMMA OneDown ==
  ASSUME NEW n \in 0 .. 11, NEW F, F \subseteq NamesAt(n + 1)
  PROVE  After(Database(SchemaAt(n + 1), F), Revisions[n + 1].down) =
           Database(SchemaAt(n), F \cap NamesAt(n))
<1>1. CASE n = 0
  <2>1. F \ {"orders", "order_items"} = F \cap NamesAt(0)
    BY <1>1, NamesChange
  <2> QED
    BY <1>1, <2>1, OrdersMore
<1>2. CASE n = 9
  <2>1. F \cap NamesAt(9) = F
    BY <1>2, NamesChange
  <2> QED
    BY <1>2, <2>1, NextAttemptMore
<1>3. CASE n = 11
  <2>1. F \cap NamesAt(11) = F
    BY <1>3, NamesChange
  <2> QED
    BY <1>3, <2>1, ReplayFieldsMore
<1>4. CASE n \notin {0, 9, 11}
  <2>1. PICK name \in DOMAIN CreatedBy \ {"orders", "order_items"} : CreatedBy[name] = n + 1
    BY <1>4 DEF CreatedBy
  <2>2. (n + 1) - 1 = n
    OBVIOUS
  <2>3. F \ {name} = F \cap NamesAt(n)
    <3>1. NamesAt(n + 1) = NamesAt(n) \cup {name} /\ name \notin NamesAt(n)
      BY <1>4, <2>1, <2>2, NamesChange
    <3> QED
      BY <3>1
  <2>4. After(Database(SchemaAt(n + 1), F), Revisions[n + 1].down) =
          Database(SchemaAt(n), F \ {name})
    BY <2>1, <2>2, OneTableMore
  <2> QED
    BY <2>3, <2>4
<1> QED
  BY <1>1, <1>2, <1>3, <1>4

-----------------------------------------------------------------------------
(* Any way from one revision to another                                    *)

\* alembic upgrade, over any number of revisions.
LEMMA Upgraded ==
  ASSUME NEW m \in 0 .. 12, NEW F, F \subseteq NamesAt(m)
  PROVE  \A n \in m .. 12 :
           /\ ~(m = 11 /\ n = 12 /\ "dead_letter_events" \in F) =>
                After(Database(SchemaAt(m), F), Path(m, n)) = Database(SchemaAt(n), F)
           /\ m = 11 /\ n = 12 /\ "dead_letter_events" \in F =>
                ~After(Database(SchemaAt(m), F), Path(m, n)).ok
<1> DEFINE from == Database(SchemaAt(m), F)
           Blocked(n) == m = 11 /\ n = 12 /\ "dead_letter_events" \in F
           Good(n) == /\ ~Blocked(n) => After(from, Path(m, n)) = Database(SchemaAt(n), F)
                      /\ Blocked(n) => ~After(from, Path(m, n)).ok
           S == {k \in Nat : m + k <= 12 => Good(m + k)}
<1>1. 0 \in S
  <2>1. Path(m, m) = <<>>
    <3>1. 0 \in 0 .. 11
      OBVIOUS
    <3> QED
      BY <3>1, PathStep
  <2>2. After(from, Path(m, m)) = from
    BY <2>1, AfterNone
  <2>3. m + 0 = m /\ ~Blocked(m)
    OBVIOUS
  <2> QED
    BY <2>2, <2>3
<1>2. ASSUME NEW k \in S PROVE k + 1 \in S
  <2> SUFFICES ASSUME m + k + 1 <= 12 PROVE Good(m + k + 1)
    OBVIOUS
  <2> DEFINE n == m + k
  <2>1. n \in 0 .. 11 /\ m <= n /\ Good(n) /\ m + (k + 1) = n + 1
    OBVIOUS
  <2>2. ~Blocked(n)
    BY <2>1
  <2>3. After(from, Path(m, n)) = Database(SchemaAt(n), F)
    BY <2>1, <2>2
  <2>4. After(from, Path(m, n + 1)) = After(Database(SchemaAt(n), F), Revisions[n + 1].up)
    <3> HIDE DEF n
    <3>1. Path(m, n) \in Seq(Statements) /\ Path(m, n + 1) = Path(m, n) \o Revisions[n + 1].up
      BY <2>1, PathStep
    <3>2. Revisions[n + 1].up \in Seq(Statements)
      <4>1. n + 1 \in 1 .. 12
        BY <2>1
      <4> QED
        BY <4>1, Scripts
    <3>3. After(from, Path(m, n) \o Revisions[n + 1].up) =
            After(After(from, Path(m, n)), Revisions[n + 1].up)
      BY <3>1, <3>2, AfterConcat
    <3> QED
      BY <2>3, <3>1, <3>3, Zenon
  <2>5. n = 11 /\ "dead_letter_events" \in F => m = 11
    <3>1. "dead_letter_events" \in F => m >= 11
      BY DEF NamesAt, CreatedBy
    <3> QED
      BY <3>1, <2>1
  <2>6. Good(n + 1)
    <3> HIDE DEF n
    <3> QED
      BY <2>1, <2>4, <2>5, OneUp
  <2> QED
    BY <2>1, <2>6
<1>3. Nat \subseteq S
  <2> HIDE DEF S
  <2> QED
    BY <1>1, <1>2, Climb
<1> QED
  <2> SUFFICES ASSUME NEW n \in m .. 12 PROVE Good(n)
    OBVIOUS
  <2>1. n - m \in Nat /\ m + (n - m) = n
    OBVIOUS
  <2> QED
    BY <1>3, <2>1

\* alembic downgrade, over any number of revisions.
LEMMA Downgraded ==
  ASSUME NEW m \in 0 .. 12, NEW F, F \subseteq NamesAt(m)
  PROVE  \A n \in 0 .. m :
           After(Database(SchemaAt(m), F), Path(m, n)) = Database(SchemaAt(n), F \cap NamesAt(n))
<1> DEFINE from == Database(SchemaAt(m), F)
           Good(n) == After(from, Path(m, n)) = Database(SchemaAt(n), F \cap NamesAt(n))
           S == {k \in Nat : k <= m => Good(m - k)}
<1>1. 0 \in S
  <2>1. Path(m, m) = <<>>
    <3>1. 0 \in 0 .. 11
      OBVIOUS
    <3> QED
      BY <3>1, PathStep
  <2>2. After(from, Path(m, m)) = from
    BY <2>1, AfterNone
  <2>3. m - 0 = m /\ F \cap NamesAt(m) = F
    OBVIOUS
  <2> QED
    BY <2>2, <2>3
<1>2. ASSUME NEW k \in S PROVE k + 1 \in S
  <2> SUFFICES ASSUME k + 1 <= m PROVE Good(m - (k + 1))
    OBVIOUS
  <2> DEFINE n == m - (k + 1)
  <2>1. n \in 0 .. 11 /\ n < m /\ m - k = n + 1 /\ Good(n + 1)
    <3>1. n \in 0 .. 11 /\ n < m /\ m - k = n + 1 /\ k <= m
      OBVIOUS
    <3>2. Good(m - k)
      BY <3>1
    <3> QED
      BY <3>1, <3>2
  <2>2. After(from, Path(m, n)) =
          After(Database(SchemaAt(n + 1), F \cap NamesAt(n + 1)), Revisions[n + 1].down)
    <3>1. After(from, Path(m, n + 1)) = Database(SchemaAt(n + 1), F \cap NamesAt(n + 1))
      BY <2>1
    <3> HIDE DEF n
    <3>2. Path(m, n + 1) \in Seq(Statements) /\ Path(m, n) = Path(m, n + 1) \o Revisions[n + 1].down
      BY <2>1, PathStep
    <3>3. Revisions[n + 1].down \in Seq(Statements)
      <4>1. n + 1 \in 1 .. 12
        BY <2>1
      <4> QED
        BY <4>1, Scripts
    <3> QED
      BY <3>1, <3>2, <3>3, AfterConcat
  <2>3. (F \cap NamesAt(n + 1)) \cap NamesAt(n) = F \cap NamesAt(n)
    <3>1. NamesAt(n) \subseteq NamesAt(n + 1)
      BY <2>1 DEF NamesAt, CreatedBy
    <3> QED
      BY <3>1
  <2>4. Good(n)
    <3> HIDE DEF n
    <3>1. After(Database(SchemaAt(n + 1), F \cap NamesAt(n + 1)), Revisions[n + 1].down) =
            Database(SchemaAt(n), (F \cap NamesAt(n + 1)) \cap NamesAt(n))
      BY <2>1, OneDown
    <3> QED
      BY <2>2, <2>3, <3>1
  <2> QED
    BY <2>4
<1>3. Nat \subseteq S
  <2> HIDE DEF S
  <2> QED
    BY <1>1, <1>2, Climb
<1> QED
  <2> SUFFICES ASSUME NEW n \in 0 .. m PROVE Good(n)
    OBVIOUS
  <2>1. m - n \in Nat /\ m - (m - n) = n /\ m - n <= m
    OBVIOUS
  <2> QED
    BY <1>3, <2>1

-----------------------------------------------------------------------------
(* The head and the models                                                 *)

\* Nine tables are still what their model says, as they were created.
LEMMA UnalteredTables ==
  ASSUME NEW t \in DOMAIN CreatedBy \ {"outbox_events", "dead_letter_events"}
  PROVE  TableAt(t, 12) = Models[t]
<1>0. ASSUME NEW name, NEW table PROVE Creating(name, table).up[1].table = table
  BY DEF Creating, CreateTable
<1>1. TableAt(t, 12) = AtFirst[t]
  BY DEF TableAt
<1>2. /\ AtFirst.orders = Models.orders /\ AtFirst.order_items = Models.order_items
  BY DEF AtFirst, Models, OrderModels, OrderStatements, CreateTable
<1>3. AtFirst.inventory_items = Models.inventory_items
  BY <1>0 DEF AtFirst, Models, InventoryModels, CreateInventoryItems
<1>4. AtFirst.idempotency_keys = Models.idempotency_keys
  BY <1>0 DEF AtFirst, Models, IdempotencyModels, CreateIdempotencyKeys
<1>5. AtFirst.inbox_events = Models.inbox_events
  BY <1>0 DEF AtFirst, Models, IdempotencyModels, CreateInboxEvents
<1>6. AtFirst.payments = Models.payments
  BY <1>0 DEF AtFirst, Models, PaymentModels, CreatePayments
<1>7. AtFirst.invoices = Models.invoices
  BY <1>0 DEF AtFirst, Models, InvoiceModels, CreateInvoices
<1>8. AtFirst.notifications = Models.notifications
  BY <1>0 DEF AtFirst, Models, NotificationModels, CreateNotifications
<1>9. AtFirst.event_processing_attempts = Models.event_processing_attempts
  BY <1>0 DEF AtFirst, Models, EventModels, CreateEventProcessingAttempts
<1> QED
  BY <1>1, <1>2, <1>3, <1>4, <1>5, <1>6, <1>7, <1>8, <1>9 DEF CreatedBy

\* The database serves a model: what HeadServes says of one table.
Serves(table, model) ==
  /\ Accepts(table, model) /\ Columns(table) = Columns(model)
  /\ table.keys = model.keys /\ table.parents = model.parents

\* The outbox has got the column of revision 10.
LEMMA OutboxServes == Serves(TableAt("outbox_events", 12), Models["outbox_events"])
<1> DEFINE r == {"event_id", "event_type", "event_version", "aggregate_type", "aggregate_id",
                 "correlation_id", "occurred_at", "payload", "status", "failure_count"}
           n == {"causation_id", "published_at", "last_error"}
           k == {{"event_id"}}
<1>1. AtFirst.outbox_events = Table(r, n, k, {})
  <2>1. ASSUME NEW name, NEW table PROVE Creating(name, table).up[1].table = table
    BY DEF Creating, CreateTable
  <2> QED
    BY <2>1 DEF AtFirst, CreateOutboxEvents
<1>2. Models["outbox_events"] =
        Table(r, {"causation_id", "published_at", "next_attempt_at", "last_error"}, k, {})
  BY DEF Models, EventModels
<1>3. {"causation_id", "published_at", "next_attempt_at", "last_error"} =
        n \cup {"next_attempt_at"}
  OBVIOUS
<1>4. TableAt("outbox_events", 12) =
        Widened(Table(r, n, k, {}), "next_attempt_at", "nullable")
  BY <1>1 DEF TableAt
<1> HIDE DEF r, n, k
<1>5. Widened(Table(r, n, k, {}), "next_attempt_at", "nullable") =
        Table(r, n \cup {"next_attempt_at"}, k, {})
  BY DEF Widened, Table
<1>6. TableAt("outbox_events", 12) = Models["outbox_events"]
  BY <1>2, <1>3, <1>4, <1>5, Zenon
<1> QED
  BY <1>6 DEF Serves, Accepts

\* The dead letters have got the columns of revision 12, one of them with a default.
LEMMA DeadLettersServe == Serves(TableAt("dead_letter_events", 12), Models["dead_letter_events"])
<1> DEFINE r == {"id", "event_id", "event_type", "aggregate_type", "aggregate_id",
                 "consumer_name", "attempt_number", "error", "payload", "failed_at"}
           all == {"id", "event_id", "event_type", "event_version", "aggregate_type",
                   "aggregate_id", "correlation_id", "consumer_name", "attempt_number",
                   "error", "payload", "failed_at"}
           n == {"replayed_at"}
<1>1. AtFirst.dead_letter_events = Table(r, n, ById, {})
  <2>1. ASSUME NEW name, NEW table PROVE Creating(name, table).up[1].table = table
    BY DEF Creating, CreateTable
  <2> QED
    BY <2>1 DEF AtFirst, CreateDeadLetterEvents
<1>2. Models["dead_letter_events"] = Table(all, {"causation_id", "replayed_at"}, ById, {})
  BY DEF Models, EventModels
<1>3. /\ all = r \cup {"event_version", "correlation_id"}
      /\ {"causation_id", "replayed_at"} = n \cup {"causation_id"}
  OBVIOUS
<1>4. TableAt("dead_letter_events", 12) = Replayable(Table(r, n, ById, {}))
  BY <1>1 DEF TableAt
<1> HIDE DEF r, n, all
<1>5. Replayable(Table(r, n, ById, {})) =
        TableOf(r \cup {"correlation_id"}, {"event_version"}, n \cup {"causation_id"}, ById, {})
  <2>1. Versioned(Table(r, n, ById, {})) = TableOf(r, {"event_version"}, n, ById, {})
    BY DEF Versioned, Widened, Table, TableOf
  <2>2. Correlated(Table(r, n, ById, {})) =
          TableOf(r \cup {"correlation_id"}, {"event_version"}, n, ById, {})
    BY <2>1 DEF Correlated, Widened, TableOf
  <2> QED
    BY <2>2 DEF Replayable, Widened, TableOf
<1>6. Models["dead_letter_events"] =
        TableOf(r \cup {"event_version", "correlation_id"}, {}, n \cup {"causation_id"}, ById, {})
  BY <1>2, <1>3 DEF Table, TableOf
<1> QED
  BY <1>4, <1>5, <1>6 DEF Serves, Accepts, Columns, TableOf

\* At the head every table serves its model.
LEMMA HeadTables ==
  /\ DOMAIN SchemaAt(12) = DOMAIN Models
  /\ \A t \in DOMAIN Models : Serves(SchemaAt(12)[t], Models[t])
<1>1. DOMAIN SchemaAt(12) = DOMAIN CreatedBy /\ DOMAIN Models = DOMAIN CreatedBy
  BY NamesChange DEF SchemaAt, Models, CreatedBy
<1>2. ASSUME NEW t \in DOMAIN CreatedBy PROVE Serves(TableAt(t, 12), Models[t])
  <2>1. CASE t \in {"outbox_events", "dead_letter_events"}
    BY <2>1, OutboxServes, DeadLettersServe
  <2>2. CASE t \notin {"outbox_events", "dead_letter_events"}
    BY <2>2, UnalteredTables DEF Serves, Accepts
  <2> QED
    BY <2>1, <2>2
<1>3. \A t \in DOMAIN CreatedBy : SchemaAt(12)[t] = TableAt(t, 12)
  BY <1>1 DEF SchemaAt
<1> QED
  BY <1>1, <1>2, <1>3

-----------------------------------------------------------------------------
(* The theorems                                                            *)

\* The inductive invariant: the revision names the tables, and rows are only in tables
\* that there are.
MigrationsInv ==
  /\ revision \in 0 .. 12
  /\ schema = SchemaAt(revision)
  /\ filled \subseteq NamesAt(revision)

\* What a command makes of the database: an upgrade keeps the rows, or is refused on
\* account of dead letters; a downgrade keeps the rows of the tables it does not drop.
LEMMA Commands ==
  ASSUME MigrationsInv, NEW n \in 0 .. 12
  PROVE  /\ n <= revision => Migrated(n) = Database(SchemaAt(n), filled \cap NamesAt(n))
         /\ revision <= n =>
              /\ ~(revision = 11 /\ n = 12 /\ "dead_letter_events" \in filled) =>
                   Migrated(n) = Database(SchemaAt(n), filled)
              /\ revision = 11 /\ n = 12 /\ "dead_letter_events" \in filled =>
                   ~Migrated(n).ok
<1>1. Migrated(n) = After(Database(SchemaAt(revision), filled), Path(revision, n))
  BY DEF Migrated, After, MigrationsInv
<1>2. revision \in 0 .. 12 /\ filled \subseteq NamesAt(revision)
  BY DEF MigrationsInv
<1>3. CASE n <= revision
  <2>1. Migrated(n) = Database(SchemaAt(n), filled \cap NamesAt(n))
    <3>1. n \in 0 .. revision
      BY <1>2, <1>3
    <3>2. After(Database(SchemaAt(revision), filled), Path(revision, n)) =
            Database(SchemaAt(n), filled \cap NamesAt(n))
      BY <1>2, <3>1, Downgraded, Zenon
    <3> QED
      BY <1>1, <3>2, Zenon
  <2>2. revision <= n => n = revision /\ filled \cap NamesAt(n) = filled
    BY <1>2, <1>3
  <2> QED
    BY <2>1, <2>2
<1>4. CASE ~(n <= revision)
  BY <1>1, <1>2, <1>4, Upgraded
<1> QED
  BY <1>3, <1>4

\* An empty database has the tables of revision 0.
LEMMA EmptySchema == SchemaAt(0) = <<>>
<1>1. DOMAIN SchemaAt(0) = {}
  BY NamesChange DEF SchemaAt
<1> QED
  BY <1>1, NamesChange DEF SchemaAt

\* The tables and the revision go together, whatever was run in which order, and no
\* row is in a table there is not (versions/*.py, migrations/env.py).
THEOREM MigrationsInvariant == MigrationsSpec => []MigrationsInv
<1>1. MigrationsInit => MigrationsInv
  BY EmptySchema DEF MigrationsInit, MigrationsInv
<1>2. MigrationsInv /\ [MigrationsNext]_migrationVars => MigrationsInv'
  <2> SUFFICES ASSUME MigrationsInv, [MigrationsNext]_migrationVars PROVE MigrationsInv'
    OBVIOUS
  <2>1. ASSUME NEW n \in 0 .. Latest, Migrate(n) PROVE MigrationsInv'
    <3>1. n \in 0 .. 12
      BY Scripts
    <3>2. Migrated(n).ok /\ revision' = n /\ schema' = Migrated(n).schema
          /\ filled' = Migrated(n).filled
      BY <2>1 DEF Migrate
    <3>3. revision \in 0 .. 12 /\ filled \subseteq NamesAt(revision)
      BY DEF MigrationsInv
    <3>4. CASE n <= revision
      <4>1. Migrated(n) = Database(SchemaAt(n), filled \cap NamesAt(n))
        BY <3>1, <3>4, Commands
      <4> QED
        BY <3>1, <3>2, <4>1 DEF MigrationsInv, Database
    <3>5. CASE ~(n <= revision)
      <4>1. Migrated(n) = Database(SchemaAt(n), filled)
        BY <3>1, <3>2, <3>3, <3>5, Commands
      <4>2. NamesAt(revision) \subseteq NamesAt(n)
        BY <3>1, <3>3, <3>5 DEF NamesAt, CreatedBy
      <4> QED
        BY <3>1, <3>2, <3>3, <4>1, <4>2 DEF MigrationsInv, Database
    <3> QED
      BY <3>4, <3>5
  <2>2. ASSUME NEW t \in DOMAIN Models, Write(t) PROVE MigrationsInv'
    BY <2>2 DEF Write, MigrationsInv, SchemaAt
  <2>3. CASE UNCHANGED migrationVars
    BY <2>3 DEF MigrationsInv, migrationVars
  <2> QED
    BY <2>1, <2>2, <2>3 DEF MigrationsNext
<1> QED
  BY <1>1, <1>2, PTL DEF MigrationsSpec

\* Every downgrade() undoes exactly what its upgrade() did: the tables are those that
\* the revisions up to this one make of an empty database (versions/*.py).
THEOREM TablesOfRevision == MigrationsSpec => []SchemaOfRevision
<1>1. ASSUME NEW n \in 0 .. 12 PROVE Built(n) = SchemaAt(n)
  <2>1. Built(n) = After(Database(SchemaAt(0), {}), Path(0, n)).schema
    BY EmptySchema DEF Built, After
  <2>2. After(Database(SchemaAt(0), {}), Path(0, n)) = Database(SchemaAt(n), {})
    <3>1. 0 \in 0 .. 12 /\ n \in 0 .. 12 /\ {} \subseteq NamesAt(0) /\ ~(0 = 11)
      OBVIOUS
    <3> QED
      BY <3>1, Upgraded
  <2> QED
    BY <2>1, <2>2 DEF Database
<1>2. MigrationsInv => SchemaOfRevision
  BY <1>1 DEF MigrationsInv, SchemaOfRevision
<1> QED
  BY <1>2, MigrationsInvariant, PTL

\* At the head the migrations have made the tables of the models, keys included
\* (versions/*.py, modules/*/models.py).
THEOREM HeadServesTheModels == MigrationsSpec => []HeadServes
<1>1. MigrationsInv => HeadServes
  BY HeadTables, Scripts DEF MigrationsInv, HeadServes, Serves
<1> QED
  BY <1>1, MigrationsInvariant, PTL

\* No downgrade() is refused, whatever rows there are (versions/*.py).
THEOREM DowngradesArePossible == MigrationsSpec => []DowngradePossible
<1>1. MigrationsInv => DowngradePossible
  <2> SUFFICES ASSUME MigrationsInv, NEW n \in 0 .. revision PROVE Migrated(n).ok
    BY DEF DowngradePossible
  <2>1. n \in 0 .. 12 /\ n <= revision
    BY DEF MigrationsInv
  <2> QED
    BY <2>1, Commands DEF Database
<1> QED
  BY <1>1, MigrationsInvariant, PTL

\* An upgrade is refused for dead letters that outlived the downgrade of revision 0012,
\* and for nothing else (20260626_0012_add_dead_letter_replay_fields.py).
THEOREM OnlyDeadLettersBlock == MigrationsSpec => []DeadLettersAloneBlockUpgrade
<1>1. MigrationsInv => DeadLettersAloneBlockUpgrade
  <2> SUFFICES ASSUME MigrationsInv, NEW n \in revision .. Latest
               PROVE  Migrated(n).ok <=>
                        ~(revision = 11 /\ n = 12 /\ "dead_letter_events" \in filled)
    BY DEF DeadLettersAloneBlockUpgrade
  <2>1. n \in 0 .. 12 /\ revision <= n
    <3>1. revision \in 0 .. 12 /\ Latest = 12
      BY Scripts DEF MigrationsInv
    <3>2. n \in revision .. 12
      BY <3>1, Zenon
    <3> QED
      BY <3>1, <3>2
  <2> QED
    BY <2>1, Commands DEF Database
<1> QED
  BY <1>1, MigrationsInvariant, PTL

\* No upgrade() loses the rows of a table (versions/*.py).
THEOREM RowsSurviveUpgrades == MigrationsSpec => UpgradesKeepRows
<1>1. MigrationsInv /\ [MigrationsNext]_migrationVars =>
        [revision' >= revision => filled \subseteq filled']_migrationVars
  <2> SUFFICES ASSUME MigrationsInv, MigrationsNext, revision' >= revision
               PROVE  filled \subseteq filled'
    OBVIOUS
  <2>1. ASSUME NEW n \in 0 .. Latest, Migrate(n) PROVE filled \subseteq filled'
    <3>1. n \in 0 .. 12 /\ revision <= n
      BY <2>1, Scripts DEF Migrate, MigrationsInv
    <3>2. Migrated(n).ok /\ filled' = Migrated(n).filled
      BY <2>1 DEF Migrate
    <3>3. Migrated(n) = Database(SchemaAt(n), filled)
      BY <3>1, <3>2, Commands
    <3> QED
      BY <3>2, <3>3 DEF Database
  <2>2. ASSUME NEW t \in DOMAIN Models, Write(t) PROVE filled \subseteq filled'
    BY <2>2 DEF Write
  <2> QED
    BY <2>1, <2>2 DEF MigrationsNext
<1> QED
  BY <1>1, MigrationsInvariant, PTL DEF MigrationsSpec, UpgradesKeepRows

===============================================================================
