------------------------------- MODULE Lemmas ------------------------------
(* Facts about numbers, sequences and graphs that the proofs about several  *)
(* components cite.                                                         *)
EXTENDS Integers, SequencesExt, Reachability, SequenceTheorems,
        WellFoundedInduction, TLAPS

-----------------------------------------------------------------------------
(* Numbers. *)

\* Every set of numbers has a least one.
LEMMA LeastOf ==
  ASSUME NEW S \in SUBSET Nat, S # {}
  PROVE  /\ \E x \in S : \A j \in S : x <= j
         /\ Min(S) \in S /\ \A j \in S : Min(S) <= j
<1> DEFINE R == OpToRel(<, Nat)
<1>1. \E x \in S : \A y \in S : ~(<<y, x>> \in R)
  BY NatLessThanWellFounded, WFMin
<1>2. \A x, y \in Nat : x < y => <<x, y>> \in R
  BY DEF OpToRel
<1> HIDE DEF R
<1>3. PICK x \in S : \A y \in S : ~(<<y, x>> \in R)
  BY <1>1
<1>4. \A y \in S : x <= y
  <2> TAKE y \in S
  <2>1. x \in Nat /\ y \in Nat /\ ~(y < x)
    BY <1>2, <1>3
  <2> QED
    BY <2>1
<1> QED
  BY <1>4 DEF Min

\* What holds of 0, and of a number if it holds of the one before, holds of
\* them all: induction, with the set of the numbers it holds of.
LEMMA Upwards ==
  ASSUME NEW P, 0 \in P, \A n \in Nat : n \in P => n + 1 \in P
  PROVE  Nat \subseteq P
<1> SUFFICES ASSUME Nat \ P # {} PROVE FALSE
  OBVIOUS
<1>1. PICK x \in Nat \ P : \A j \in Nat \ P : x <= j
  BY LeastOf
<1>2. x - 1 \in Nat /\ x - 1 \in P
  BY <1>1
<1> QED
  BY <1>1, <1>2

-----------------------------------------------------------------------------
(* Where something is in a sequence. *)

Once(b, m) == \A i, j \in DOMAIN b : b[i] = m /\ b[j] = m => i = j

LEMMA InAppend ==
  ASSUME NEW S, NEW s \in Seq(S), NEW x \in S, NEW m
  PROVE  /\ Contains(Append(s, x), m) <=> Contains(s, m) \/ m = x
         /\ Once(s, m) /\ ~(m = x /\ Contains(s, m)) => Once(Append(s, x), m)
<1> DEFINE t == Append(s, x)
<1>1. /\ Len(s) \in Nat /\ Len(t) = Len(s) + 1
      /\ DOMAIN s = 1..Len(s) /\ DOMAIN t = 1..Len(s) + 1
      /\ \A i \in 1..Len(s) : t[i] = s[i]
      /\ t[Len(s) + 1] = x
  OBVIOUS
<1> HIDE DEF t
<1>2. Contains(t, m) <=> Contains(s, m) \/ m = x
  BY <1>1 DEF Contains
<1>3. Once(s, m) /\ ~(m = x /\ Contains(s, m)) => Once(t, m)
  BY <1>1 DEF Contains, Once
<1> QED
  BY <1>2, <1>3 DEF t

LEMMA ConcatAt ==
  ASSUME NEW S, NEW s \in Seq(S), NEW u \in Seq(S)
  PROVE  /\ Len(s) \in Nat /\ Len(u) \in Nat /\ Len(s \o u) = Len(s) + Len(u) /\ s \o u \in Seq(S)
         /\ DOMAIN s = 1..Len(s) /\ DOMAIN u = 1..Len(u) /\ DOMAIN (s \o u) = 1..Len(s) + Len(u)
         /\ \A i \in 1..Len(s) : (s \o u)[i] = s[i]
         /\ \A i \in 1..Len(u) : (s \o u)[Len(s) + i] = u[i]
         /\ \A i \in Len(s) + 1..Len(s) + Len(u) :
               i - Len(s) \in 1..Len(u) /\ (s \o u)[i] = u[i - Len(s)]
  OBVIOUS

LEMMA InConcat ==
  ASSUME NEW S, NEW s \in Seq(S), NEW u \in Seq(S), NEW m
  PROVE  /\ s \o u \in Seq(S)
         /\ Contains(s \o u, m) <=> Contains(s, m) \/ Contains(u, m)
         /\ Once(s, m) /\ Once(u, m) /\ ~(Contains(s, m) /\ Contains(u, m)) => Once(s \o u, m)
<1> DEFINE t == s \o u
<1>1. /\ Len(s) \in Nat /\ Len(u) \in Nat /\ Len(t) = Len(s) + Len(u) /\ t \in Seq(S)
      /\ DOMAIN s = 1..Len(s) /\ DOMAIN u = 1..Len(u) /\ DOMAIN t = 1..Len(s) + Len(u)
      /\ \A i \in 1..Len(s) : t[i] = s[i]
      /\ \A i \in 1..Len(u) : t[Len(s) + i] = u[i]
      /\ \A i \in Len(s) + 1..Len(s) + Len(u) : i - Len(s) \in 1..Len(u) /\ t[i] = u[i - Len(s)]
  BY ConcatAt
<1> HIDE DEF t
<1>2. ASSUME Contains(t, m) PROVE Contains(s, m) \/ Contains(u, m)
  <2>1. PICK i \in 1..Len(s) + Len(u) : t[i] = m
    BY <1>1, <1>2 DEF Contains
  <2>2. CASE i \in 1..Len(s)
    BY <1>1, <2>1, <2>2 DEF Contains
  <2>3. CASE i \in Len(s) + 1..Len(s) + Len(u)
    BY <1>1, <2>1, <2>3 DEF Contains
  <2> QED
    BY <1>1, <2>2, <2>3
<1>3. ASSUME Contains(s, m) PROVE Contains(t, m)
  BY <1>1, <1>3 DEF Contains
<1>4. ASSUME Contains(u, m) PROVE Contains(t, m)
  <2>1. PICK i \in 1..Len(u) : u[i] = m
    BY <1>4 DEF Contains
  <2>2. Len(s) + i \in 1..Len(t) /\ t[Len(s) + i] = m
    BY <1>1, <2>1
  <2> QED
    BY <2>2 DEF Contains
<1>5. ASSUME Once(s, m), Once(u, m), ~(Contains(s, m) /\ Contains(u, m)) PROVE Once(t, m)
  <2> SUFFICES ASSUME NEW i \in DOMAIN t, NEW j \in DOMAIN t, t[i] = m, t[j] = m PROVE i = j
    BY DEF Once
  <2>1. CASE i \in 1..Len(s) /\ j \in 1..Len(s)
    BY <1>1, <1>5, <2>1 DEF Once
  <2>2. CASE i \notin 1..Len(s) /\ j \notin 1..Len(s)
    <3>1. /\ i - Len(s) \in DOMAIN u /\ j - Len(s) \in DOMAIN u
          /\ u[i - Len(s)] = m /\ u[j - Len(s)] = m
      BY <1>1, <2>2
    <3>2. i - Len(s) = j - Len(s)
      BY <1>5, <3>1 DEF Once
    <3> QED
      BY <1>1, <3>2
  <2>3. \A k \in DOMAIN t : t[k] = m => IF k \in 1..Len(s) THEN Contains(s, m) ELSE Contains(u, m)
    <3> TAKE k \in DOMAIN t
    <3> HAVE t[k] = m
    <3>1. CASE k \in 1..Len(s)
      BY <1>1, <3>1 DEF Contains
    <3>2. CASE k \notin 1..Len(s)
      <4>1. k - Len(s) \in 1..Len(u) /\ u[k - Len(s)] = m
        BY <1>1, <3>2
      <4> QED
        BY <3>2, <4>1 DEF Contains
    <3> QED
      BY <3>1, <3>2
  <2> QED
    BY <1>5, <2>1, <2>2, <2>3
<1> QED
  BY <1>1, <1>2, <1>3, <1>4, <1>5 DEF t

LEMMA InTail ==
  ASSUME NEW S, NEW s \in Seq(S), s # <<>>, NEW m
  PROVE  /\ Head(s) \in S /\ Tail(s) \in Seq(S) /\ (Len(s) = 1 <=> Tail(s) = <<>>)
         /\ Contains(s, m) <=> m = Head(s) \/ Contains(Tail(s), m)
         /\ Once(s, m) => Once(Tail(s), m) /\ ~(m = Head(s) /\ Contains(Tail(s), m))
<1> DEFINE t == Tail(s)
<1>1. /\ Len(s) \in Nat \ {0} /\ Len(t) = Len(s) - 1 /\ t \in Seq(S)
      /\ DOMAIN s = 1..Len(s) /\ DOMAIN t = 1..Len(s) - 1
      /\ \A i \in 1..Len(t) : t[i] = s[i + 1]
      /\ Head(s) = s[1] /\ s[1] \in S
  OBVIOUS
<1> HIDE DEF t
<1>2. Len(s) = 1 <=> t = <<>>
  BY <1>1, EmptySeq
<1>3. ASSUME Contains(s, m) PROVE m = s[1] \/ Contains(t, m)
  <2>1. PICK i \in 1..Len(s) : s[i] = m
    BY <1>3 DEF Contains
  <2>2. CASE i # 1
    <3>1. i - 1 \in 1..Len(t) /\ t[i - 1] = m
      BY <1>1, <2>1, <2>2
    <3> QED
      BY <3>1 DEF Contains
  <2> QED
    BY <2>1, <2>2
<1>4. ASSUME Contains(t, m) PROVE \E i \in 2..Len(s) : s[i] = m
  <2>1. PICK i \in 1..Len(t) : t[i] = m
    BY <1>4 DEF Contains
  <2>2. i + 1 \in 2..Len(s) /\ s[i + 1] = m
    BY <1>1, <2>1
  <2> QED
    BY <2>2
<1>5. Contains(s, m) <=> m = s[1] \/ Contains(t, m)
  BY <1>1, <1>3, <1>4 DEF Contains
<1>6. ASSUME Once(s, m) PROVE Once(t, m) /\ ~(m = s[1] /\ Contains(t, m))
  <2>1. Once(t, m)
    <3> SUFFICES ASSUME NEW i \in DOMAIN t, NEW j \in DOMAIN t, t[i] = m, t[j] = m PROVE i = j
      BY DEF Once
    <3>1. i + 1 \in DOMAIN s /\ j + 1 \in DOMAIN s /\ s[i + 1] = m /\ s[j + 1] = m
      BY <1>1
    <3>2. i + 1 = j + 1
      BY <1>6, <3>1 DEF Once
    <3> QED
      BY <1>1, <3>2
  <2>2. ~(m = s[1] /\ Contains(t, m))
    BY <1>1, <1>4, <1>6 DEF Once
  <2> QED
    BY <2>1, <2>2
<1> QED
  BY <1>1, <1>2, <1>5, <1>6 DEF t

LEMMA InEmpty == \A m : ~Contains(<<>>, m) /\ Once(<<>>, m)
  BY DEF Contains, Once

-----------------------------------------------------------------------------
(* Reachability. *)

\* A search visits its start.
LEMMA ReachStart ==
  ASSUME NEW N, NEW e, NEW i \in N
  PROVE  i \in Reach(N, e, i)
  BY DEF Reach

\* A search visits every successor of what it visits.
LEMMA ReachClosed ==
  ASSUME NEW N, NEW e, NEW i, NEW k \in Reach(N, e, i), NEW j \in e[k], j \in N
  PROVE  j \in Reach(N, e, i)
  BY DEF Reach, Closed

\* A search never leaves a closed set.
LEMMA ReachLeast ==
  ASSUME NEW N, NEW e, NEW S \in SUBSET N, NEW i \in S, Closed(e, S)
  PROVE  Reach(N, e, i) \subseteq S
  BY DEF Reach

\* What is visited from a visited node was visited before.
LEMMA ReachTransitive ==
  ASSUME NEW N, NEW e, \A k \in N : e[k] \subseteq N,
         NEW i \in N, NEW j \in Reach(N, e, i)
  PROVE  Reach(N, e, j) \subseteq Reach(N, e, i)
<1>1. Reach(N, e, i) \in SUBSET N
  BY DEF Reach
<1>2. Closed(e, Reach(N, e, i))
  BY <1>1, ReachClosed DEF Closed
<1> QED
  BY <1>1, <1>2, ReachLeast

\* With fewer edges a search visits less.
LEMMA ReachMonotone ==
  ASSUME NEW N, NEW d, NEW e, NEW i \in N,
         \A k \in N : d[k] \subseteq e[k] /\ e[k] \subseteq N
  PROVE  Reach(N, d, i) \subseteq Reach(N, e, i)
<1>1. Reach(N, e, i) \in SUBSET N
  BY DEF Reach
<1>2. Closed(d, Reach(N, e, i))
  BY <1>1, ReachClosed DEF Closed
<1>3. i \in Reach(N, e, i)
  BY ReachStart
<1> QED
  BY <1>1, <1>2, <1>3, ReachLeast

\* Taking edges away makes no cycle.
LEMMA NoCycleMonotone ==
  ASSUME NEW N, NEW d, NEW e,
         \A k \in N : d[k] \subseteq e[k] /\ e[k] \subseteq N,
         NoCycle(N, e)
  PROVE  NoCycle(N, d)
<1> SUFFICES ASSUME NEW i \in N, NEW j \in d[i]
             PROVE  i \notin Reach(N, d, j)
  BY DEF NoCycle
<1>1. j \in e[i] /\ j \in N
  OBVIOUS
<1>2. i \notin Reach(N, e, j)
  BY <1>1 DEF NoCycle
<1> QED
  BY <1>1, <1>2, ReachMonotone

\* The check of a new edge is enough: if d has no cycle, and with all the new
\* edges in place no new edge <<x, y>> has a path back from y to x, then there
\* is no cycle with them either.
LEMMA NewEdges ==
  ASSUME NEW N, NEW d, NEW e,
         \A k \in N : d[k] \subseteq e[k] /\ e[k] \subseteq N,
         NoCycle(N, d),
         \A x \in N : \A y \in e[x] \ d[x] : x \notin Reach(N, e, y)
  PROVE  NoCycle(N, e)
<1> SUFFICES ASSUME NEW i \in N, NEW j \in e[i], i \in Reach(N, e, j)
             PROVE  FALSE
  BY DEF NoCycle
<1> DEFINE Old == Reach(N, d, j)
           S == Old \union {k \in N : \E x \in Old : \E y \in e[x] \ d[x] :
                                         k \in Reach(N, e, y)}
<1>0. j \in N
  OBVIOUS
<1>1. j \in d[i]
  OBVIOUS
<1>2. i \notin Old
  BY <1>1 DEF NoCycle
<1>3. Old \subseteq N
  BY DEF Reach
<1>4. j \in S /\ S \in SUBSET N
  BY <1>0, <1>3, ReachStart
<1>5. Closed(e, S)
  <2> SUFFICES ASSUME NEW k \in S, NEW l \in e[k]
               PROVE  l \in S
    BY DEF Closed
  <2>0. k \in N /\ l \in N
    BY <1>4
  <2>1. CASE k \in Old /\ l \in d[k]
    BY <2>0, <2>1, ReachClosed
  <2>2. CASE k \in Old /\ l \notin d[k]
    BY <2>0, <2>2, ReachStart
  <2>3. CASE k \notin Old
    <3>1. PICK x \in Old : \E y \in e[x] \ d[x] : k \in Reach(N, e, y)
      BY <2>3
    <3>2. PICK y \in e[x] \ d[x] : k \in Reach(N, e, y)
      BY <3>1
    <3>3. l \in Reach(N, e, y)
      BY <2>0, <3>2, ReachClosed
    <3> QED
      BY <2>0, <3>2, <3>3
  <2> QED
    BY <2>1, <2>2, <2>3
<1>6. i \in S
  BY <1>4, <1>5, ReachLeast
<1>7. PICK x \in Old : \E y \in e[x] \ d[x] : i \in Reach(N, e, y)
  BY <1>2, <1>6
<1>8. PICK y \in e[x] \ d[x] : i \in Reach(N, e, y)
  BY <1>7
<1>9. x \in N /\ y \in N
  BY <1>3, <1>8
<1>10. x \in Reach(N, e, j)
  BY <1>0, ReachMonotone
<1>11. j \in Reach(N, e, y)
  BY <1>0, <1>8, ReachClosed
<1>12. x \in Reach(N, e, y)
  BY <1>9, <1>10, <1>11, ReachTransitive
<1> QED
  BY <1>8, <1>9, <1>12
=============================================================================
