---------------------------- MODULE Routes_proofs ----------------------------
(***************************************************************************)
(* Theorems about routes, on any city graph and for any trips, drives and  *)
(* calls, any cache keys and any faults, and about the four parts that     *)
(* answer as well as they can when something fails, together.              *)
(*                                                                         *)
(* What recursive functions compute is proved by induction on the numbers, *)
(* stated for sets: a set that has 0, and n + 1 when it has n, has them    *)
(* all.  For the shortest route: a known distance is what the edges        *)
(* followed so far add up to, an edge from a visited node was tried, and   *)
(* no way to a node that is not visited is faster than the nearest of      *)
(* them.  For the routes between points: the collapsed steps up to any     *)
(* step are stretches of the road, and from there on the segments are      *)
(* stored, cached and answered as a whole, for the trip they were computed *)
(* for.                                                                    *)
(***************************************************************************)
EXTENDS MCBestEffort, BestEffort_proofs, WellFoundedInduction

-----------------------------------------------------------------------------
-----------------------------------------------------------------------------
(* Induction on numbers, and functions that a first value and a step determine. *)

\* Induction over the numbers, as a statement about sets.
LEMMA Least ==
  ASSUME NEW T, T \subseteq Nat, T # {}
  PROVE  \E x \in T : \A y \in T : x <= y
<1>1. IsWellFoundedOn(OpToRel(<, Nat), Nat)
  BY NatLessThanWellFounded
<1>2. \E x \in T : \A y \in T : ~ (<<y, x>> \in OpToRel(<, Nat))
  BY <1>1, WFMin
<1>3. PICK x \in T : \A y \in T : ~ (<<y, x>> \in OpToRel(<, Nat))
  BY <1>2
<1>4. \A y \in T : ~(y < x)
  BY <1>3 DEF OpToRel
<1> QED BY <1>4

LEMMA Counting ==
  ASSUME NEW T, 0 \in T, \A n \in Nat : n \in T => n + 1 \in T
  PROVE  Nat \subseteq T
<1> SUFFICES ASSUME Nat \ T # {} PROVE FALSE
  OBVIOUS
<1>1. PICK x \in Nat \ T : \A y \in Nat \ T : x <= y
  <2>1. Nat \ T \subseteq Nat OBVIOUS
  <2> QED BY <2>1, Least, Zenon
<1>2. x # 0 /\ x \in Nat /\ x - 1 \in Nat /\ x - 1 + 1 = x
  BY <1>1
<1>3. x - 1 \in T
  BY <1>1, <1>2
<1> QED BY <1>1, <1>2, <1>3

\* A function that a first value and a step determine.
Follows(w, n, a, f) == w[0] = a /\ \A i \in 0 .. n - 1 : w[i + 1] = f[<<i, w[i]>>]

Agree(v, w, m) == \A i \in 0 .. m : v[i] = w[i]

LEMMA StepsAgree ==
  ASSUME NEW S, NEW a \in S, NEW f \in [Nat \X S -> S], NEW m \in Nat, NEW n \in Nat, m <= n,
         NEW v \in [0 .. m -> S], NEW w \in [0 .. n -> S],
         Follows(v, m, a, f), Follows(w, n, a, f)
  PROVE  Agree(v, w, m)
<1> DEFINE T == {i \in Nat : i <= m => v[i] = w[i]}
<1>1. 0 \in T
  BY DEF Follows
<1>2. ASSUME NEW i \in Nat, i \in T PROVE i + 1 \in T
  <2>1. SUFFICES ASSUME i + 1 <= m PROVE v[i + 1] = w[i + 1]
    OBVIOUS
  <2>2. v[i] = w[i] /\ i \in 0 .. m - 1 /\ i \in 0 .. n - 1
    BY <1>2, <2>1
  <2>3. v[i + 1] = f[<<i, v[i]>>] /\ w[i + 1] = f[<<i, w[i]>>]
    BY <2>2 DEF Follows
  <2> QED BY <2>2, <2>3
<1> HIDE DEF T
<1>3. Nat \subseteq T
  BY <1>1, <1>2, Counting
<1> QED BY <1>3 DEF T, Agree

Repeats(w, a, f) == w[0] = a /\ \A i \in Nat : w[i + 1] = f[<<i, w[i]>>]

LEMMA StepsExist ==
  ASSUME NEW S, NEW a \in S, NEW f \in [Nat \X S -> S]
  PROVE  \E w \in [Nat -> S] : Repeats(w, a, f)
<1> DEFINE T == {n \in Nat : \E w \in [0 .. n -> S] : Follows(w, n, a, f)}
<1>1. 0 \in T
  <2> DEFINE w == [i \in 0 .. 0 |-> a]
  <2>1. w \in [0 .. 0 -> S] /\ Follows(w, 0, a, f)
    BY DEF Follows
  <2> QED BY <2>1
<1>2. ASSUME NEW n \in Nat, n \in T PROVE n + 1 \in T
  <2>1. PICK w \in [0 .. n -> S] : Follows(w, n, a, f)
    BY <1>2
  <2> DEFINE x == [i \in 0 .. n + 1 |-> IF i = n + 1 THEN f[<<n, w[n]>>] ELSE w[i]]
  <2>2. w[n] \in S /\ <<n, w[n]>> \in Nat \X S
    BY <2>1
  <2>3. x \in [0 .. n + 1 -> S]
    BY <2>1, <2>2
  <2>4. ASSUME NEW i \in 0 .. n PROVE x[i + 1] = f[<<i, x[i]>>]
    <3>1. x[i] = w[i] /\ i \in Nat
      OBVIOUS
    <3>2. CASE i = n
      <4>1. x[n + 1] = f[<<n, w[n]>>]
        OBVIOUS
      <4>2. x[n] = w[n]
        BY <3>1, <3>2
      <4> HIDE DEF x
      <4> QED BY <3>2, <4>1, <4>2
    <3>3. CASE i # n
      <4>1. i \in 0 .. n - 1 /\ i + 1 \in 0 .. n + 1 /\ i + 1 # n + 1
        BY <3>3
      <4>2. x[i + 1] = w[i + 1] /\ w[i + 1] = f[<<i, w[i]>>]
        BY <4>1, <2>1 DEF Follows
      <4> QED BY <4>2, <3>1
    <3> QED BY <3>2, <3>3
  <2>5. x[0] = a /\ n + 1 - 1 = n
    BY <2>1 DEF Follows
  <2> HIDE DEF x
  <2>6. Follows(x, n + 1, a, f)
    BY <2>4, <2>5 DEF Follows
  <2> QED BY <2>3, <2>6
<1> HIDE DEF T
<1>3. Nat \subseteq T
  BY <1>1, <1>2, Counting
<1> DEFINE W(n) == CHOOSE w \in [0 .. n -> S] : Follows(w, n, a, f)
<1>4. ASSUME NEW n \in Nat PROVE W(n) \in [0 .. n -> S] /\ Follows(W(n), n, a, f)
  <2>1. \E w \in [0 .. n -> S] : Follows(w, n, a, f)
    BY <1>3 DEF T
  <2> QED BY <2>1
<1> HIDE DEF W
<1> DEFINE x == [i \in Nat |-> W(i)[i]]
<1>5. x \in [Nat -> S]
  BY <1>4
<1>6. x[0] = a
  BY <1>4 DEF Follows
<1>7. ASSUME NEW i \in Nat PROVE x[i + 1] = f[<<i, x[i]>>]
  <2>1. W(i + 1)[i + 1] = f[<<i, W(i + 1)[i]>>]
    BY <1>4 DEF Follows
  <2>2. \A j \in 0 .. i : W(i)[j] = W(i + 1)[j]
    <3>1. i + 1 \in Nat /\ i <= i + 1
      OBVIOUS
    <3>2. W(i) \in [0 .. i -> S] /\ Follows(W(i), i, a, f)
      BY <1>4
    <3>3. W(i + 1) \in [0 .. i + 1 -> S] /\ Follows(W(i + 1), i + 1, a, f)
      BY <3>1, <1>4
    <3>4. Agree(W(i), W(i + 1), i)
      BY <3>1, <3>2, <3>3, StepsAgree
    <3> QED BY <3>4 DEF Agree
  <2>3. i \in 0 .. i /\ x[i] = W(i)[i] /\ x[i + 1] = W(i + 1)[i + 1]
    OBVIOUS
  <2> QED BY <2>1, <2>2, <2>3
<1> HIDE DEF x
<1> QED BY <1>5, <1>6, <1>7 DEF Repeats

UpTo(w, n, a, f) == w = [i \in 0 .. n |-> IF i = 0 THEN a ELSE f[<<i - 1, w[i - 1]>>]]

LEMMA StepsUpTo ==
  ASSUME NEW S, NEW a \in S, NEW f \in [Nat \X S -> S], NEW n \in Nat
  PROVE  \E w \in [0 .. n -> S] : UpTo(w, n, a, f)
<1>1. PICK u \in [Nat -> S] : Repeats(u, a, f)
  BY StepsExist
<1>2. u[0] = a /\ \A i \in Nat : u[i + 1] = f[<<i, u[i]>>]
  BY <1>1 DEF Repeats
<1> DEFINE w == [i \in 0 .. n |-> u[i]]
<1>3. w \in [0 .. n -> S]
  OBVIOUS
<1>4. ASSUME NEW i \in 0 .. n, i # 0 PROVE w[i] = f[<<i - 1, w[i - 1]>>]
  <2>1. i - 1 \in Nat /\ i - 1 \in 0 .. n /\ i - 1 + 1 = i
    BY <1>4
  <2>2. u[i - 1 + 1] = f[<<i - 1, u[i - 1]>>]
    BY <2>1, <1>2
  <2> QED BY <2>1, <2>2
<1>5. w[0] = a
  BY <1>2
<1>6. w = [i \in 0 .. n |-> IF i = 0 THEN a ELSE f[<<i - 1, w[i - 1]>>]]
  BY <1>4, <1>5
<1> QED BY <1>3, <1>6 DEF UpTo

-----------------------------------------------------------------------------
(* The shortest route. *)

AllEdges == [road : Road, from : MapNode, to : MapNode, minutes : Nat]

LEMMA EdgesTyped ==
  ASSUME NEW g \in Graphs
  PROVE  EdgesOf(g) \subseteq AllEdges
<1>1. PICK R \in SUBSET Road : g \in [R -> Minutes]
  BY DEF Graphs
<1> SUFFICES ASSUME NEW e \in EdgesOf(g) PROVE e \in AllEdges
  OBVIOUS
<1>2. PICK r \in R : \/ e = [road |-> r, from |-> Ends[r][1], to |-> Ends[r][2], minutes |-> g[r]]
                     \/ e = [road |-> r, from |-> Ends[r][2], to |-> Ends[r][1], minutes |-> g[r]]
  BY <1>1 DEF EdgesOf
<1>3. r \in Road /\ Ends[r] \in MapNode \X MapNode /\ g[r] \in Nat
  BY <1>1, <1>2, ShortestRouteAssumption
<1> QED BY <1>2, <1>3 DEF AllEdges

LEMMA EdgeIsNotNoEdge ==
  ASSUME NEW e \in AllEdges
  PROVE  e # NoEdge
<1>1. DOMAIN e = {"road", "from", "to", "minutes"}
  BY DEF AllEdges
<1>2. DOMAIN NoEdge = {"road"}
  BY DEF NoEdge
<1> QED BY <1>1, <1>2

Onward(ways, edges) ==
  ways \cup UNION {{<<e.to, a[2] + e.minutes>> : e \in {x \in edges : x.from = a[1]}} : a \in ways}

LEMMA OnwardTyped ==
  ASSUME NEW edges \in SUBSET AllEdges, NEW ways \in SUBSET (MapNode \X Nat)
  PROVE  Onward(ways, edges) \in SUBSET (MapNode \X Nat)
  BY DEF AllEdges, Onward

LEMMA ReachedIs ==
  ASSUME EdgesOf(graph) \subseteq AllEdges, NEW o \in MapNode
  PROVE  /\ Reached(o)[0] = {<<o, 0>>}
         /\ \A k \in Nat : Reached(o)[k + 1] = Onward(Reached(o)[k], EdgesOf(graph))
         /\ \A k \in Nat : Reached(o)[k] \subseteq MapNode \X Nat
<1> DEFINE S == SUBSET (MapNode \X Nat)
           first == {<<o, 0>>}
<1>e. PICK edges : edges = EdgesOf(graph)
  OBVIOUS
<1> DEFINE f == [x \in Nat \X S |-> Onward(x[2], edges)]
<1>1. first \in S
  OBVIOUS
<1>2. f \in [Nat \X S -> S]
  BY <1>e, OnwardTyped
<1>3. \A x \in Nat \X S : f[x] = Onward(x[2], edges)
  OBVIOUS
<1> HIDE DEF f, S, first
<1>4. PICK w \in [Nat -> S] : Repeats(w, first, f)
  BY <1>1, <1>2, StepsExist
<1>5. w[0] = first /\ \A i \in Nat : w[i + 1] = Onward(w[i], edges)
  BY <1>3, <1>4 DEF Repeats
<1> DEFINE v == [k \in Nat |-> IF k = 0 THEN first ELSE Onward(w[k - 1], edges)]
<1>6. w = v
  <2>1. ASSUME NEW k \in Nat PROVE w[k] = v[k]
    <3>1. CASE k = 0
      BY <3>1, <1>5
    <3>2. CASE k # 0
      <4>1. k - 1 \in Nat /\ k - 1 + 1 = k
        BY <3>2
      <4>2. w[k - 1 + 1] = Onward(w[k - 1], edges)
        BY <4>1, <1>5
      <4> QED BY <3>2, <4>1, <4>2
    <3> QED BY <3>1, <3>2
  <2> QED BY <2>1
<1>7. \E u : u = [k \in Nat |-> IF k = 0 THEN first ELSE Onward(u[k - 1], edges)]
  BY <1>6
<1> DEFINE F == CHOOSE u : u = [k \in Nat |-> IF k = 0 THEN first ELSE Onward(u[k - 1], edges)]
<1>8. F = [k \in Nat |-> IF k = 0 THEN first ELSE Onward(F[k - 1], edges)]
  BY <1>7
<1>9. Reached(o) = F
  BY <1>e DEF Reached, Onward, first
<1> HIDE DEF F
<1>10. F[0] = first /\ \A k \in Nat : F[k + 1] = Onward(F[k], edges)
  <2>1. F[0] = first
    BY <1>8
  <2>2. ASSUME NEW k \in Nat PROVE F[k + 1] = Onward(F[k], edges)
    <3>1. k + 1 \in Nat /\ k + 1 # 0 /\ k + 1 - 1 = k
      OBVIOUS
    <3>2. F[k + 1] = Onward(F[k + 1 - 1], edges)
      BY <1>8, <3>1
    <3> QED BY <3>1, <3>2
  <2> QED BY <2>1, <2>2
<1> DEFINE T == {k \in Nat : F[k] \in S}
<1>11. 0 \in T
  BY <1>1, <1>10
<1>12. ASSUME NEW k \in Nat, k \in T PROVE k + 1 \in T
  <2>1. Onward(F[k], edges) \in S
    BY <1>12, <1>e, OnwardTyped DEF S
  <2> QED BY <2>1, <1>10
<1> HIDE DEF T
<1>13. Nat \subseteq T
  BY <1>11, <1>12, Counting
<1> QED BY <1>9, <1>10, <1>13, <1>e DEF first, S, T

\* c adds up the values of m, one after another.
Adds(c, m, n) ==
  /\ c[0] = 0
  /\ \A i \in 0 .. n - 1 : c[i + 1] = c[i] + m[i + 1]
  /\ \A i \in 0 .. n : c[i] \in Nat

LEMMA SumsExist ==
  ASSUME NEW n \in Nat, NEW m \in [1 .. n -> Nat]
  PROVE  \E c : c = [i \in 0 .. n |-> IF i = 0 THEN 0 ELSE c[i - 1] + m[i]]
<1> DEFINE f == [x \in Nat \X Nat |-> IF x[1] \in 0 .. n - 1 THEN x[2] + m[x[1] + 1] ELSE 0]
<1>1. f \in [Nat \X Nat -> Nat]
  <2>1. ASSUME NEW x \in Nat \X Nat, x[1] \in 0 .. n - 1 PROVE x[2] + m[x[1] + 1] \in Nat
    <3>1. x[1] + 1 \in 1 .. n /\ x[2] \in Nat
      BY <2>1
    <3> QED BY <3>1
  <2> QED BY <2>1
<1>2. \A i \in 1 .. n, t \in Nat : f[<<i - 1, t>>] = t + m[i]
  OBVIOUS
<1> HIDE DEF f
<1>3. PICK c \in [0 .. n -> Nat] : UpTo(c, n, 0, f)
  BY <1>1, StepsUpTo
<1>4. ASSUME NEW i \in 0 .. n, i # 0 PROVE f[<<i - 1, c[i - 1]>>] = c[i - 1] + m[i]
  BY <1>2, <1>4
<1>5. c = [i \in 0 .. n |-> IF i = 0 THEN 0 ELSE c[i - 1] + m[i]]
  BY <1>3, <1>4 DEF UpTo
<1> QED BY <1>5

LEMMA SumsAdd ==
  ASSUME NEW n \in Nat, NEW m \in [1 .. n -> Nat], NEW c,
         c = [i \in 0 .. n |-> IF i = 0 THEN 0 ELSE c[i - 1] + m[i]]
  PROVE  Adds(c, m, n)
<1>1. c[0] = 0
  OBVIOUS
<1>2. ASSUME NEW i \in 0 .. n - 1 PROVE c[i + 1] = c[i] + m[i + 1]
  <2>1. i + 1 \in 0 .. n /\ i + 1 # 0 /\ i + 1 - 1 = i
    OBVIOUS
  <2>2. c[i + 1] = c[i + 1 - 1] + m[i + 1]
    BY <2>1
  <2> QED BY <2>1, <2>2
<1> DEFINE T == {i \in Nat : i <= n => c[i] \in Nat}
<1>3. 0 \in T
  BY <1>1
<1>4. ASSUME NEW i \in Nat, i \in T PROVE i + 1 \in T
  <2>1. CASE i + 1 <= n
    <3>1. i \in 0 .. n - 1 /\ c[i] \in Nat /\ i + 1 \in 1 .. n
      BY <2>1, <1>4
    <3>2. c[i + 1] = c[i] + m[i + 1] /\ m[i + 1] \in Nat
      BY <3>1, <1>2
    <3> QED BY <3>1, <3>2
  <2> QED BY <2>1
<1> HIDE DEF T
<1>5. Nat \subseteq T
  BY <1>3, <1>4, Counting
<1> QED BY <1>1, <1>2, <1>5 DEF T, Adds

MinutesOf(p) == [i \in 1 .. Len(p) |-> p[i].minutes]

LEMMA MinutesTyped ==
  ASSUME NEW p \in Seq(AllEdges)
  PROVE  Len(p) \in Nat /\ MinutesOf(p) \in [1 .. Len(p) -> Nat]
<1>1. \A e \in AllEdges : e.minutes \in Nat
  BY DEF AllEdges
<1> QED BY <1>1, LenProperties, ElementOfSeq DEF MinutesOf

LEMMA ClockIs ==
  ASSUME NEW p \in Seq(AllEdges)
  PROVE  Adds(Clock(p), MinutesOf(p), Len(p))
<1>1. PICK n \in Nat : n = Len(p)
  BY MinutesTyped
<1>2. PICK m : m = MinutesOf(p)
  OBVIOUS
<1>3. m \in [1 .. n -> Nat] /\ \A i \in 1 .. n : m[i] = p[i].minutes
  BY <1>1, <1>2, MinutesTyped DEF MinutesOf
<1>4. PICK c : c = [i \in 0 .. n |-> IF i = 0 THEN 0 ELSE c[i - 1] + m[i]]
  BY <1>3, SumsExist
<1>5. c = [i \in 0 .. n |-> IF i = 0 THEN 0 ELSE c[i - 1] + p[i].minutes]
  BY <1>3, <1>4
<1> DEFINE F == CHOOSE u : u = [i \in 0 .. n |-> IF i = 0 THEN 0 ELSE u[i - 1] + p[i].minutes]
<1>6. F = [i \in 0 .. n |-> IF i = 0 THEN 0 ELSE F[i - 1] + p[i].minutes]
  BY <1>5
<1>7. Clock(p) = F
  BY <1>1 DEF Clock
<1> HIDE DEF F
<1>8. F = [i \in 0 .. n |-> IF i = 0 THEN 0 ELSE F[i - 1] + m[i]]
  <2> PICK f : f = F
    OBVIOUS
  <2>1. f = [i \in 0 .. n |-> IF i = 0 THEN 0 ELSE f[i - 1] + p[i].minutes]
    BY <1>6
  <2>2. ASSUME NEW i \in 0 .. n, i # 0
        PROVE  m[i] = p[i].minutes
    <3>1. i \in 1 .. n
      BY <1>1, <2>2
    <3> QED BY <1>3, <3>1
  <2>3. f = [i \in 0 .. n |-> IF i = 0 THEN 0 ELSE f[i - 1] + m[i]]
    BY <2>1, <2>2
  <2> QED BY <2>3
<1>9. Adds(F, m, n)
  BY <1>3, <1>8, SumsAdd
<1> QED BY <1>1, <1>2, <1>7, <1>9

\* A road before the others delays all of them by its time.
LEMMA ClockOfLonger ==
  ASSUME NEW p \in Seq(AllEdges), NEW e \in AllEdges
  PROVE  Clock(<<e>> \o p)[Len(p) + 1] = e.minutes + Clock(p)[Len(p)]
<1>1. PICK q : q = <<e>> \o p
  OBVIOUS
<1>2. PICK n \in Nat : n = Len(p)
  BY MinutesTyped
<1>3. q \in Seq(AllEdges) /\ Len(q) = n + 1 /\ q[1] = e /\ \A i \in 1 .. n : q[i + 1] = p[i]
  BY <1>1, <1>2
<1>4. PICK x : x = MinutesOf(p)
  OBVIOUS
<1>5. PICK y : y = MinutesOf(q)
  OBVIOUS
<1>6. /\ x \in [1 .. n -> Nat] /\ y \in [1 .. n + 1 -> Nat]
      /\ y[1] = e.minutes /\ \A i \in 1 .. n : y[i + 1] = x[i]
  BY <1>2, <1>3, <1>4, <1>5, MinutesTyped DEF MinutesOf
<1>7. PICK c : c = Clock(p)
  OBVIOUS
<1>8. PICK d : d = Clock(q)
  OBVIOUS
<1>9. Adds(c, x, n) /\ Adds(d, y, n + 1)
  BY <1>2, <1>3, <1>4, <1>5, <1>7, <1>8, ClockIs
<1> DEFINE T == {i \in Nat : i <= n => d[i + 1] = y[1] + c[i]}
<1>10. 0 \in T
  BY <1>6, <1>9 DEF Adds
<1>11. ASSUME NEW i \in Nat, i \in T PROVE i + 1 \in T
  <2>1. SUFFICES ASSUME i + 1 <= n PROVE d[i + 1 + 1] = y[1] + c[i + 1]
    OBVIOUS
  <2>2. i + 1 \in 1 .. n /\ i + 1 \in 0 .. n + 1 - 1 /\ i \in 0 .. n - 1 /\ i \in 0 .. n
    BY <2>1
  <2>3. d[i + 1 + 1] = d[i + 1] + y[i + 1 + 1] /\ c[i + 1] = c[i] + x[i + 1] /\ c[i] \in Nat
    BY <2>2, <1>9 DEF Adds
  <2>4. d[i + 1] = y[1] + c[i] /\ y[i + 1 + 1] = x[i + 1] /\ x[i + 1] \in Nat /\ y[1] \in Nat
    BY <1>11, <2>2, <1>6
  <2> QED BY <2>3, <2>4
<1> HIDE DEF T
<1>12. Nat \subseteq T
  BY <1>10, <1>11, Counting
<1>13. d[n + 1] = y[1] + c[n]
  BY <1>12 DEF T
<1> QED BY <1>13, <1>1, <1>2, <1>6, <1>7, <1>8

-----------------------------------------------------------------------------
(* The search. *)

Unknown == -1
Out(edges, n, m) == {e \in edges : e.from = n /\ e.to = m}

\* A known node was reached by an edge from a visited one, in its time.
ReachedOK(edges, D, V, P, n) ==
  /\ P[n] \in edges /\ P[n].to = n
  /\ P[n].from \in V /\ D[n] = D[P[n].from] + P[n].minutes

\* Visited nodes are no farther than others, and all edges from them are tried.
SearchOK(edges, D, V, P, o, d) ==
  /\ D \in [MapNode -> Nat \cup {Unknown}] /\ V \subseteq MapNode
  /\ D[o] = 0 /\ d \notin V
  /\ \A n \in MapNode \ {o} : D[n] # Unknown => ReachedOK(edges, D, V, P, n)
  /\ \A v \in V : D[v] # Unknown
  /\ \A v \in V, u \in MapNode \ V : D[u] # Unknown => D[v] <= D[u]
  /\ \A e \in edges : e.from \in V => D[e.to] # Unknown /\ D[e.to] <= D[e.from] + e.minutes

\* What trying the edges from n does to the distance of m.
Tried(edges, D, P, Dn, Pn, n, m) ==
  \/ /\ \A e \in Out(edges, n, m) : D[m] # Unknown /\ D[m] <= D[n] + e.minutes
     /\ Dn[m] = D[m] /\ Pn[m] = P[m]
  \/ \E b \in Out(edges, n, m) :
       /\ D[m] = Unknown \/ D[n] + b.minutes < D[m]
       /\ Dn[m] = D[n] + b.minutes /\ Pn[m] = b
       /\ \A e \in Out(edges, n, m) : b.minutes <= e.minutes

LEMMA TriedKeeps ==
  ASSUME NEW edges \in SUBSET AllEdges, NEW D, NEW V, NEW P, NEW o \in MapNode, NEW d \in MapNode,
         SearchOK(edges, D, V, P, o, d),
         NEW n \in MapNode \ V, n # d, D[n] # Unknown,
         \A u \in MapNode \ V : D[u] # Unknown => D[n] <= D[u],
         NEW Dn \in [MapNode -> Int], NEW Pn,
         \A m \in MapNode : Tried(edges, D, P, Dn, Pn, n, m)
  PROVE  SearchOK(edges, Dn, V \cup {n}, Pn, o, d)
<1> DEFINE W == V \cup {n}
<1>1. /\ D \in [MapNode -> Nat \cup {-1}] /\ V \subseteq MapNode
      /\ D[o] = 0 /\ d \notin V /\ D[n] \in Nat
      /\ \A v \in V : D[v] \in Nat
      /\ \A v \in V, u \in MapNode \ V : D[u] # -1 => D[v] <= D[u]
      /\ \A e \in edges : e.from \in V => D[e.to] # -1 /\ D[e.to] <= D[e.from] + e.minutes
  BY DEF SearchOK, Unknown
<1>e. \A e \in edges : e.from \in MapNode /\ e.to \in MapNode /\ e.minutes \in Nat
  BY DEF AllEdges
<1>t. ASSUME NEW m \in MapNode
      PROVE  \/ /\ \A e \in edges : e.from = n /\ e.to = m => D[m] # -1 /\ D[m] <= D[n] + e.minutes
                /\ Dn[m] = D[m] /\ Pn[m] = P[m]
             \/ \E b \in edges :
                  /\ b.from = n /\ b.to = m
                  /\ D[m] = -1 \/ D[n] + b.minutes < D[m]
                  /\ Dn[m] = D[n] + b.minutes /\ Pn[m] = b
                  /\ \A e \in edges : e.from = n /\ e.to = m => b.minutes <= e.minutes
  BY DEF Tried, Out, Unknown
<1>2. ASSUME NEW v \in W PROVE Dn[v] = D[v] /\ Pn[v] = P[v]
  <2>1. v \in MapNode /\ D[v] \in Nat /\ D[v] <= D[n]
    BY <1>1
  <2> QED BY <2>1, <1>1, <1>e, <1>t
<1>3. ASSUME NEW m \in MapNode
      PROVE  /\ Dn[m] \in Nat \cup {-1}
             /\ D[m] # -1 => Dn[m] # -1 /\ Dn[m] <= D[m]
             /\ Dn[m] # -1 => Dn[m] = D[m] \/ D[n] <= Dn[m]
  BY <1>1, <1>e, <1>t
<1>4. Dn \in [MapNode -> Nat \cup {-1}]
  BY <1>3
<1>5. o \notin W => Dn[o] = 0
  BY <1>1, <1>e, <1>t
<1>6. Dn[o] = 0
  BY <1>1, <1>2, <1>5
<1>7. ASSUME NEW m \in MapNode \ {o}, Dn[m] # -1 PROVE ReachedOK(edges, Dn, W, Pn, m)
  <2>1. CASE Dn[m] = D[m] /\ Pn[m] = P[m]
    <3>1. ReachedOK(edges, D, V, P, m)
      BY <1>7, <2>1 DEF SearchOK, Unknown
    <3>2. P[m].from \in W
      BY <3>1 DEF ReachedOK
    <3>3. Dn[P[m].from] = D[P[m].from]
      BY <3>2, <1>2
    <3> QED BY <2>1, <3>1, <3>2, <3>3 DEF ReachedOK
  <2>2. CASE \E b \in edges : b.from = n /\ b.to = m /\ Dn[m] = D[n] + b.minutes /\ Pn[m] = b
    <3>1. Dn[n] = D[n] /\ n \in W
      BY <1>2
    <3> QED BY <2>2, <3>1 DEF ReachedOK
  <2> QED BY <2>1, <2>2, <1>t
<1>8. \A v \in W : Dn[v] # -1
  BY <1>1, <1>2
<1>9. ASSUME NEW v \in W, NEW u \in MapNode \ W, Dn[u] # -1 PROVE Dn[v] <= Dn[u]
  <2>1. Dn[v] = D[v] /\ D[v] <= D[n] /\ D[v] \in Nat
    BY <1>1, <1>2
  <2>2. D[n] <= Dn[u]
    <3>1. CASE Dn[u] = D[u]
      BY <3>1, <1>9 DEF Unknown
    <3>2. CASE D[n] <= Dn[u]
      BY <3>2
    <3> QED BY <3>1, <3>2, <1>3, <1>9
  <2> QED BY <2>1, <2>2, <1>1, <1>3
<1>10. ASSUME NEW e \in edges, e.from \in W PROVE Dn[e.to] # -1 /\ Dn[e.to] <= Dn[e.from] + e.minutes
  <2>1. e.to \in MapNode /\ e.minutes \in Nat /\ Dn[e.from] = D[e.from] /\ D[e.from] \in Nat
    BY <1>1, <1>2, <1>e, <1>10
  <2>2. CASE e.from \in V
    <3>1. D[e.to] # -1 /\ D[e.to] <= D[e.from] + e.minutes
      BY <1>1, <2>2
    <3>2. Dn[e.to] # -1 /\ Dn[e.to] <= D[e.to] /\ Dn[e.to] \in Int /\ D[e.to] \in Int
      BY <3>1, <1>1, <1>3, <2>1
    <3> QED BY <2>1, <3>1, <3>2
  <2>3. CASE e.from = n
    BY <2>1, <2>3, <1>t, <1>e, <1>1
  <2> QED BY <2>2, <2>3, <1>10
<1>11. d \notin W /\ W \subseteq MapNode
  BY <1>1
<1> QED BY <1>4, <1>6, <1>7, <1>8, <1>9, <1>10, <1>11 DEF SearchOK, Unknown

\* Where k roads lead, and when.
Ways(w, edges, o) ==
  /\ w[0] = {<<o, 0>>}
  /\ \A k \in Nat : w[k + 1] = Onward(w[k], edges)
  /\ \A k \in Nat : w[k] \subseteq MapNode \X Nat

Nearest(D, V, total) == \A u \in MapNode \ V : D[u] # Unknown => total <= D[u]

NoSooner(ways, D, V, total) ==
  \A a \in ways : IF a[1] \in V THEN D[a[1]] <= a[2] ELSE total <= a[2]

LEMMA NoWayIsFaster ==
  ASSUME NEW edges \in SUBSET AllEdges, NEW D, NEW V, NEW P, NEW o \in MapNode, NEW d \in MapNode,
         SearchOK(edges, D, V, P, o, d), D[d] # Unknown, Nearest(D, V, D[d]),
         NEW w, Ways(w, edges, o), NEW k \in Nat
  PROVE  NoSooner(w[k], D, V, D[d])
<1> DEFINE T == {i \in Nat : NoSooner(w[i], D, V, D[d])}
<1>1. /\ D \in [MapNode -> Nat \cup {-1}] /\ V \subseteq MapNode
      /\ D[o] = 0 /\ d \notin V /\ D[d] \in Nat
      /\ \A v \in V : D[v] \in Nat /\ D[v] <= D[d]
      /\ \A e \in edges : e.from \in V => D[e.to] # -1 /\ D[e.to] <= D[e.from] + e.minutes
      /\ \A u \in MapNode \ V : D[u] # -1 => D[d] <= D[u]
  BY DEF SearchOK, Unknown, Nearest
<1>2. 0 \in T
  <2>1. o \notin V => D[d] <= 0
    BY <1>1
  <2> QED BY <1>1, <2>1 DEF Ways, NoSooner
<1>3. ASSUME NEW i \in Nat, i \in T PROVE i + 1 \in T
  <2>1. SUFFICES ASSUME NEW a \in Onward(w[i], edges)
                 PROVE  IF a[1] \in V THEN D[a[1]] <= a[2] ELSE D[d] <= a[2]
    BY DEF Ways, NoSooner
  <2>2. CASE a \in w[i]
    BY <1>3, <2>2 DEF NoSooner
  <2>3. CASE a \notin w[i]
    <3>1. PICK b \in w[i], e \in edges : e.from = b[1] /\ a = <<e.to, b[2] + e.minutes>>
      BY <2>1, <2>3 DEF Onward
    <3>2. b \in MapNode \X Nat
      BY <3>1 DEF Ways
    <3>3. e.to \in MapNode /\ e.minutes \in Nat /\ b[1] \in MapNode /\ b[2] \in Nat
      BY <3>1, <3>2 DEF AllEdges
    <3>4. IF b[1] \in V THEN D[b[1]] <= b[2] ELSE D[d] <= b[2]
      BY <1>3, <3>1 DEF NoSooner
    <3>5. a[1] = e.to /\ a[2] = b[2] + e.minutes
      BY <3>1
    <3>6. CASE b[1] \in V
      <4>1. D[e.to] # -1 /\ D[e.to] <= D[e.from] + e.minutes /\ D[e.from] <= b[2]
        BY <1>1, <3>1, <3>4, <3>6
      <4>2. D[e.to] \in Nat /\ D[e.from] \in Nat
        BY <1>1, <3>1, <3>3, <3>6, <4>1
      <4>3. e.to \notin V => D[d] <= D[e.to]
        BY <1>1, <3>3, <4>1
      <4> QED BY <1>1, <3>3, <3>5, <4>1, <4>2, <4>3
    <3>7. CASE b[1] \notin V
      BY <1>1, <3>3, <3>4, <3>5, <3>7
    <3> QED BY <3>6, <3>7
  <2> QED BY <2>2, <2>3
<1> HIDE DEF T
<1>4. Nat \subseteq T
  BY <1>2, <1>3, Counting
<1> QED BY <1>4 DEF T

\* When nothing is left to visit, no way leads elsewhere.
LEMMA NoWayLeads ==
  ASSUME NEW edges \in SUBSET AllEdges, NEW D, NEW V, NEW P, NEW o \in MapNode, NEW d \in MapNode,
         SearchOK(edges, D, V, P, o, d), \A u \in MapNode : D[u] # Unknown => u \in V,
         NEW w, Ways(w, edges, o), NEW k \in Nat
  PROVE  \A a \in w[k] : a[1] \in V
<1> DEFINE T == {i \in Nat : \A a \in w[i] : a[1] \in V}
<1>1. /\ o \in V /\ V \subseteq MapNode
      /\ \A e \in edges : e.from \in V => e.to \in V
  BY DEF SearchOK, Unknown, AllEdges
<1>2. 0 \in T
  BY <1>1 DEF Ways
<1>3. ASSUME NEW i \in Nat, i \in T PROVE i + 1 \in T
  <2>1. SUFFICES ASSUME NEW a \in Onward(w[i], edges) PROVE a[1] \in V
    BY DEF Ways
  <2>2. CASE a \in w[i]
    BY <1>3, <2>2
  <2>3. CASE a \notin w[i]
    <3>1. PICK b \in w[i], e \in edges : e.from = b[1] /\ a = <<e.to, b[2] + e.minutes>>
      BY <2>1, <2>3 DEF Onward
    <3> QED BY <1>1, <1>3, <3>1
  <2> QED BY <2>2, <2>3
<1> HIDE DEF T
<1>4. Nat \subseteq T
  BY <1>2, <1>3, Counting
<1> QED BY <1>4 DEF T

-----------------------------------------------------------------------------
(* The invariant. *)

SearchStages == {"start", "idle", "search", "walk", "found", "not found"}
Spot == MapNode \cup {CHOOSE n \in MapNode : TRUE}
WalkAt == IF pathEdges = <<>> THEN search.destination ELSE Head(pathEdges).from

SearchTypes ==
  /\ rows \in Graphs /\ graph \in Graphs
  /\ search \in [stage : SearchStages, origin : Spot, destination : Spot, total : Int]
  /\ distances \in [MapNode -> Int] /\ visited \subseteq MapNode
  /\ previous \in [MapNode -> EdgesOf(graph) \cup {NoEdge}]
  /\ pathEdges \in Seq(EdgesOf(graph))

NothingYet ==
  search.stage \in {"start", "idle"} =>
    pathEdges = <<>> /\ previous = [n \in MapNode |-> NoEdge]

Sought ==
  search.stage \in {"search", "walk", "found", "not found"} =>
    /\ search.origin \in MapNode /\ search.destination \in MapNode
    /\ search.origin # search.destination
    /\ SearchOK(EdgesOf(graph), distances, visited, previous, search.origin, search.destination)

Decided ==
  /\ search.stage = "search" => pathEdges = <<>>
  /\ search.stage \in {"walk", "found"} =>
       /\ search.total = distances[search.destination] /\ search.total # Unknown
       /\ Nearest(distances, visited, search.total)
  /\ search.stage = "not found" => \A u \in MapNode : distances[u] # Unknown => u \in visited

\* What has been walked, from the end, and the time that is left.
Walked ==
  /\ WalkAt \in MapNode /\ distances[WalkAt] # Unknown
  /\ Clock(pathEdges)[Len(pathEdges)] + distances[WalkAt] = search.total
  /\ pathEdges # <<>> => pathEdges[Len(pathEdges)].to = search.destination
  /\ \A i \in 1 .. Len(pathEdges) - 1 : pathEdges[i].to = pathEdges[i + 1].from

WalkOK ==
  /\ search.stage \in {"walk", "found"} => Walked
  /\ search.stage = "found" => WalkAt = search.origin

ShortestInv == SearchTypes /\ NothingYet /\ Sought /\ Decided /\ WalkOK

LEMMA NoRoads == <<>> \in Graphs
<1>1. <<>> \in [{} -> Minutes]
  BY SMT
<1> QED BY <1>1 DEF Graphs

LEMMA ShortestInitOK == ShortestInit => ShortestInv
<1> SUFFICES ASSUME ShortestInit PROVE ShortestInv
  OBVIOUS
<1>1. search = [stage |-> "start", origin |-> CHOOSE n \in MapNode : TRUE,
                destination |-> CHOOSE n \in MapNode : TRUE, total |-> -1]
  BY DEF ShortestInit, NoSearch
<1>2. search \in [stage : SearchStages, origin : Spot, destination : Spot, total : Int] /\ search.stage = "start"
  BY <1>1 DEF SearchStages, Spot
<1>3. SearchTypes
  BY <1>2, NoRoads DEF SearchTypes, ShortestInit
<1> QED BY <1>2, <1>3 DEF ShortestInv, NothingYet, Sought, Decided, WalkOK, ShortestInit

LEMMA StageSet ==
  ASSUME SearchTypes, NEW s \in SearchStages, SetStage(s)
  PROVE  /\ search' \in [stage : SearchStages, origin : Spot, destination : Spot, total : Int]
         /\ search'.stage = s /\ search'.origin = search.origin
         /\ search'.destination = search.destination /\ search'.total = search.total
  BY DEF SearchTypes, SetStage

LEMMA LoadStep ==
  ASSUME ShortestInv, LoadFromDB \/ UseFallback
  PROVE  ShortestInv'
<1>1. search.stage = "start" /\ SetStage("idle") /\ graph' \in Graphs
      /\ UNCHANGED <<rows, distances, visited, previous, pathEdges>>
  BY ShortestRouteAssumption DEF LoadFromDB, UseFallback, ShortestInv, SearchTypes
<1>2. /\ search' \in [stage : SearchStages, origin : Spot, destination : Spot, total : Int]
      /\ search'.stage = "idle"
  BY <1>1, StageSet DEF ShortestInv, SearchStages
<1>3. pathEdges = <<>> /\ previous = [n \in MapNode |-> NoEdge]
  BY <1>1 DEF ShortestInv, NothingYet
<1>4. pathEdges' \in Seq(EdgesOf(graph)') /\ previous' \in [MapNode -> EdgesOf(graph)' \cup {NoEdge}]
  BY <1>1, <1>3
<1>5. SearchTypes'
  BY <1>1, <1>2, <1>4 DEF ShortestInv, SearchTypes
<1> QED BY <1>1, <1>2, <1>3, <1>5 DEF ShortestInv, NothingYet, Sought, Decided, WalkOK

LEMMA GetRouteStep ==
  ASSUME ShortestInv, NEW o \in MapNode, NEW d \in MapNode, GetRoute(o, d)
  PROVE  ShortestInv'
<1>1. /\ search' \in [stage : SearchStages, origin : Spot, destination : Spot, total : Int]
      /\ search'.stage = "search" /\ search'.origin = o /\ search'.destination = d /\ o # d
  BY DEF GetRoute, SearchStages, Spot
<1>2. /\ distances' = [n \in MapNode |-> IF n = o THEN 0 ELSE -1]
      /\ visited' = {} /\ previous' = [n \in MapNode |-> NoEdge] /\ pathEdges' = <<>>
      /\ UNCHANGED <<rows, graph>>
  BY DEF GetRoute, graphVars
<1>3. EdgesOf(graph)' = EdgesOf(graph)
  BY <1>2 DEF EdgesOf
<1>4. SearchTypes'
  BY <1>1, <1>2, <1>3 DEF ShortestInv, SearchTypes
<1>5. SearchOK(EdgesOf(graph)', distances', visited', previous', o, d)
  BY <1>1, <1>2 DEF SearchOK, Unknown
<1> QED BY <1>1, <1>2, <1>4, <1>5 DEF ShortestInv, NothingYet, Sought, Decided, WalkOK

LEMMA Shortest ==
  ASSUME NEW E \in SUBSET AllEdges, E # {}
  PROVE  \E e \in E : \A f \in E : e.minutes <= f.minutes
<1> DEFINE T == {e.minutes : e \in E}
<1>1. T \subseteq Nat /\ T # {}
  BY DEF AllEdges
<1>2. PICK x \in T : \A y \in T : x <= y
  <2> HIDE DEF T
  <2> QED BY <1>1, Least
<1> QED BY <1>2

LEMMA RelaxTries ==
  ASSUME SearchTypes, NEW n \in MapNode, distances[n] \in Nat, Relax(n)
  PROVE  /\ distances' \in [MapNode -> Int]
         /\ previous' \in [MapNode -> EdgesOf(graph) \cup {NoEdge}]
         /\ \A m \in MapNode :
              Tried(EdgesOf(graph), distances, previous, distances', previous', n, m)
<1> DEFINE edges == EdgesOf(graph)
           Shorter(m) == {e \in OutgoingEdges(n) :
                            e.to = m /\ (distances[m] = -1 \/ distances[n] + e.minutes < distances[m])}
           Best(m) == CHOOSE e \in Shorter(m) : \A f \in Shorter(m) : e.minutes <= f.minutes
<1>1. /\ distances' = [m \in MapNode |-> IF Shorter(m) = {} THEN distances[m]
                                          ELSE distances[n] + Best(m).minutes]
      /\ previous' = [m \in MapNode |-> IF Shorter(m) = {} THEN previous[m] ELSE Best(m)]
  BY DEF Relax
<1>2. edges \in SUBSET AllEdges
  BY EdgesTyped DEF SearchTypes
<1>3. ASSUME NEW m \in MapNode
      PROVE  Shorter(m) = {e \in edges : /\ e.from = n /\ e.to = m
                                         /\ distances[m] = -1 \/ distances[n] + e.minutes < distances[m]}
  BY DEF OutgoingEdges
<1>4. ASSUME NEW m \in MapNode, Shorter(m) # {}
      PROVE  Best(m) \in Shorter(m) /\ \A f \in Shorter(m) : Best(m).minutes <= f.minutes
  <2>1. Shorter(m) \in SUBSET AllEdges
    BY <1>2, <1>3
  <2>2. PICK E \in SUBSET AllEdges : E = Shorter(m)
    BY <2>1
  <2>3. \E e \in E : \A f \in E : e.minutes <= f.minutes
    BY <1>4, <2>2, Shortest
  <2> QED BY <2>2, <2>3
<1> HIDE DEF edges, Shorter, Best
<1>5. \A e \in edges : e.minutes \in Nat
  BY <1>2 DEF AllEdges
<1>6. distances \in [MapNode -> Int] /\ previous \in [MapNode -> edges \cup {NoEdge}]
  BY DEF SearchTypes, edges
<1>7. ASSUME NEW m \in MapNode
      PROVE  /\ distances'[m] \in Int /\ previous'[m] \in edges \cup {NoEdge}
             /\ Tried(edges, distances, previous, distances', previous', n, m)
  <2>1. CASE Shorter(m) = {}
    <3>1. distances'[m] = distances[m] /\ previous'[m] = previous[m]
      BY <1>1, <2>1
    <3>2. ASSUME NEW e \in edges, e.from = n, e.to = m
          PROVE  distances[m] # -1 /\ distances[m] <= distances[n] + e.minutes
      <4>1. ~ (distances[m] = -1 \/ distances[n] + e.minutes < distances[m])
        BY <1>3, <2>1, <3>2
      <4> QED BY <4>1, <1>5, <1>6
    <3> QED BY <1>6, <3>1, <3>2 DEF Tried, Out, Unknown
  <2>2. CASE Shorter(m) # {}
    <3>1. PICK b : b = Best(m)
      OBVIOUS
    <3>2. b \in Shorter(m) /\ \A f \in Shorter(m) : b.minutes <= f.minutes
      BY <1>4, <2>2, <3>1
    <3>3. /\ b \in edges /\ b.from = n /\ b.to = m
          /\ distances[m] = -1 \/ distances[n] + b.minutes < distances[m]
      BY <1>3, <3>2
    <3>4. distances'[m] = distances[n] + b.minutes /\ previous'[m] = b
      BY <1>1, <2>2, <3>1
    <3>5. ASSUME NEW e \in edges, e.from = n, e.to = m PROVE b.minutes <= e.minutes
      <4>1. CASE e \in Shorter(m)
        BY <4>1, <3>2
      <4>2. CASE e \notin Shorter(m)
        <5>1. ~ (distances[m] = -1 \/ distances[n] + e.minutes < distances[m])
          BY <1>3, <3>5, <4>2
        <5> QED BY <5>1, <3>3, <1>5, <1>6
      <4> QED BY <4>1, <4>2
    <3> QED BY <1>5, <1>6, <3>3, <3>4, <3>5 DEF Tried, Out, Unknown
  <2> QED BY <2>1, <2>2
<1>8. DOMAIN distances' = MapNode /\ DOMAIN previous' = MapNode
  BY <1>1
<1>9. distances' \in [MapNode -> Int]
  BY <1>1, <1>7
<1>10. previous' \in [MapNode -> edges \cup {NoEdge}]
  BY <1>1, <1>7
<1> QED BY <1>7, <1>9, <1>10 DEF edges

LEMMA VisitStep ==
  ASSUME ShortestInv, NEW n \in MapNode, Visit(n)
  PROVE  ShortestInv'
<1>1. /\ search.stage = "search" /\ n \notin visited /\ distances[n] # -1
      /\ \A u \in MapNode \ visited : distances[u] # -1 => distances[n] <= distances[u]
      /\ n # search.destination /\ visited' = visited \cup {n} /\ Relax(n)
      /\ UNCHANGED <<rows, graph, search, pathEdges>>
  BY DEF Visit, ClosestUnvisited, graphVars
<1>2. /\ search.origin \in MapNode /\ search.destination \in MapNode
      /\ search.origin # search.destination
      /\ SearchOK(EdgesOf(graph), distances, visited, previous, search.origin, search.destination)
      /\ pathEdges = <<>>
  BY <1>1 DEF ShortestInv, Sought, Decided
<1>3. SearchTypes
  BY DEF ShortestInv
<1>4. distances[n] \in Nat
  BY <1>1, <1>2 DEF SearchOK, Unknown
<1>5. /\ distances' \in [MapNode -> Int]
      /\ previous' \in [MapNode -> EdgesOf(graph) \cup {NoEdge}]
      /\ \A m \in MapNode :
           Tried(EdgesOf(graph), distances, previous, distances', previous', n, m)
  BY <1>1, <1>3, <1>4, RelaxTries
<1>6. EdgesOf(graph)' = EdgesOf(graph) /\ EdgesOf(graph) \in SUBSET AllEdges
  BY <1>1, <1>3, EdgesTyped DEF EdgesOf, SearchTypes
<1>7. SearchTypes'
  BY <1>1, <1>3, <1>5, <1>6 DEF SearchTypes
<1>8. SearchOK(EdgesOf(graph), distances', visited', previous', search.origin, search.destination)
  <2>1. \A u \in MapNode \ visited : distances[u] # Unknown => distances[n] <= distances[u]
    BY <1>1 DEF Unknown
  <2>2. distances[n] # Unknown /\ n \in MapNode \ visited
    BY <1>1 DEF Unknown
  <2>3. SearchOK(EdgesOf(graph), distances', visited \cup {n}, previous', search.origin, search.destination)
    BY <1>1, <1>2, <1>5, <1>6, <2>1, <2>2, TriedKeeps
  <2> QED BY <1>1, <2>3
<1> QED BY <1>1, <1>2, <1>6, <1>7, <1>8 DEF ShortestInv, NothingYet, Sought, Decided, WalkOK

LEMMA SearchEnded ==
  ASSUME NEW c \in [stage : SearchStages, origin : Spot, destination : Spot, total : Int],
         NEW s \in SearchStages, NEW t \in Int,
         NEW d, d = [c EXCEPT !.stage = s, !.total = t]
  PROVE  /\ d \in [stage : SearchStages, origin : Spot, destination : Spot, total : Int]
         /\ d.stage = s /\ d.total = t /\ d.origin = c.origin /\ d.destination = c.destination
<1>1. d = [stage |-> d.stage, origin |-> d.origin, destination |-> d.destination, total |-> d.total]
  BY Zenon
<1>2. d.stage = s /\ d.total = t /\ d.origin = c.origin /\ d.destination = c.destination
  BY Zenon
<1> QED BY <1>1, <1>2

\* Of known nodes that are not visited, one is closest.
LEMMA SomeClosest ==
  ASSUME distances \in [MapNode -> Nat \cup {-1}],
         NEW u \in MapNode \ visited, distances[u] # -1
  PROVE  ClosestUnvisited # {}
<1> DEFINE open == {n \in MapNode \ visited : distances[n] # -1}
           T == {distances[n] : n \in open}
<1>1. T \subseteq Nat /\ T # {}
  OBVIOUS
<1>2. PICK x \in T : \A y \in T : x <= y
  <2> HIDE DEF T
  <2> QED BY <1>1, Least
<1> QED BY <1>2 DEF ClosestUnvisited

LEMMA EndSearchStep ==
  ASSUME ShortestInv, EndSearch
  PROVE  ShortestInv'
<1> DEFINE d == search.destination
<1>1. /\ search.stage = "search"
      /\ ClosestUnvisited = {} \/ d \in ClosestUnvisited
      /\ search' = [search EXCEPT !.stage = IF distances[d] = -1 THEN "not found" ELSE "walk",
                                  !.total = distances[d]]
      /\ UNCHANGED <<rows, graph, distances, visited, previous, pathEdges>>
  BY DEF EndSearch, graphVars
<1>2. /\ search.origin \in MapNode /\ d \in MapNode /\ search.origin # d /\ pathEdges = <<>>
      /\ SearchOK(EdgesOf(graph), distances, visited, previous, search.origin, d)
  BY <1>1 DEF ShortestInv, Sought, Decided
<1>3. distances \in [MapNode -> Nat \cup {-1}] /\ d \notin visited
  BY <1>2 DEF SearchOK, Unknown
<1>4. /\ search' \in [stage : SearchStages, origin : Spot, destination : Spot, total : Int]
      /\ search'.stage = (IF distances[d] = -1 THEN "not found" ELSE "walk")
      /\ search'.total = distances[d] /\ search'.origin = search.origin /\ search'.destination = d
  <2>1. PICK s \in SearchStages : s = IF distances[d] = -1 THEN "not found" ELSE "walk"
    BY DEF SearchStages
  <2>2. PICK t \in Int : t = distances[d]
    BY <1>2, <1>3
  <2>3. PICK c \in [stage : SearchStages, origin : Spot, destination : Spot, total : Int] : c = search
    BY DEF ShortestInv, SearchTypes
  <2>4. PICK e : e = search'
    OBVIOUS
  <2>5. e = [c EXCEPT !.stage = s, !.total = t]
    BY <1>1, <2>1, <2>2, <2>3, <2>4
  <2>6. /\ e \in [stage : SearchStages, origin : Spot, destination : Spot, total : Int]
        /\ e.stage = s /\ e.total = t /\ e.origin = c.origin /\ e.destination = c.destination
    BY <2>5, SearchEnded
  <2> QED BY <2>1, <2>2, <2>3, <2>4, <2>6
<1>5. EdgesOf(graph)' = EdgesOf(graph)
  BY <1>1 DEF EdgesOf
<1>6. SearchTypes'
  BY <1>1, <1>4, <1>5 DEF ShortestInv, SearchTypes
<1>7. Sought'
  BY <1>1, <1>2, <1>4, <1>5 DEF Sought
<1>8. CASE distances[d] = -1
  <2>1. \A u \in MapNode : distances[u] # Unknown => u \in visited
    BY <1>1, <1>3, <1>8, SomeClosest DEF ClosestUnvisited, Unknown
  <2> QED BY <1>1, <1>4, <1>6, <1>7, <1>8, <2>1 DEF ShortestInv, NothingYet, Decided, WalkOK
<1>9. CASE distances[d] # -1
  <2>1. d \in ClosestUnvisited
    BY <1>1, <1>2, <1>3, <1>9, SomeClosest
  <2>2. Nearest(distances, visited, distances[d])
    BY <2>1 DEF ClosestUnvisited, Nearest, Unknown
  <2>3. Clock(<<>>)[0] = 0 /\ Len(<<>>) = 0
    <3>1. <<>> \in Seq(AllEdges) /\ Len(<<>>) = 0
      OBVIOUS
    <3> QED BY <3>1, ClockIs DEF Adds
  <2>4. pathEdges' = <<>> /\ WalkAt' = d /\ distances' = distances /\ search'.total = distances[d]
    BY <1>1, <1>2, <1>4 DEF WalkAt
  <2>5. 0 + distances[d] = distances[d]
    BY <1>2, <1>3
  <2>6. Walked'
    BY <1>2, <1>9, <2>3, <2>4, <2>5 DEF Walked, Unknown
  <2> QED BY <1>1, <1>4, <1>6, <1>7, <1>9, <2>2, <2>6 DEF ShortestInv, NothingYet, Decided, WalkOK, Unknown
<1> QED BY <1>8, <1>9

LEMMA StageChanges ==
  ASSUME ShortestInv, NEW s \in SearchStages, SetStage(s),
         UNCHANGED <<rows, graph, distances, visited, previous, pathEdges>>
  PROVE  /\ SearchTypes' /\ search'.stage = s /\ WalkAt' = WalkAt
         /\ search'.origin = search.origin /\ search'.destination = search.destination
         /\ search'.total = search.total
<1>1. /\ search' \in [stage : SearchStages, origin : Spot, destination : Spot, total : Int]
      /\ search'.stage = s /\ search'.origin = search.origin
      /\ search'.destination = search.destination /\ search'.total = search.total
  BY StageSet DEF ShortestInv
<1>2. EdgesOf(graph)' = EdgesOf(graph)
  BY DEF EdgesOf
<1> QED BY <1>1, <1>2 DEF ShortestInv, SearchTypes, WalkAt

LEMMA Longer ==
  ASSUME NEW E, NEW p \in Seq(E), NEW e \in E, NEW q, q = <<e>> \o p
  PROVE  /\ q \in Seq(E) /\ q # <<>> /\ Head(q) = e /\ q[1] = e
         /\ Len(p) \in Nat /\ Len(q) = Len(p) + 1
         /\ \A i \in 1 .. Len(p) : q[i + 1] = p[i]
  OBVIOUS

LEMMA WalkBackStep ==
  ASSUME ShortestInv, WalkBack
  PROVE  ShortestInv'
<1> DEFINE o == search.origin
           d == search.destination
           p == pathEdges
<1>1. /\ search.stage = "walk"
      /\ IF WalkAt = o THEN SetStage("found") /\ UNCHANGED pathEdges
         ELSE IF previous[WalkAt] = NoEdge THEN SetStage("not found") /\ UNCHANGED pathEdges
         ELSE pathEdges' = <<previous[WalkAt]>> \o pathEdges /\ UNCHANGED search
      /\ UNCHANGED <<rows, graph, distances, visited, previous>>
  BY DEF WalkBack, WalkAt, graphVars
<1>2. /\ o \in MapNode /\ d \in MapNode /\ o # d
      /\ SearchOK(EdgesOf(graph), distances, visited, previous, o, d)
      /\ search.total = distances[d] /\ search.total # Unknown
      /\ Nearest(distances, visited, search.total) /\ Walked
  BY <1>1 DEF ShortestInv, Sought, Decided, WalkOK
<1>3. EdgesOf(graph)' = EdgesOf(graph) /\ EdgesOf(graph) \in SUBSET AllEdges
  BY <1>1, EdgesTyped DEF EdgesOf, ShortestInv, SearchTypes
<1>4. CASE WalkAt = o
  <2>1. SetStage("found") /\ UNCHANGED <<rows, graph, distances, visited, previous, pathEdges>>
    BY <1>1, <1>4
  <2>2. /\ SearchTypes' /\ search'.stage = "found" /\ WalkAt' = WalkAt
        /\ search'.origin = o /\ search'.destination = d /\ search'.total = search.total
    BY <2>1, StageChanges DEF SearchStages
  <2>3. Walked'
    BY <1>2, <2>1, <2>2 DEF Walked
  <2> QED BY <1>2, <1>3, <1>4, <2>1, <2>2, <2>3
            DEF ShortestInv, NothingYet, Sought, Decided, WalkOK
<1>5. CASE WalkAt # o
  <2>1. WalkAt \in MapNode /\ distances[WalkAt] # Unknown
    BY <1>2 DEF Walked
  <2>2. PICK e : e = previous[WalkAt]
    OBVIOUS
  <2>3. /\ e \in EdgesOf(graph) /\ e.to = WalkAt /\ e.from \in visited
        /\ distances[WalkAt] = distances[e.from] + e.minutes
    BY <1>2, <1>5, <2>1, <2>2 DEF SearchOK, ReachedOK
  <2>4. e \in AllEdges /\ e # NoEdge
    BY <1>3, <2>3, EdgeIsNotNoEdge
  <2>5. e.from \in MapNode /\ e.minutes \in Nat
    BY <2>4 DEF AllEdges
  <2>6. /\ pathEdges' = <<e>> \o pathEdges /\ search' = search
        /\ UNCHANGED <<rows, graph, distances, visited, previous>>
    BY <1>1, <1>5, <2>2, <2>4
  <2>7. p \in Seq(EdgesOf(graph))
    BY DEF ShortestInv, SearchTypes
  <2>8. /\ p' \in Seq(EdgesOf(graph)) /\ p' # <<>> /\ Head(p') = e /\ p'[1] = e
        /\ Len(p) \in Nat /\ Len(p') = Len(p) + 1 /\ \A i \in 1 .. Len(p) : p'[i + 1] = p[i]
    BY <2>3, <2>6, <2>7, Longer
  <2>9. WalkAt' = e.from
    BY <2>8 DEF WalkAt
  <2>10. SearchTypes'
    BY <1>3, <2>6, <2>8 DEF ShortestInv, SearchTypes
  <2>11. distances[e.from] \in Nat /\ distances[e.from] # Unknown
    BY <1>2, <2>3, <2>5 DEF SearchOK, Unknown
  <2>12. Clock(p')[Len(p')] + distances[e.from] = search.total
    <3>1. p \in Seq(AllEdges)
      BY <1>3, <2>7
    <3>2. Clock(p')[Len(p) + 1] = e.minutes + Clock(p)[Len(p)]
      BY <2>4, <2>6, <3>1, ClockOfLonger
    <3>3. Clock(p)[Len(p)] \in Nat
      BY <2>8, <3>1, ClockIs DEF Adds
    <3>4. Clock(p)[Len(p)] + distances[WalkAt] = search.total
      BY <1>2 DEF Walked
    <3> QED BY <2>3, <2>5, <2>8, <2>11, <3>2, <3>3, <3>4
  <2>13. p'[Len(p')].to = d
    <3>1. CASE p = <<>>
      BY <2>3, <2>8, <3>1 DEF WalkAt
    <3>2. CASE p # <<>>
      <4>1. Len(p) \in 1 .. Len(p) /\ p[Len(p)].to = d
        BY <1>2, <2>7, <2>8, <3>2 DEF Walked
      <4> QED BY <4>1, <2>8
    <3> QED BY <3>1, <3>2
  <2>14. ASSUME NEW i \in 1 .. Len(p') - 1 PROVE p'[i].to = p'[i + 1].from
    <3>1. i \in 1 .. Len(p) /\ p'[i + 1] = p[i]
      BY <2>8
    <3>2. CASE i = 1
      <4>1. p # <<>> /\ Head(p) = p[1]
        BY <2>7, <3>1
      <4> QED BY <2>3, <2>8, <3>1, <3>2, <4>1 DEF WalkAt
    <3>3. CASE i # 1
      <4>1. i - 1 \in 1 .. Len(p) - 1 /\ i - 1 \in 1 .. Len(p) /\ i - 1 + 1 = i
        BY <2>8, <3>1, <3>3
      <4>2. p'[i] = p[i - 1] /\ p[i - 1].to = p[i].from
        BY <1>2, <2>8, <4>1 DEF Walked
      <4> QED BY <3>1, <4>2
    <3> QED BY <3>2, <3>3
  <2>15. Walked'
    BY <2>5, <2>6, <2>9, <2>11, <2>12, <2>13, <2>14 DEF Walked
  <2> QED BY <1>1, <1>2, <1>3, <2>6, <2>10, <2>15
            DEF ShortestInv, NothingYet, Sought, Decided, WalkOK
<1> QED BY <1>4, <1>5

LEMMA ShortestInvImplies == ShortestInv => ShortestTypeOK /\ RouteIsShortest
<1> SUFFICES ASSUME ShortestInv PROVE ShortestTypeOK /\ RouteIsShortest
  OBVIOUS
<1>1. ShortestTypeOK
  BY DEF ShortestInv, SearchTypes, ShortestTypeOK, SearchStages
<1> DEFINE o == search.origin
           d == search.destination
           k == Cardinality(MapNode)
           ways == Reached(o)[k]
           p == pathEdges
<1>2. EdgesOf(graph) \in SUBSET AllEdges /\ k \in Nat /\ p \in Seq(EdgesOf(graph))
  BY EdgesTyped, FS_CardinalityType, ShortestRouteAssumption DEF ShortestInv, SearchTypes
<1>3. ASSUME search.stage \in {"found", "not found"}
      PROVE  /\ o \in MapNode /\ d \in MapNode /\ o # d /\ d \notin visited
             /\ SearchOK(EdgesOf(graph), distances, visited, previous, o, d)
             /\ Ways(Reached(o), EdgesOf(graph), o)
  <2>1. /\ o \in MapNode /\ d \in MapNode /\ o # d
        /\ SearchOK(EdgesOf(graph), distances, visited, previous, o, d)
    BY <1>3 DEF ShortestInv, Sought
  <2>2. Ways(Reached(o), EdgesOf(graph), o)
    BY <1>2, <2>1, ReachedIs DEF Ways
  <2> QED BY <2>1, <2>2 DEF SearchOK
<1>4. ASSUME search.stage = "found"
      PROVE  /\ p # <<>> /\ p[1].from = o /\ p[Len(p)].to = d
             /\ \A i \in 1 .. Len(p) - 1 : p[i].to = p[i + 1].from
             /\ Clock(p)[Len(p)] = search.total
             /\ \A a \in ways : a[1] = d => search.total <= a[2]
  <2>1. Walked /\ WalkAt = o
    BY <1>4 DEF ShortestInv, WalkOK
  <2>2. p # <<>>
    BY <1>3, <1>4, <2>1 DEF WalkAt
  <2>3. p[1].from = o
    BY <1>2, <2>1, <2>2 DEF WalkAt
  <2>4. Clock(p)[Len(p)] = search.total
    <3>1. p \in Seq(AllEdges) /\ Len(p) \in 0 .. Len(p)
      BY <1>2
    <3>2. Clock(p)[Len(p)] \in Nat
      BY <3>1, ClockIs DEF Adds
    <3>3. distances[o] = 0
      BY <1>3, <1>4 DEF SearchOK
    <3> QED BY <2>1, <3>2, <3>3 DEF Walked
  <2>5. NoSooner(ways, distances, visited, distances[d])
    <3>1. distances[d] # Unknown /\ Nearest(distances, visited, distances[d])
      BY <1>4 DEF ShortestInv, Decided
    <3> QED BY <1>2, <1>3, <1>4, <3>1, NoWayIsFaster
  <2>6. search.total = distances[d]
    BY <1>4 DEF ShortestInv, Decided
  <2> QED BY <1>3, <1>4, <2>1, <2>2, <2>3, <2>4, <2>5, <2>6 DEF Walked, NoSooner
<1>5. ASSUME search.stage = "not found"
      PROVE  \A a \in ways : a[1] # d
  <2>1. \A u \in MapNode : distances[u] # Unknown => u \in visited
    BY <1>5 DEF ShortestInv, Decided
  <2>2. \A a \in ways : a[1] \in visited
    BY <1>2, <1>3, <1>5, <2>1, NoWayLeads
  <2> QED BY <1>3, <1>5, <2>2
<1> QED BY <1>1, <1>4, <1>5 DEF RouteIsShortest

LEMMA ShortestStep == ShortestInv /\ [ShortestNext]_shortestVars => ShortestInv'
<1> SUFFICES ASSUME ShortestInv, [ShortestNext]_shortestVars PROVE ShortestInv'
  OBVIOUS
<1>1. CASE UNCHANGED shortestVars
  <2>1. UNCHANGED <<rows, graph, search, distances, visited, previous, pathEdges>>
    BY <1>1 DEF shortestVars, graphVars
  <2> QED BY <2>1 DEF ShortestInv, SearchTypes, NothingYet, Sought, Decided, WalkOK, Walked, WalkAt,
                      EdgesOf, Nearest
<1>2. CASE LoadFromDB \/ UseFallback
  BY <1>2, LoadStep
<1>3. CASE \E o, d \in MapNode : GetRoute(o, d)
  BY <1>3, GetRouteStep
<1>4. CASE \E n \in MapNode : Visit(n)
  BY <1>4, VisitStep
<1>5. CASE EndSearch
  BY <1>5, EndSearchStep
<1>6. CASE WalkBack
  BY <1>6, WalkBackStep
<1> QED BY <1>1, <1>2, <1>3, <1>4, <1>5, <1>6 DEF ShortestNext

\* The answer of GET /map/route is a way from origin to destination that takes
\* the time it says, and no other is faster, on any graph, however ties are
\* broken and whether the graph was loaded or is the built-in one; and there is
\* no way when it says so.
THEOREM RoutesAreShortest == ShortestSpec => [](ShortestTypeOK /\ RouteIsShortest)
BY ShortestInitOK, ShortestStep, ShortestInvImplies, PTL DEF ShortestSpec

-----------------------------------------------------------------------------
(* From steps to segments. *)

RouteStep == [segment : RoadSegment, seconds : Nat]
SecondsOf(st) == [i \in 1 .. Len(st) |-> st[i].seconds]

LEMMA StepsTyped ==
  ASSUME NEW d \in Drive
  PROVE  /\ Steps[d] \in Seq(RouteStep) /\ Len(Steps[d]) \in Nat
         /\ SecondsOf(Steps[d]) \in [1 .. Len(Steps[d]) -> Nat]
<1>1. Steps[d] \in Seq(RouteStep)
  BY RouteServiceAssumption DEF RouteStep
<1>2. \A e \in RouteStep : e.seconds \in Nat
  BY DEF RouteStep
<1> QED BY <1>1, <1>2, LenProperties, ElementOfSeq DEF SecondsOf

LEMMA ElapsedIs ==
  ASSUME NEW d \in Drive
  PROVE  Adds(Elapsed(d), SecondsOf(Steps[d]), Len(Steps[d]))
<1>1. PICK n \in Nat : n = Len(Steps[d])
  BY StepsTyped
<1>2. PICK m : m = SecondsOf(Steps[d])
  OBVIOUS
<1>3. m \in [1 .. n -> Nat] /\ \A i \in 1 .. n : m[i] = Steps[d][i].seconds
  BY <1>1, <1>2, StepsTyped DEF SecondsOf
<1>4. PICK c : c = [i \in 0 .. n |-> IF i = 0 THEN 0 ELSE c[i - 1] + m[i]]
  BY <1>3, SumsExist
<1>5. c = [i \in 0 .. n |-> IF i = 0 THEN 0 ELSE c[i - 1] + Steps[d][i].seconds]
  BY <1>3, <1>4
<1> DEFINE F == CHOOSE u : u = [i \in 0 .. n |-> IF i = 0 THEN 0 ELSE u[i - 1] + Steps[d][i].seconds]
<1>6. F = [i \in 0 .. n |-> IF i = 0 THEN 0 ELSE F[i - 1] + Steps[d][i].seconds]
  BY <1>5
<1>7. Elapsed(d) = F
  BY <1>1 DEF Elapsed
<1> HIDE DEF F
<1>8. F = [i \in 0 .. n |-> IF i = 0 THEN 0 ELSE F[i - 1] + m[i]]
  BY <1>3, <1>6
<1>9. Adds(F, m, n)
  BY <1>3, <1>8, SumsAdd
<1> QED BY <1>1, <1>2, <1>7, <1>9

LEMMA CollapseTyped ==
  ASSUME NEW s \in Seq(RouteStep), NEW step \in RouteStep
  PROVE  Collapse(s, step) \in Seq(RouteStep)
<1>1. CASE s # <<>> /\ Last(s).segment = step.segment
  <2>1. Len(s) \in 1 .. Len(s) /\ s[Len(s)] \in RouteStep
    BY <1>1
  <2>2. s[Len(s)].seconds + step.seconds \in Nat
    BY <2>1 DEF RouteStep
  <2>3. [s[Len(s)] EXCEPT !.seconds = s[Len(s)].seconds + step.seconds] \in RouteStep
    BY <2>1, <2>2 DEF RouteStep
  <2>4. [s EXCEPT ![Len(s)] = [s[Len(s)] EXCEPT !.seconds = s[Len(s)].seconds + step.seconds]]
          \in Seq(RouteStep)
    BY <2>1, <2>3, ExceptSeq
  <2> QED BY <1>1, <2>4 DEF Collapse
<1>2. CASE ~ (s # <<>> /\ Last(s).segment = step.segment)
  BY <1>2 DEF Collapse
<1> QED BY <1>1, <1>2

\* w follows the steps, collapsing them one by one.
Collapses(w, st, n) ==
  /\ w[0] = <<>>
  /\ \A i \in 1 .. n : w[i] = Collapse(w[i - 1], st[i])

LEMMA CollapseIs ==
  ASSUME NEW d \in Drive
  PROVE  \E w : Collapses(w, Steps[d], Len(Steps[d])) /\ w[Len(Steps[d])] = CollapseSteps(d)
<1>1. PICK n \in Nat : n = Len(Steps[d])
  BY StepsTyped
<1>2. PICK st \in Seq(RouteStep) : st = Steps[d]
  BY StepsTyped
<1> DEFINE S == Seq(RouteStep)
           f == [x \in Nat \X S |-> IF x[1] \in 0 .. n - 1 THEN Collapse(x[2], st[x[1] + 1]) ELSE x[2]]
<1>3. f \in [Nat \X S -> S]
  <2>1. ASSUME NEW x \in Nat \X S, x[1] \in 0 .. n - 1 PROVE Collapse(x[2], st[x[1] + 1]) \in S
    <3>1. x[2] \in S /\ st[x[1] + 1] \in RouteStep
      BY <2>1, <1>1, <1>2
    <3> QED BY <3>1, CollapseTyped
  <2> QED BY <2>1
<1>4. \A i \in 1 .. n, s \in S : f[<<i - 1, s>>] = Collapse(s, st[i])
  OBVIOUS
<1>5. <<>> \in S
  OBVIOUS
<1> HIDE DEF f, S
<1>6. PICK c \in [0 .. n -> S] : UpTo(c, n, <<>>, f)
  BY <1>3, <1>5, StepsUpTo
<1>7. ASSUME NEW i \in 0 .. n, i # 0 PROVE f[<<i - 1, c[i - 1]>>] = Collapse(c[i - 1], st[i])
  BY <1>4, <1>7
<1>8. c = [i \in 0 .. n |-> IF i = 0 THEN <<>> ELSE Collapse(c[i - 1], st[i])]
  BY <1>6, <1>7 DEF UpTo
<1> DEFINE F == CHOOSE u : u = [i \in 0 .. n |-> IF i = 0 THEN <<>> ELSE Collapse(u[i - 1], st[i])]
<1>9. F = [i \in 0 .. n |-> IF i = 0 THEN <<>> ELSE Collapse(F[i - 1], st[i])]
  BY <1>8
<1>10. CollapseSteps(d) = F[n]
  BY <1>1, <1>2 DEF CollapseSteps
<1> HIDE DEF F
<1>11. Collapses(F, st, n)
  BY <1>9 DEF Collapses
<1> QED BY <1>1, <1>2, <1>10, <1>11

StartOf(e, k) == IF k = 1 THEN 0 ELSE e[k - 1]

\* The entry k of s stands for the steps after StartOf(e, k) and up to e[k].
EntryStands(s, e, st, c, k) ==
  /\ StartOf(e, k) < e[k]
  /\ \A i \in StartOf(e, k) + 1 .. e[k] : st[i].segment = s[k].segment
  /\ k > 1 => s[k].segment # s[k - 1].segment
  /\ s[k].seconds = c[e[k]] - c[StartOf(e, k)]

Stands(s, e, st, c, n) ==
  /\ s \in Seq(RouteStep) /\ e \in [1 .. Len(s) -> 1 .. n]
  /\ IF n = 0 THEN s = <<>> ELSE s # <<>> /\ e[Len(s)] = n
  /\ \A k \in 1 .. Len(s) : EntryStands(s, e, st, c, k)

LEMMA OneMoreStep ==
  ASSUME NEW st \in Seq(RouteStep), NEW c, Adds(c, SecondsOf(st), Len(st)),
         NEW n \in Nat, n < Len(st), NEW s, NEW e, Stands(s, e, st, c, n)
  PROVE  \E x : Stands(Collapse(s, st[n + 1]), x, st, c, n + 1)
<1> DEFINE step == st[n + 1]
<1>0. PICK m : m = Len(s)
  OBVIOUS
<1>1. /\ m = Len(s) /\ s \in Seq(RouteStep) /\ m \in Nat /\ e \in [1 .. m -> 1 .. n]
      /\ IF n = 0 THEN s = <<>> ELSE s # <<>> /\ e[m] = n
      /\ \A k \in 1 .. m : EntryStands(s, e, st, c, k) /\ s[k] \in RouteStep
  BY <1>0 DEF Stands
<1>2. step \in RouteStep /\ n + 1 \in 1 .. Len(st) /\ n \in 0 .. Len(st) - 1 /\ Len(st) \in Nat
  BY LenProperties, ElementOfSeq
<1>3. c[n + 1] = c[n] + step.seconds /\ c[0] = 0 /\ \A i \in 0 .. Len(st) : c[i] \in Nat
  BY <1>2 DEF Adds, SecondsOf
<1>4. Collapse(s, step) \in Seq(RouteStep)
  BY <1>1, <1>2, CollapseTyped
<1>5. \A q \in RouteStep : q.seconds \in Nat
  BY DEF RouteStep
<1>6. CASE s # <<>> /\ Last(s).segment = step.segment
  <2>1. m \in 1 .. m /\ n # 0 /\ e[m] = n /\ s[m].segment = step.segment /\ s[m] \in RouteStep
    BY <1>1, <1>6 DEF Last
  <2>2. PICK q \in Seq(RouteStep) : q = Collapse(s, step)
    BY <1>4
  <2>3. /\ Len(q) = m
        /\ \A k \in 1 .. m : q[k].segment = s[k].segment
        /\ \A k \in 1 .. m : k # m => q[k].seconds = s[k].seconds
        /\ q[m].seconds = s[m].seconds + step.seconds
    <3>1. q = [s EXCEPT ![m] = [s[m] EXCEPT !.seconds = s[m].seconds + step.seconds]]
      BY <1>0, <1>6, <2>2 DEF Collapse
    <3>2. PICK r : r = [s[m] EXCEPT !.seconds = s[m].seconds + step.seconds]
      OBVIOUS
    <3>3. r.seconds = s[m].seconds + step.seconds /\ r.segment = s[m].segment
      BY <2>1, <3>2 DEF RouteStep
    <3>4. q = [s EXCEPT ![m] = r]
      BY <3>1, <3>2
    <3>5. Len(q) = m /\ q[m] = r /\ \A k \in 1 .. m : k # m => q[k] = s[k]
      BY <1>1, <2>1, <3>4
    <3> QED BY <3>3, <3>5
  <2> DEFINE x == [k \in 1 .. m |-> IF k = m THEN n + 1 ELSE e[k]]
  <2>4. x \in [1 .. m -> 1 .. n + 1] /\ x[m] = n + 1 /\ \A k \in 1 .. m : k # m => x[k] = e[k]
    BY <1>1, <2>1
  <2> HIDE DEF x
  <2>5. ASSUME NEW k \in 1 .. m PROVE StartOf(x, k) = StartOf(e, k)
    <3>1. k # 1 => k - 1 \in 1 .. m /\ k - 1 # m
      BY <1>1
    <3>2. CASE k = 1
      BY <3>2 DEF StartOf
    <3>3. CASE k # 1
      BY <2>4, <3>1, <3>3 DEF StartOf
    <3> QED BY <3>2, <3>3
  <2>6. ASSUME NEW k \in 1 .. m PROVE EntryStands(q, x, st, c, k)
    <3>1. EntryStands(s, e, st, c, k)
      BY <1>1
    <3>2. k > 1 => k - 1 \in 1 .. m
      BY <1>1
    <3>3. CASE k # m
      BY <2>3, <2>4, <2>5, <3>1, <3>2, <3>3 DEF EntryStands
    <3>4. CASE k = m
      <4>1. StartOf(x, m) = StartOf(e, m) /\ StartOf(e, m) < n /\ StartOf(e, m) \in 0 .. n
        <5>1. StartOf(x, m) = StartOf(e, m)
          BY <2>5, <3>4
        <5>2. StartOf(e, m) < n
          BY <2>1, <3>1, <3>4 DEF EntryStands
        <5>3. CASE m = 1
          BY <5>1, <5>2, <5>3 DEF StartOf
        <5>4. CASE m # 1
          <6>0. m \in Nat /\ m \in 1 .. m
            BY <1>1, <2>1
          <6>1. m - 1 \in 1 .. m
            BY <6>0, <5>4
          <6>2. e[m - 1] \in 1 .. n
            BY <1>1, <6>1
          <6> QED BY <5>1, <5>2, <5>4, <6>2 DEF StartOf
        <5> QED BY <5>3, <5>4
      <4>2. ASSUME NEW i \in StartOf(e, m) + 1 .. n + 1 PROVE st[i].segment = q[m].segment
        <5>1. CASE i = n + 1
          BY <2>1, <2>3, <5>1
        <5>2. CASE i # n + 1
          <6>1. i \in StartOf(e, m) + 1 .. n
            BY <4>1, <5>2
          <6> QED BY <2>1, <2>3, <3>1, <3>4, <6>1 DEF EntryStands
        <5> QED BY <5>1, <5>2
      <4>3. q[m].seconds = c[n + 1] - c[StartOf(e, m)]
        <5>1. s[m].seconds = c[n] - c[StartOf(e, m)]
          BY <2>1, <3>1, <3>4 DEF EntryStands
        <5>2. c[n] \in Nat /\ c[StartOf(e, m)] \in Nat /\ step.seconds \in Nat
          BY <1>2, <1>3, <1>5, <4>1
        <5> QED BY <1>3, <2>3, <5>1, <5>2
      <4>4. m > 1 => q[m].segment # q[m - 1].segment
        BY <2>3, <3>1, <3>2, <3>4 DEF EntryStands
      <4>5. StartOf(x, m) < x[m]
        BY <2>4, <4>1
      <4> QED BY <2>4, <3>4, <4>1, <4>2, <4>3, <4>4, <4>5 DEF EntryStands
    <3> QED BY <3>3, <3>4
  <2>7. Stands(q, x, st, c, n + 1)
    BY <1>1, <2>1, <2>3, <2>4, <2>6 DEF Stands
  <2> QED BY <2>2, <2>7
<1>7. CASE ~ (s # <<>> /\ Last(s).segment = step.segment)
  <2>1. PICK q \in Seq(RouteStep) : q = Collapse(s, step)
    BY <1>4
  <2>2. q = Append(s, step)
    BY <1>7, <2>1 DEF Collapse
  <2>3. /\ Len(q) = m + 1 /\ q[m + 1] = step /\ \A k \in 1 .. m : q[k] = s[k]
    BY <1>1, <1>2, <2>2
  <2> DEFINE x == [k \in 1 .. m + 1 |-> IF k = m + 1 THEN n + 1 ELSE e[k]]
  <2>4. x \in [1 .. m + 1 -> 1 .. n + 1] /\ x[m + 1] = n + 1 /\ \A k \in 1 .. m : x[k] = e[k]
    BY <1>1
  <2> HIDE DEF x
  <2>5. ASSUME NEW k \in 1 .. m PROVE StartOf(x, k) = StartOf(e, k)
    <3>1. k # 1 => k - 1 \in 1 .. m
      BY <1>1
    <3>2. CASE k = 1
      BY <3>2 DEF StartOf
    <3>3. CASE k # 1
      BY <2>4, <3>1, <3>3 DEF StartOf
    <3> QED BY <3>2, <3>3
  <2>6. StartOf(x, m + 1) = n
    <3>1. CASE m = 0
      <4>1. s = <<>>
        BY <1>0, <1>1, <3>1, EmptySeq
      <4>2. n = 0
        BY <1>1, <4>1
      <4> QED BY <3>1, <4>2 DEF StartOf
    <3>2. CASE m # 0
      <4>1. m \in 1 .. m /\ n # 0 /\ m + 1 # 1 /\ m + 1 - 1 = m
        BY <1>1, <3>2
      <4> QED BY <1>1, <2>4, <4>1 DEF StartOf
    <3> QED BY <3>1, <3>2
  <2>7. ASSUME NEW k \in 1 .. m + 1 PROVE EntryStands(q, x, st, c, k)
    <3>1. CASE k # m + 1
      <4>1. k \in 1 .. m /\ EntryStands(s, e, st, c, k) /\ (k > 1 => k - 1 \in 1 .. m)
        BY <1>1, <3>1
      <4> QED BY <2>3, <2>4, <2>5, <4>1 DEF EntryStands
    <3>2. CASE k = m + 1
      <4>1. \A i \in n + 1 .. n + 1 : st[i].segment = step.segment
        OBVIOUS
      <4>2. k > 1 => q[k].segment # q[k - 1].segment
        <5>1. k > 1 => m \in 1 .. m /\ k - 1 = m /\ s # <<>> /\ q[m] = s[m] /\ q[k] = step
          BY <1>0, <1>1, <2>3, <3>2
        <5>2. k > 1 => s[m].segment # step.segment
          BY <1>0, <1>7, <5>1 DEF Last
        <5> QED BY <5>1, <5>2
      <4>3. step.seconds = c[n + 1] - c[n]
        <5>1. c[n] \in Nat /\ step.seconds \in Nat
          BY <1>2, <1>3, <1>5
        <5> QED BY <1>3, <5>1
      <4>4. q[m + 1].segment = step.segment /\ q[m + 1].seconds = step.seconds
        BY <2>3
      <4>5. StartOf(x, m + 1) < x[m + 1]
        BY <2>4, <2>6
      <4>6. \A i \in StartOf(x, m + 1) + 1 .. x[m + 1] : st[i].segment = q[m + 1].segment
        BY <2>4, <2>6, <4>1, <4>4
      <4>7. q[m + 1].seconds = c[x[m + 1]] - c[StartOf(x, m + 1)]
        BY <2>4, <2>6, <4>3, <4>4
      <4> QED BY <3>2, <4>2, <4>5, <4>6, <4>7 DEF EntryStands
    <3> QED BY <3>1, <3>2
  <2>8. Stands(q, x, st, c, n + 1)
    <3>1. q # <<>> /\ n + 1 # 0
      BY <1>1, <2>3
    <3> QED BY <2>3, <2>4, <2>7, <3>1 DEF Stands
  <2> QED BY <2>1, <2>8
<1> QED BY <1>6, <1>7

LEMMA AllSteps ==
  ASSUME NEW st \in Seq(RouteStep), NEW c, Adds(c, SecondsOf(st), Len(st)),
         NEW w, Collapses(w, st, Len(st))
  PROVE  \E e : Stands(w[Len(st)], e, st, c, Len(st))
<1> DEFINE T == {i \in Nat : i <= Len(st) => \E e : Stands(w[i], e, st, c, i)}
<1>1. 0 \in T
  <2>1. Stands(<<>>, <<>>, st, c, 0)
    BY DEF Stands
  <2> QED BY <2>1 DEF Collapses
<1>2. ASSUME NEW i \in Nat, i \in T PROVE i + 1 \in T
  <2>1. SUFFICES ASSUME i + 1 <= Len(st) PROVE \E e : Stands(w[i + 1], e, st, c, i + 1)
    OBVIOUS
  <2>2. Len(st) \in Nat /\ i < Len(st) /\ i + 1 \in 1 .. Len(st) /\ i + 1 - 1 = i
    BY <2>1, LenProperties
  <2>3. w[i + 1] = Collapse(w[i], st[i + 1])
    BY <2>2 DEF Collapses
  <2>4. PICK e : Stands(w[i], e, st, c, i)
    BY <1>2, <2>2
  <2>5. \E x : Stands(Collapse(w[i], st[i + 1]), x, st, c, i + 1)
    BY <2>2, <2>4, OneMoreStep
  <2> QED BY <2>3, <2>5
<1> HIDE DEF T
<1>3. Nat \subseteq T
  BY <1>1, <1>2, Counting
<1> QED BY <1>3, LenProperties DEF T

RouteSegment == [segment : RoadSegment, minutes : Nat]

LEMMA MinutesOK ==
  ASSUME NEW n \in Nat
  PROVE  DurationSecondsToMinutes(n) \in Nat /\ InMinutes(DurationSecondsToMinutes(n), n)
<1>1. CASE n < 90
  BY <1>1 DEF DurationSecondsToMinutes, InMinutes
<1>2. CASE ~(n < 90)
  <2>1. PICK m : m = (n + 30) \div 60
    OBVIOUS
  <2>2. m \in Nat /\ 60 * m <= n + 30 /\ n + 30 < 60 * m + 60
    BY <2>1
  <2>3. m >= 1 /\ (m > 1 => 60 * m - 30 <= n) /\ n < 60 * m + 30
    BY <1>2, <2>2
  <2> QED BY <1>2, <2>1, <2>2, <2>3 DEF DurationSecondsToMinutes, InMinutes
<1> QED BY <1>1, <1>2

\* The segments of a drive are a sequence, and its steps fall into them.
LEMMA SegmentsOK ==
  ASSUME NEW d \in Drive
  PROVE  /\ MapRouteStepsToSegments(d) \in Seq(RouteSegment)
         /\ SegmentIds(MapRouteStepsToSegments(d)) \subseteq SegmentIds(Steps[d])
         /\ Steps[d] # <<>> =>
              MapRouteStepsToSegments(d) # <<>> /\ AreStretches(MapRouteStepsToSegments(d), d)
<1>1. PICK st \in Seq(RouteStep) : st = Steps[d]
  BY StepsTyped
<1>2. PICK c : c = Elapsed(d)
  OBVIOUS
<1>3. Adds(c, SecondsOf(st), Len(st))
  BY <1>1, <1>2, ElapsedIs
<1>4. PICK w : Collapses(w, st, Len(st)) /\ w[Len(st)] = CollapseSteps(d)
  BY <1>1, CollapseIs
<1>5. PICK e : Stands(w[Len(st)], e, st, c, Len(st))
  BY <1>3, <1>4, AllSteps
<1>6. PICK s : s = CollapseSteps(d)
  OBVIOUS
<1>7. PICK n : n = Len(st)
  OBVIOUS
<1>8. n \in Nat /\ DOMAIN st = 1 .. n
  BY <1>7, LenProperties
<1>9. Stands(s, e, st, c, n)
  BY <1>4, <1>5, <1>6, <1>7
<1>10. PICK m : m = Len(s)
  OBVIOUS
<1>11. /\ s \in Seq(RouteStep) /\ m \in Nat /\ DOMAIN s = 1 .. m
       /\ e \in [1 .. m -> 1 .. n] /\ \A k \in 1 .. m : s[k] \in RouteStep
       /\ IF n = 0 THEN s = <<>> ELSE s # <<>> /\ e[m] = n
  BY <1>9, <1>10 DEF Stands
<1>12. \A k \in 1 .. m : EntryStands(s, e, st, c, k)
  BY <1>9, <1>10 DEF Stands
<1>13. PICK g : g = MapRouteStepsToSegments(d)
  OBVIOUS
<1>14. g = [k \in 1 .. m |-> [segment |-> s[k].segment,
                              minutes |-> DurationSecondsToMinutes(s[k].seconds)]]
  BY <1>6, <1>11, <1>13 DEF MapRouteStepsToSegments
<1>15. ASSUME NEW k \in 1 .. m
       PROVE  /\ g[k].segment = s[k].segment /\ g[k].minutes = DurationSecondsToMinutes(s[k].seconds)
              /\ g[k] \in RouteSegment /\ InMinutes(g[k].minutes, s[k].seconds)
  <2>1. s[k].segment \in RoadSegment /\ s[k].seconds \in Nat
    BY <1>11 DEF RouteStep
  <2>2. g[k].segment = s[k].segment /\ g[k].minutes = DurationSecondsToMinutes(s[k].seconds)
    BY <1>14
  <2>3. g[k] = [segment |-> s[k].segment, minutes |-> DurationSecondsToMinutes(s[k].seconds)]
    BY <1>14
  <2> QED BY <2>1, <2>2, <2>3, MinutesOK DEF RouteSegment
<1>16. DOMAIN g = 1 .. m
  BY <1>14
<1>17. g \in Seq(RouteSegment) /\ Len(g) = m
  <2>1. g \in [1 .. m -> RouteSegment]
    BY <1>14, <1>15, <1>16
  <2>2. g \in Seq(RouteSegment)
    BY <1>11, <2>1, SeqDef
  <2>3. Len(g) \in Nat /\ 1 .. Len(g) = 1 .. m
    BY <1>16, <2>2, LenProperties
  <2> QED BY <1>11, <2>2, <2>3
<1>18. SegmentIds(g) \subseteq SegmentIds(st)
  <2>1. ASSUME NEW k \in 1 .. m PROVE e[k] \in 1 .. n /\ st[e[k]].segment = s[k].segment
    <3>1. e[k] \in 1 .. n
      BY <1>11
    <3>2. StartOf(e, k) \in Nat /\ StartOf(e, k) < e[k]
      <4>1. CASE k = 1
        BY <1>12, <4>1 DEF EntryStands, StartOf
      <4>2. CASE k # 1
        <5>1. k - 1 \in 1 .. m
          BY <1>11, <4>2
        <5> QED BY <1>11, <1>12, <4>2, <5>1 DEF EntryStands, StartOf
      <4> QED BY <4>1, <4>2
    <3>3. e[k] \in StartOf(e, k) + 1 .. e[k]
      BY <1>8, <3>1, <3>2
    <3> QED BY <1>12, <3>1, <3>3 DEF EntryStands
  <2> QED BY <1>8, <1>15, <1>16, <2>1 DEF SegmentIds
<1>19. ASSUME st # <<>> PROVE g # <<>> /\ AreStretches(g, d)
  <2>1. n # 0
    BY <1>7, <1>19, EmptySeq
  <2>2. s # <<>> /\ e[m] = n /\ m # 0
    <3>1. s # <<>> /\ e[m] = n
      BY <1>11, <2>1
    <3> QED BY <1>10, <1>11, <3>1, EmptySeq
  <2>3. g # <<>>
    BY <1>17, <2>2, EmptySeq
  <2>4. ASSUME NEW k \in 1 .. m
        PROVE  /\ StartOf(e, k) < e[k]
               /\ \A i \in StartOf(e, k) + 1 .. e[k] : st[i].segment = g[k].segment
               /\ k > 1 => g[k].segment # g[k - 1].segment
               /\ InMinutes(g[k].minutes, c[e[k]] - c[StartOf(e, k)])
    <3>1. k > 1 => k - 1 \in 1 .. m
      BY <1>11
    <3> QED BY <1>12, <1>15, <3>1 DEF EntryStands
  <2>5. AreStretches(g, d)
    BY <1>1, <1>2, <1>7, <1>11, <1>16, <1>17, <2>2, <2>4 DEF AreStretches, StartOf
  <2> QED BY <2>3, <2>5
<1> QED BY <1>1, <1>13, <1>17, <1>18, <1>19

-----------------------------------------------------------------------------
(* What holds of the calls for routes. *)

RouteStages == {"idle", "header", "segments", "osrm", "path", "store path", "register", "persist",
                "computed", "served", "cached", "failed"}
Paths == Drive \cup {NoPath}
SegmentIdsOfDrives == UNION {SegmentIds(Steps[d]) : d \in Drive}
Answers == [seconds : {0} \cup {Seconds(d) : d \in Drive}, path : Paths,
            segments : {<<>>} \cup {MapRouteStepsToSegments(d) : d \in Drive}]
Entries == [here : BOOLEAN, answer : Answers]
Calls == [stage : RouteStages, trip : Trip, drive : Paths, answer : Answers]
CacheKeys == {CacheKeyOf[t] : t \in Trip}

\* The segments of a drive for the trip.
Fits(t, segments) ==
  \E d \in Drives[t] : Steps[d] # <<>> /\ segments = MapRouteStepsToSegments(d)
FitsKey(k, segments) == \E t \in Trip : CacheKeyOf[t] = k /\ Fits(t, segments)

Known == registered \cup unregistered
Knows(known, segments) == SegmentIds(segments) \subseteq known

RowOK(t, row) == (row.answer.segments = <<>> /\ ~ row.here) \/ Fits(t, row.answer.segments)
CachedOK(k, entry, known) ==
  entry.here => FitsKey(k, entry.answer.segments) /\ Knows(known, entry.answer.segments)
CallOK(r, known) ==
  /\ r.stage \in {"path", "store path", "register", "persist", "computed", "served"} =>
       Fits(r.trip, r.answer.segments)
  /\ r.stage = "cached" => FitsKey(CacheKeyOf[r.trip], r.answer.segments)
  /\ r.stage \in {"persist", "computed", "served", "cached"} => Knows(known, r.answer.segments)

RouteTypes ==
  /\ routes \in [Trip -> Entries] /\ routeCache \in [CacheKeys -> Entries]
  /\ route \in [RouteCall -> Calls]
  /\ Known \subseteq SegmentIdsOfDrives
  /\ DOMAIN stretch \subseteq SegmentIdsOfDrives
  /\ routeFaults \in 0 .. MaxRouteFaults

RouteInv ==
  /\ RouteTypes
  /\ \A t \in Trip : RowOK(t, routes[t])
  /\ \A k \in CacheKeys : CachedOK(k, routeCache[k], Known)
  /\ \A c \in RouteCall : CallOK(route[c], Known)

-----------------------------------------------------------------------------

LEMMA SegmentsTyped ==
  ASSUME NEW segments \in {<<>>} \cup {MapRouteStepsToSegments(d) : d \in Drive}
  PROVE  SegmentIds(segments) \subseteq SegmentIdsOfDrives
<1>1. CASE segments = <<>>
  BY <1>1 DEF SegmentIds
<1>2. CASE segments # <<>>
  <2>1. PICK d \in Drive : segments = MapRouteStepsToSegments(d)
    BY <1>2
  <2>2. SegmentIds(segments) \subseteq SegmentIds(Steps[d])
    BY <2>1, SegmentsOK
  <2> QED BY <2>2 DEF SegmentIdsOfDrives
<1> QED BY <1>1, <1>2

LEMMA FitsIsWhole ==
  ASSUME NEW t \in Trip, NEW segments, Fits(t, segments)
  PROVE  segments # <<>> /\ \E d \in Drives[t] : AreStretches(segments, d)
<1>1. PICK d \in Drives[t] : Steps[d] # <<>> /\ segments = MapRouteStepsToSegments(d)
  BY DEF Fits
<1>2. d \in Drive
  BY RouteServiceAssumption
<1> QED BY <1>1, <1>2, SegmentsOK

LEMMA SameTrip ==
  ASSUME NEW t \in Trip, NEW segments, Fits(t, segments)
  PROVE  FitsKey(CacheKeyOf[t], segments)
  BY DEF FitsKey

LEMMA NothingTyped ==
  /\ NoAnswerYet \in Answers /\ NoRoute \in Entries /\ NoRouteCall \in Calls
  /\ NoRouteCall.stage = "idle"
<1>1. NoAnswerYet \in Answers
  BY DEF NoAnswerYet, Answers, Paths
<1>2. (CHOOSE t \in Trip : TRUE) \in Trip
  BY RouteServiceAssumption
<1> QED BY <1>1, <1>2 DEF NoRoute, Entries, NoRouteCall, Calls, RouteStages, Paths

LEMMA AnswerTyped ==
  ASSUME NEW t \in Trip, NEW d \in Drives[t], Steps[d] # <<>>
  PROVE  LET a == [seconds |-> Seconds(d), path |-> PathOf(d), segments |-> MapRouteStepsToSegments(d)]
         IN  d \in Drive /\ a \in Answers /\ Fits(t, a.segments)
<1>1. d \in Drive
  BY RouteServiceAssumption
<1>2. PathOf(d) \in Paths
  BY <1>1 DEF PathOf, Paths
<1> QED BY <1>1, <1>2 DEF Answers, Fits

LEMMA MoreIsKnown ==
  ASSUME NEW known, NEW more, known \subseteq more
  PROVE  /\ \A r : CallOK(r, known) => CallOK(r, more)
         /\ \A k, entry : CachedOK(k, entry, known) => CachedOK(k, entry, more)
  BY DEF CallOK, CachedOK, Knows

LEMMA FaultsBounded ==
  ASSUME RouteInv, RouteFault \/ NoRouteFault
  PROVE  routeFaults' \in 0 .. MaxRouteFaults
<1>1. routeFaults \in 0 .. MaxRouteFaults /\ MaxRouteFaults \in Nat
  BY RouteServiceAssumption DEF RouteInv, RouteTypes
<1> QED BY <1>1 DEF RouteFault, NoRouteFault

\* How the fields of a call change.
LEMMA Staged ==
  ASSUME NEW r \in Calls, NEW s, NEW x, x = [r EXCEPT !.stage = s]
  PROVE  x = [stage |-> s, trip |-> r.trip, drive |-> r.drive, answer |-> r.answer]
  BY DEF Calls

LEMMA Answered ==
  ASSUME NEW r \in Calls, NEW s, NEW a, NEW x, x = [r EXCEPT !.stage = s, !.answer = a]
  PROVE  x = [stage |-> s, trip |-> r.trip, drive |-> r.drive, answer |-> a]
  BY DEF Calls

LEMMA Asked ==
  ASSUME NEW r \in Calls, NEW s, NEW t, NEW x, x = [r EXCEPT !.stage = s, !.trip = t]
  PROVE  x = [stage |-> s, trip |-> t, drive |-> r.drive, answer |-> r.answer]
  BY DEF Calls

LEMMA Resegmented ==
  ASSUME NEW r \in Calls, NEW s, NEW g, NEW x, x = [r EXCEPT !.stage = s, !.answer.segments = g]
  PROVE  x = [stage |-> s, trip |-> r.trip, drive |-> r.drive,
              answer |-> [seconds |-> r.answer.seconds, path |-> r.answer.path, segments |-> g]]
  BY DEF Calls, Answers

LEMMA Repathed ==
  ASSUME NEW r \in Calls, NEW s, NEW p, NEW x, x = [r EXCEPT !.stage = s, !.answer.path = p]
  PROVE  x = [stage |-> s, trip |-> r.trip, drive |-> r.drive,
              answer |-> [seconds |-> r.answer.seconds, path |-> p, segments |-> r.answer.segments]]
  BY DEF Calls, Answers

\* A call moves, and what the capacity service knows or is refused only grows.
LEMMA CallMoves ==
  ASSUME RouteInv, NEW c \in RouteCall, NEW x \in Calls, SetRoute(c, x),
         NEW known, Known \subseteq known, CallOK(x, known)
  PROVE  route' \in [RouteCall -> Calls] /\ \A q \in RouteCall : CallOK(route'[q], known)
<1>1. route \in [RouteCall -> Calls] /\ \A q \in RouteCall : CallOK(route[q], known)
  BY MoreIsKnown DEF RouteInv, RouteTypes
<1>2. route' \in [RouteCall -> Calls] /\ \A q \in RouteCall : route'[q] = IF q = c THEN x ELSE route[q]
  BY <1>1 DEF SetRoute
<1> QED BY <1>1, <1>2

LEMMA OnlyCall ==
  ASSUME RouteInv, NEW c \in RouteCall, NEW x \in Calls, SetRoute(c, x), CallOK(x, Known),
         UNCHANGED <<routeDb, registered, routeCache, unregistered>>,
         routeFaults' \in 0 .. MaxRouteFaults
  PROVE  RouteInv'
<1>1. UNCHANGED <<routes, stretch, registered, routeCache, unregistered>>
  BY DEF routeDb
<1>2. Known' = Known
  BY <1>1 DEF Known
<1>3. route' \in [RouteCall -> Calls] /\ \A q \in RouteCall : CallOK(route'[q], Known)
  BY CallMoves
<1> QED BY <1>1, <1>2, <1>3 DEF RouteInv, RouteTypes

LEMMA CallTyped ==
  ASSUME RouteInv, NEW c \in RouteCall
  PROVE  /\ route[c] \in Calls /\ route[c].answer \in Answers /\ route[c].trip \in Trip
         /\ route[c].drive \in Paths
         /\ CallOK(route[c], Known)
  BY DEF RouteInv, RouteTypes, Calls

\* A call that does not fit anything yet.
LEMMA OpenCall ==
  ASSUME NEW s \in {"idle", "header", "segments", "osrm", "failed"}, NEW t \in Trip,
         NEW d \in Paths, NEW a \in Answers
  PROVE  LET x == [stage |-> s, trip |-> t, drive |-> d, answer |-> a] IN
         \A known : x \in Calls /\ CallOK(x, known)
  BY DEF Calls, RouteStages, CallOK

LEMMA CacheGetStep ==
  ASSUME RouteInv, NEW c \in RouteCall, NEW t \in Trip, CacheGet(c, t)
  PROVE  RouteInv'
<1>1. PICK entry : entry = routeCache[CacheKeyOf[t]]
  OBVIOUS
<1>2. /\ CacheKeyOf[t] \in CacheKeys /\ entry \in Entries
      /\ CachedOK(CacheKeyOf[t], entry, Known)
  BY <1>1 DEF RouteInv, RouteTypes, CacheKeys
<1>3. UNCHANGED <<routeDb, registered, routeCache, unregistered>> /\ routeFaults' \in 0 .. MaxRouteFaults
  BY FaultsBounded DEF CacheGet
<1>4. entry.answer \in Answers /\ NoRouteCall \in Calls
  BY <1>2, NothingTyped DEF Entries
<1>5. CASE /\ entry.here
           /\ SetRoute(c, [NoRouteCall EXCEPT !.stage = "cached", !.trip = t, !.answer = entry.answer])
  <2>1. PICK x : x = [NoRouteCall EXCEPT !.stage = "cached", !.trip = t, !.answer = entry.answer]
    OBVIOUS
  <2>2. x = [stage |-> "cached", trip |-> t, drive |-> NoRouteCall.drive, answer |-> entry.answer]
    <3>1. PICK r \in Calls : r = NoRouteCall
      BY <1>4
    <3>2. PICK a : a = entry.answer
      OBVIOUS
    <3>3. x = [r EXCEPT !.stage = "cached", !.trip = t, !.answer = a]
      BY <2>1, <3>1, <3>2
    <3>4. x = [stage |-> "cached", trip |-> t, drive |-> r.drive, answer |-> a]
      BY <3>3 DEF Calls
    <3> QED BY <3>1, <3>2, <3>4
  <2>3. x \in Calls
    BY <1>4, <2>2 DEF Calls, RouteStages
  <2>4. CallOK(x, Known)
    BY <1>2, <1>5, <2>2 DEF CallOK, CachedOK
  <2> QED BY <1>3, <1>5, <2>1, <2>3, <2>4, OnlyCall
<1>6. CASE SetRoute(c, [NoRouteCall EXCEPT !.stage = IF t \in SamePlace THEN "failed" ELSE "header",
                                           !.trip = t])
  <2>1. PICK s : s = IF t \in SamePlace THEN "failed" ELSE "header"
    OBVIOUS
  <2>2. PICK x : x = [NoRouteCall EXCEPT !.stage = s, !.trip = t]
    OBVIOUS
  <2>3. x = [stage |-> s, trip |-> t, drive |-> NoRouteCall.drive, answer |-> NoRouteCall.answer]
    BY <1>4, <2>2, Asked
  <2>4. NoRouteCall.drive \in Paths /\ NoRouteCall.answer \in Answers
    BY <1>4 DEF Calls
  <2>5. x \in Calls /\ CallOK(x, Known)
    BY <2>1, <2>3, <2>4, OpenCall
  <2>6. SetRoute(c, x)
    BY <1>6, <2>1, <2>2
  <2> QED BY <1>3, <2>5, <2>6, OnlyCall
<1> QED BY <1>1, <1>5, <1>6 DEF CacheGet

LEMMA LoadHeaderStep ==
  ASSUME RouteInv, NEW c \in RouteCall, LoadHeader(c)
  PROVE  RouteInv'
<1>1. PICK row : row = routes[route[c].trip]
  OBVIOUS
<1>2. row \in Entries /\ row.answer \in Answers
  BY <1>1, CallTyped DEF RouteInv, RouteTypes, Entries
<1>3. UNCHANGED <<routeDb, registered, routeCache, unregistered>> /\ routeFaults' \in 0 .. MaxRouteFaults
  BY FaultsBounded DEF LoadHeader
<1>4. CASE SetRoute(c, [route[c] EXCEPT !.stage = "segments",
                                        !.answer = [row.answer EXCEPT !.segments = <<>>]])
  <2>1. PICK a : a = [row.answer EXCEPT !.segments = <<>>]
    OBVIOUS
  <2>2. a \in Answers
    BY <1>2, <2>1 DEF Answers
  <2>3. PICK x : x = [route[c] EXCEPT !.stage = "segments", !.answer = a]
    OBVIOUS
  <2>4. x = [stage |-> "segments", trip |-> route[c].trip, drive |-> route[c].drive, answer |-> a]
    BY <2>3, CallTyped, Answered
  <2>5. x \in Calls /\ CallOK(x, Known)
    BY <2>2, <2>4, CallTyped, OpenCall
  <2> QED BY <1>3, <1>4, <2>1, <2>3, <2>5, OnlyCall
<1>5. CASE Go(c, "osrm")
  <2>1. PICK x : x = [route[c] EXCEPT !.stage = "osrm"]
    OBVIOUS
  <2>2. x = [stage |-> "osrm", trip |-> route[c].trip, drive |-> route[c].drive, answer |-> route[c].answer]
    BY <2>1, CallTyped, Staged
  <2>3. x \in Calls /\ CallOK(x, Known)
    BY <2>2, CallTyped, OpenCall
  <2> QED BY <1>3, <1>5, <2>1, <2>3, OnlyCall DEF Go
<1> QED BY <1>1, <1>4, <1>5 DEF LoadHeader

LEMMA LoadSegmentsStep ==
  ASSUME RouteInv, NEW c \in RouteCall, LoadSegments(c)
  PROVE  RouteInv'
<1>1. PICK segments : segments = routes[route[c].trip].answer.segments
  OBVIOUS
<1>2. RowOK(route[c].trip, routes[route[c].trip]) /\ routes[route[c].trip] \in Entries
  BY CallTyped DEF RouteInv, RouteTypes
<1>3. UNCHANGED <<routeDb, registered, routeCache, unregistered>> /\ routeFaults' \in 0 .. MaxRouteFaults
  BY FaultsBounded DEF LoadSegments
<1>4. PICK s : s = IF route[c].answer.path = NoPath THEN "path" ELSE "register"
  OBVIOUS
<1>5. CASE segments # <<>> /\ SetRoute(c, [route[c] EXCEPT !.stage = s, !.answer.segments = segments])
  <2>1. PICK x : x = [route[c] EXCEPT !.stage = s, !.answer.segments = segments]
    OBVIOUS
  <2>2. x = [stage |-> s, trip |-> route[c].trip, drive |-> route[c].drive,
             answer |-> [seconds |-> route[c].answer.seconds, path |-> route[c].answer.path,
                         segments |-> segments]]
    BY <2>1, CallTyped, Resegmented
  <2>3. Fits(route[c].trip, segments)
    BY <1>1, <1>2, <1>5 DEF RowOK
  <2>4. /\ segments \in {<<>>} \cup {MapRouteStepsToSegments(d) : d \in Drive}
        /\ route[c].answer.seconds \in {0} \cup {Seconds(d) : d \in Drive} /\ route[c].answer.path \in Paths
    BY <1>1, <1>2, CallTyped DEF Entries, Answers
  <2>5. x.answer \in Answers
    BY <2>2, <2>4 DEF Answers
  <2>6. x \in Calls /\ CallOK(x, Known)
    BY <1>4, <2>2, <2>3, <2>5, CallTyped DEF Calls, RouteStages, CallOK
  <2> QED BY <1>3, <1>5, <2>1, <2>6, OnlyCall
<1>6. CASE SetRoute(c, [route[c] EXCEPT !.stage = "osrm", !.answer = NoAnswerYet])
  <2>1. PICK x : x = [route[c] EXCEPT !.stage = "osrm", !.answer = NoAnswerYet]
    OBVIOUS
  <2>2. x = [stage |-> "osrm", trip |-> route[c].trip, drive |-> route[c].drive, answer |-> NoAnswerYet]
    BY <2>1, CallTyped, Answered
  <2>3. x \in Calls /\ CallOK(x, Known)
    BY <2>2, CallTyped, NothingTyped, OpenCall
  <2> QED BY <1>3, <1>6, <2>1, <2>3, OnlyCall
<1> QED BY <1>1, <1>4, <1>5, <1>6 DEF LoadSegments

\* A call whose segments fit its trip goes on.
LEMMA FittingCall ==
  ASSUME NEW s \in {"path", "store path", "register"}, NEW t \in Trip, NEW d \in Paths,
         NEW a \in Answers, Fits(t, a.segments)
  PROVE  LET x == [stage |-> s, trip |-> t, drive |-> d, answer |-> a] IN
         \A known : x \in Calls /\ CallOK(x, known)
  BY DEF Calls, RouteStages, CallOK

LEMMA ComputeLiveRoutePathStep ==
  ASSUME RouteInv, NEW c \in RouteCall, ComputeLiveRoutePath(c)
  PROVE  RouteInv'
<1>1. UNCHANGED <<routeDb, registered, routeCache, unregistered>> /\ routeFaults' \in 0 .. MaxRouteFaults
  BY FaultsBounded DEF ComputeLiveRoutePath
<1>2. Fits(route[c].trip, route[c].answer.segments)
  BY CallTyped DEF ComputeLiveRoutePath, At, CallOK
<1>3. ASSUME NEW d \in Drives[route[c].trip],
             SetRoute(c, [route[c] EXCEPT !.stage = IF PathOf(d) = NoPath THEN "register" ELSE "store path",
                                          !.answer.path = PathOf(d)])
      PROVE  RouteInv'
  <2>1. PICK s : s = IF PathOf(d) = NoPath THEN "register" ELSE "store path"
    OBVIOUS
  <2>2. PICK x : x = [route[c] EXCEPT !.stage = s, !.answer.path = PathOf(d)]
    OBVIOUS
  <2>3. x = [stage |-> s, trip |-> route[c].trip, drive |-> route[c].drive,
             answer |-> [seconds |-> route[c].answer.seconds, path |-> PathOf(d),
                         segments |-> route[c].answer.segments]]
    BY <2>2, CallTyped, Repathed
  <2>4. d \in Drive
    BY <1>3, CallTyped, RouteServiceAssumption
  <2>5. x.answer \in Answers /\ x.answer.segments = route[c].answer.segments
    BY <2>3, <2>4, CallTyped DEF Answers, PathOf, Paths
  <2>6. x = [stage |-> s, trip |-> route[c].trip, drive |-> route[c].drive, answer |-> x.answer]
    BY <2>3
  <2>7. x \in Calls /\ CallOK(x, Known)
    BY <1>2, <2>1, <2>5, <2>6, CallTyped, FittingCall
  <2> QED BY <1>1, <1>3, <2>1, <2>2, <2>7, OnlyCall
<1>4. CASE Go(c, "register")
  <2>1. PICK x : x = [route[c] EXCEPT !.stage = "register"]
    OBVIOUS
  <2>2. x = [stage |-> "register", trip |-> route[c].trip, drive |-> route[c].drive,
             answer |-> route[c].answer]
    BY <2>1, CallTyped, Staged
  <2>3. x \in Calls /\ CallOK(x, Known)
    BY <1>2, <2>2, CallTyped, FittingCall
  <2> QED BY <1>1, <1>4, <2>1, <2>3, OnlyCall DEF Go
<1> QED BY <1>3, <1>4 DEF ComputeLiveRoutePath

LEMMA PersistCachedRoutePathStep ==
  ASSUME RouteInv, NEW c \in RouteCall, PersistCachedRoutePath(c)
  PROVE  RouteInv'
<1>1. /\ UNCHANGED <<stretch, registered, routeCache, unregistered>>
      /\ routeFaults' \in 0 .. MaxRouteFaults /\ Known' = Known
  BY FaultsBounded DEF PersistCachedRoutePath, Known
<1>2. Fits(route[c].trip, route[c].answer.segments)
  BY CallTyped DEF PersistCachedRoutePath, At, CallOK
<1>3. /\ route' \in [RouteCall -> Calls]
      /\ \A q \in RouteCall : CallOK(route'[q], Known)
  <2>1. PICK x : x = [route[c] EXCEPT !.stage = "register"]
    OBVIOUS
  <2>2. x = [stage |-> "register", trip |-> route[c].trip, drive |-> route[c].drive,
             answer |-> route[c].answer]
    BY <2>1, CallTyped, Staged
  <2>3. x \in Calls /\ CallOK(x, Known)
    BY <1>2, <2>2, CallTyped, FittingCall
  <2> QED BY <2>1, <2>3, CallMoves DEF Go, PersistCachedRoutePath
<1>4. routes' \in [Trip -> Entries] /\ \A t \in Trip : RowOK(t, routes'[t])
  <2>1. routes \in [Trip -> Entries] /\ \A t \in Trip : RowOK(t, routes[t])
    BY DEF RouteInv, RouteTypes
  <2>2. CASE UNCHANGED routes
    BY <2>1, <2>2
  <2>3. CASE routes' = [routes EXCEPT ![route[c].trip].answer.path = route[c].answer.path]
    <3>1. PICK t0 \in Trip : t0 = route[c].trip
      BY CallTyped
    <3>2. PICK p \in Paths : p = route[c].answer.path
      BY CallTyped DEF Answers
    <3>3. PICK row \in Entries : row = routes[t0]
      BY <2>1
    <3>4. PICK new : new = [row EXCEPT !.answer.path = p]
      OBVIOUS
    <3>5. new = [here |-> row.here,
                 answer |-> [seconds |-> row.answer.seconds, path |-> p, segments |-> row.answer.segments]]
      BY <3>4 DEF Entries, Answers
    <3>6. new \in Entries /\ new.here = row.here /\ new.answer.segments = row.answer.segments
      BY <3>5 DEF Entries, Answers
    <3>7. routes' = [routes EXCEPT ![t0] = new]
      BY <2>3, <3>1, <3>2, <3>3, <3>4
    <3>8. RowOK(t0, new)
      BY <2>1, <3>3, <3>6 DEF RowOK
    <3> QED BY <2>1, <3>6, <3>7, <3>8
  <2> QED BY <2>2, <2>3 DEF PersistCachedRoutePath
<1> QED BY <1>1, <1>3, <1>4 DEF RouteInv, RouteTypes

LEMMA GetRouteFromOsrmStep ==
  ASSUME RouteInv, NEW c \in RouteCall, GetRouteFromOsrm(c)
  PROVE  RouteInv'
<1>1. UNCHANGED <<routeDb, registered, routeCache, unregistered>> /\ routeFaults' \in 0 .. MaxRouteFaults
  BY FaultsBounded DEF GetRouteFromOsrm
<1>2. CASE Go(c, "failed")
  <2>1. PICK x : x = [route[c] EXCEPT !.stage = "failed"]
    OBVIOUS
  <2>2. x = [stage |-> "failed", trip |-> route[c].trip, drive |-> route[c].drive,
             answer |-> route[c].answer]
    BY <2>1, CallTyped, Staged
  <2>3. x \in Calls /\ CallOK(x, Known)
    BY <2>2, CallTyped, OpenCall
  <2> QED BY <1>1, <1>2, <2>1, <2>3, OnlyCall DEF Go
<1>3. ASSUME NEW d \in Drives[route[c].trip], Steps[d] # <<>>,
             SetRoute(c, [route[c] EXCEPT
                    !.stage = "register", !.drive = d,
                    !.answer = [seconds |-> Seconds(d), path |-> PathOf(d),
                                segments |-> MapRouteStepsToSegments(d)]])
      PROVE  RouteInv'
  <2>1. PICK a : a = [seconds |-> Seconds(d), path |-> PathOf(d), segments |-> MapRouteStepsToSegments(d)]
    OBVIOUS
  <2>2. d \in Drive /\ a \in Answers /\ Fits(route[c].trip, a.segments)
    BY <1>3, <2>1, CallTyped, AnswerTyped
  <2>3. PICK x : x = [route[c] EXCEPT !.stage = "register", !.drive = d, !.answer = a]
    OBVIOUS
  <2>4. x = [stage |-> "register", trip |-> route[c].trip, drive |-> d, answer |-> a]
    <3>1. PICK r \in Calls : r = route[c]
      BY CallTyped
    <3>2. x = [r EXCEPT !.stage = "register", !.drive = d, !.answer = a]
      BY <2>3, <3>1
    <3>3. x = [stage |-> "register", trip |-> r.trip, drive |-> d, answer |-> a]
      BY <3>2 DEF Calls
    <3> QED BY <3>1, <3>3
  <2>5. x \in Calls /\ CallOK(x, Known)
    BY <2>2, <2>4, CallTyped, FittingCall DEF Paths
  <2> QED BY <1>1, <1>3, <2>1, <2>3, <2>5, OnlyCall
<1> QED BY <1>2, <1>3 DEF GetRouteFromOsrm

\* A call whose segments the capacity service knows, or was told of in vain.
LEMMA KnownCall ==
  ASSUME NEW s \in {"persist", "computed", "served"}, NEW t \in Trip, NEW d \in Paths,
         NEW a \in Answers, Fits(t, a.segments), NEW known, Knows(known, a.segments)
  PROVE  LET x == [stage |-> s, trip |-> t, drive |-> d, answer |-> a] IN
         x \in Calls /\ CallOK(x, known)
  BY DEF Calls, RouteStages, CallOK

LEMMA EnsureCapacitySegmentsStep ==
  ASSUME RouteInv, NEW c \in RouteCall, EnsureCapacitySegments(c)
  PROVE  RouteInv'
<1>1. /\ UNCHANGED <<routes, stretch, routeCache>> /\ routeFaults' \in 0 .. MaxRouteFaults
  BY FaultsBounded DEF EnsureCapacitySegments, routeDb
<1>2. Fits(route[c].trip, route[c].answer.segments)
  BY CallTyped DEF EnsureCapacitySegments, At, CallOK
<1>3. PICK ids : ids = SegmentIds(route[c].answer.segments)
  OBVIOUS
<1>4. ids \subseteq SegmentIdsOfDrives
  BY <1>3, CallTyped, SegmentsTyped DEF Answers
<1>5. Known' = Known \cup ids
  BY <1>3 DEF EnsureCapacitySegments, Known
<1>6. PICK known : known = Known'
  OBVIOUS
<1>7. Known \subseteq known /\ ids \subseteq known /\ known \subseteq SegmentIdsOfDrives
  BY <1>4, <1>5, <1>6 DEF RouteInv, RouteTypes
<1>8. Knows(known, route[c].answer.segments)
  BY <1>3, <1>7 DEF Knows
<1>9. /\ route' \in [RouteCall -> Calls]
      /\ \A q \in RouteCall : CallOK(route'[q], known)
  <2>1. PICK s : s = IF route[c].drive = NoPath THEN "computed" ELSE "persist"
    OBVIOUS
  <2>2. PICK x : x = [route[c] EXCEPT !.stage = s]
    OBVIOUS
  <2>3. x = [stage |-> s, trip |-> route[c].trip, drive |-> route[c].drive,
             answer |-> route[c].answer]
    BY <2>2, CallTyped, Staged
  <2>4. x \in Calls /\ CallOK(x, known)
    BY <1>2, <1>8, <2>1, <2>3, CallTyped, KnownCall
  <2>5. SetRoute(c, x)
    BY <2>1, <2>2 DEF EnsureCapacitySegments, Go
  <2> QED BY <1>7, <2>4, <2>5, CallMoves
<1>10. \A k \in CacheKeys : CachedOK(k, routeCache[k], known)
  BY <1>7, MoreIsKnown DEF RouteInv
<1> QED BY <1>1, <1>6, <1>7, <1>9, <1>10 DEF RouteInv, RouteTypes

LEMMA PersistDynamicRouteStep ==
  ASSUME RouteInv, NEW c \in RouteCall, PersistDynamicRoute(c)
  PROVE  RouteInv'
<1>1. /\ UNCHANGED <<registered, routeCache, unregistered>> /\ routeFaults' \in 0 .. MaxRouteFaults
      /\ Known' = Known
  BY FaultsBounded DEF PersistDynamicRoute, Known
<1>2. PICK t \in Trip : t = route[c].trip
  BY CallTyped
<1>3. PICK new \in Answers : new = route[c].answer
  BY CallTyped
<1>4. Fits(t, new.segments) /\ Knows(Known, new.segments)
  BY <1>2, <1>3, CallTyped DEF PersistDynamicRoute, At, CallOK
<1>5. /\ route' \in [RouteCall -> Calls]
      /\ \A q \in RouteCall : CallOK(route'[q], Known)
  <2>1. PICK x : x = [route[c] EXCEPT !.stage = "computed"]
    OBVIOUS
  <2>2. x = [stage |-> "computed", trip |-> route[c].trip, drive |-> route[c].drive,
             answer |-> route[c].answer]
    BY <2>1, CallTyped, Staged
  <2>3. x \in Calls /\ CallOK(x, Known)
    BY <1>2, <1>3, <1>4, <2>2, CallTyped, KnownCall
  <2> QED BY <2>1, <2>3, CallMoves DEF PersistDynamicRoute, Go
<1>6. routes \in [Trip -> Entries] /\ \A u \in Trip : RowOK(u, routes[u])
  BY DEF RouteInv, RouteTypes
<1>7. CASE /\ routes' = [routes EXCEPT ![t] = [here |-> TRUE,
                answer |-> [new EXCEPT !.segments = ReplaceSegments(routes[t].answer.segments, new.segments)]]]
           /\ DOMAIN stretch' = DOMAIN stretch \cup SegmentIds(new.segments)
  <2>1. [new EXCEPT !.segments = ReplaceSegments(routes[t].answer.segments, new.segments)] = new
    BY DEF ReplaceSegments, Answers
  <2>2. routes' = [routes EXCEPT ![t] = [here |-> TRUE, answer |-> new]]
    BY <1>7, <2>1
  <2>3. [here |-> TRUE, answer |-> new] \in Entries /\ RowOK(t, [here |-> TRUE, answer |-> new])
    BY <1>4 DEF Entries, RowOK
  <2>4. routes' \in [Trip -> Entries] /\ \A u \in Trip : RowOK(u, routes'[u])
    BY <1>6, <2>2, <2>3
  <2>6. DOMAIN stretch' \subseteq SegmentIdsOfDrives
    <3>1. SegmentIds(new.segments) \subseteq SegmentIdsOfDrives
      BY SegmentsTyped DEF Answers
    <3> QED BY <1>7, <3>1 DEF RouteInv, RouteTypes
  <2> QED BY <1>1, <1>5, <2>4, <2>6 DEF RouteInv, RouteTypes
<1>8. CASE UNCHANGED routeDb
  <2>1. UNCHANGED <<routes, stretch>>
    BY <1>8 DEF routeDb
  <2> QED BY <1>1, <1>5, <1>6, <2>1 DEF RouteInv, RouteTypes
<1> QED BY <1>2, <1>3, <1>7, <1>8 DEF PersistDynamicRoute

LEMMA CacheSetStep ==
  ASSUME RouteInv, NEW c \in RouteCall, CacheSet(c)
  PROVE  RouteInv'
<1>1. /\ UNCHANGED <<routes, stretch, registered, unregistered>> /\ routeFaults' \in 0 .. MaxRouteFaults
      /\ Known' = Known
  BY FaultsBounded DEF CacheSet, Known, routeDb
<1>2. PICK t \in Trip : t = route[c].trip
  BY CallTyped
<1>3. PICK new \in Answers : new = route[c].answer
  BY CallTyped
<1>4. Fits(t, new.segments) /\ Knows(Known, new.segments)
  BY <1>2, <1>3, CallTyped DEF CacheSet, At, CallOK
<1>5. /\ route' \in [RouteCall -> Calls]
      /\ \A q \in RouteCall : CallOK(route'[q], Known)
  <2>1. ASSUME NEW s \in {"served", "failed"}, Go(c, s)
        PROVE  /\ route' \in [RouteCall -> Calls]
               /\ \A q \in RouteCall : CallOK(route'[q], Known)
    <3>1. PICK x : x = [route[c] EXCEPT !.stage = s]
      OBVIOUS
    <3>2. x = [stage |-> s, trip |-> route[c].trip, drive |-> route[c].drive,
               answer |-> route[c].answer]
      BY <3>1, CallTyped, Staged
    <3>3. x \in Calls /\ CallOK(x, Known)
      BY <1>2, <1>3, <1>4, <3>2, CallTyped, KnownCall, OpenCall
    <3> QED BY <2>1, <3>1, <3>3, CallMoves DEF Go
  <2> QED BY <2>1 DEF CacheSet
<1>6. /\ routeCache' \in [CacheKeys -> Entries]
      /\ \A k \in CacheKeys : CachedOK(k, routeCache'[k], Known)
  <2>1. /\ routeCache \in [CacheKeys -> Entries]
        /\ \A k \in CacheKeys : CachedOK(k, routeCache[k], Known)
    BY DEF RouteInv, RouteTypes
  <2>2. CASE routeCache' = [routeCache EXCEPT ![CacheKeyOf[t]] = [here |-> TRUE, answer |-> new]]
    <3>1. /\ [here |-> TRUE, answer |-> new] \in Entries
          /\ CachedOK(CacheKeyOf[t], [here |-> TRUE, answer |-> new], Known)
      BY <1>4, SameTrip DEF Entries, CachedOK
    <3> QED BY <2>1, <2>2, <3>1
  <2> QED BY <1>2, <1>3, <2>1, <2>2 DEF CacheSet
<1> QED BY <1>1, <1>5, <1>6 DEF RouteInv, RouteTypes

LEMMA RouteExpiresStep ==
  ASSUME RouteInv, NEW k \in DOMAIN routeCache, RouteExpires(k)
  PROVE  RouteInv'
<1>1. /\ UNCHANGED <<routes, stretch, registered, route, unregistered, routeFaults>> /\ Known' = Known
      /\ routeCache' = [routeCache EXCEPT ![k] = NoRoute]
  BY DEF RouteExpires, routeDb, Known
<1>2. CachedOK(k, NoRoute, Known) /\ NoRoute \in Entries
  BY NothingTyped DEF CachedOK, NoRoute
<1> QED BY <1>1, <1>2 DEF RouteInv, RouteTypes

LEMMA EndRouteCallStep ==
  ASSUME RouteInv, NEW c \in RouteCall, EndRouteCall(c)
  PROVE  RouteInv'
<1>1. NoRouteCall \in Calls /\ CallOK(NoRouteCall, Known)
  BY NothingTyped DEF CallOK
<1>2. routeFaults' \in 0 .. MaxRouteFaults
  BY DEF EndRouteCall, RouteInv, RouteTypes
<1> QED BY <1>1, <1>2, OnlyCall DEF EndRouteCall

LEMMA RouteInitOK == RouteInit => RouteInv
<1> SUFFICES ASSUME RouteInit PROVE RouteInv
  OBVIOUS
<1>1. \A known : CallOK(NoRouteCall, known)
  BY NothingTyped DEF CallOK
<1>2. \A t, known : RowOK(t, NoRoute) /\ CachedOK(t, NoRoute, known)
  BY DEF RowOK, CachedOK, NoRoute, NoAnswerYet
<1>3. DOMAIN stretch = {}
  BY DEF RouteInit
<1>4. Known = {} /\ routeFaults \in 0 .. MaxRouteFaults
  BY RouteServiceAssumption DEF RouteInit, Known
<1>5. RouteTypes
  BY <1>3, <1>4, NothingTyped DEF RouteInit, RouteTypes, CacheKeys
<1>6. \A t \in Trip : routes[t] = NoRoute
  BY DEF RouteInit
<1>7. \A k \in CacheKeys : routeCache[k] = NoRoute
  BY DEF RouteInit, CacheKeys
<1>8. \A c \in RouteCall : route[c] = NoRouteCall
  BY DEF RouteInit
<1> QED BY <1>1, <1>2, <1>5, <1>6, <1>7, <1>8 DEF RouteInv

LEMMA RouteStepOK == RouteInv /\ [RouteNext]_routeVars => RouteInv'
<1> SUFFICES ASSUME RouteInv, [RouteNext]_routeVars PROVE RouteInv'
  OBVIOUS
<1>1. CASE UNCHANGED routeVars
  <2>1. UNCHANGED <<routes, stretch, registered, routeCache, route, unregistered, routeFaults>>
    BY <1>1 DEF routeVars, routeDb
  <2> QED BY <2>1 DEF RouteInv, RouteTypes, Known
<1>2. ASSUME NEW c \in RouteCall,
             \/ \E t \in Trip : CacheGet(c, t)
             \/ LoadHeader(c) \/ LoadSegments(c) \/ ComputeLiveRoutePath(c)
             \/ PersistCachedRoutePath(c) \/ GetRouteFromOsrm(c) \/ EnsureCapacitySegments(c)
             \/ PersistDynamicRoute(c) \/ CacheSet(c) \/ EndRouteCall(c)
      PROVE  RouteInv'
  BY <1>2, CacheGetStep, LoadHeaderStep, LoadSegmentsStep, ComputeLiveRoutePathStep,
     PersistCachedRoutePathStep, GetRouteFromOsrmStep, EnsureCapacitySegmentsStep,
     PersistDynamicRouteStep, CacheSetStep, EndRouteCallStep
<1>3. CASE \E key \in DOMAIN routeCache : RouteExpires(key)
  BY <1>3, RouteExpiresStep
<1> QED BY <1>1, <1>2, <1>3 DEF RouteNext

LEMMA RouteInvImplies == RouteInv => RouteTypeOK /\ RouteIsWhole
<1> SUFFICES ASSUME RouteInv PROVE RouteTypeOK /\ RouteIsWhole
  OBVIOUS
<1>1. RouteTypeOK
  <2>1. ASSUME NEW t \in Trip, routes[t].here PROVE routes[t].answer.segments # <<>>
    <3>1. Fits(t, routes[t].answer.segments)
      BY <2>1 DEF RouteInv, RowOK
    <3> QED BY <3>1, FitsIsWhole
  <2>2. \A c \in RouteCall : /\ route[c].trip \in Trip /\ route[c].drive \in Drive \cup {NoPath}
                             /\ route[c].answer.path \in Drive \cup {NoPath}
    BY CallTyped DEF Paths, Answers
  <2> QED BY <2>1, <2>2 DEF RouteInv, RouteTypes, RouteTypeOK, Known, SegmentIdsOfDrives
<1>2. ASSUME NEW c \in RouteCall, route[c].stage \in {"served", "cached"}
      PROVE  LET segments == route[c].answer.segments IN
             /\ segments # <<>>
             /\ \E t \in Trip : /\ CacheKeyOf[t] = CacheKeyOf[route[c].trip]
                                /\ \E d \in Drives[t] : AreStretches(segments, d)
             /\ SegmentIds(segments) \subseteq registered \cup unregistered
  <2>1. PICK segments : segments = route[c].answer.segments
    OBVIOUS
  <2>2. CallOK(route[c], Known) /\ route[c].trip \in Trip
    BY CallTyped
  <2>3. FitsKey(CacheKeyOf[route[c].trip], segments)
    BY <1>2, <2>1, <2>2, SameTrip DEF CallOK
  <2>4. PICK t \in Trip : CacheKeyOf[t] = CacheKeyOf[route[c].trip] /\ Fits(t, segments)
    BY <2>3 DEF FitsKey
  <2>5. SegmentIds(segments) \subseteq registered \cup unregistered
    BY <1>2, <2>1, <2>2 DEF CallOK, Knows, Known
  <2> QED BY <2>1, <2>4, <2>5, FitsIsWhole
<1> QED BY <1>1, <1>2 DEF RouteIsWhole

\* Whatever is recomputed, cached twice or persisted in between, and whichever
\* step fails, the route of an answered call is a whole drive for its trip or
\* for one with the same cache key, its segments are the stretches of that
\* drive with their full time, and the capacity service knows them or was told
\* of them in vain.
THEOREM RoutesAreWhole == RouteSpec => [](RouteTypeOK /\ RouteIsWhole)
BY RouteInitOK, RouteStepOK, RouteInvImplies, PTL DEF RouteSpec

-----------------------------------------------------------------------------
(* The parts together. *)

EffortInv == AvailInv /\ PushInv /\ RouteInv /\ ShortestInv

LEMMA EffortStepOK == EffortInv /\ [EffortNext]_effortVars => EffortInv'
<1> SUFFICES ASSUME EffortInv, [EffortNext]_effortVars PROVE EffortInv'
  OBVIOUS
<1>1. [AvailNext]_availVars /\ [PushNext]_pushVars /\ [RouteNext]_routeVars /\ [ShortestNext]_shortestVars
  BY DEF EffortNext, effortVars
<1> QED BY <1>1, AvailStep, PushStep, RouteStepOK, ShortestStep DEF EffortInv

\* Each of the four parts keeps its types and its promise in every behaviour
\* in which they take turns: a cached count is not older than it may be, the
\* inbox tells what happened to a push, a route is whole and the shortest way
\* is the shortest.
THEOREM EffortIsSound ==
  EffortSpec => [](EffortTypeOK /\ AnswersAreFresh /\ DeliveryStatusIsTrue /\ RouteIsWhole /\ RouteIsShortest)
<1>1. EffortInit => EffortInv
  BY AvailInitOK, PushInitOK, RouteInitOK, ShortestInitOK DEF EffortInit, EffortInv
<1>2. EffortInv => EffortTypeOK /\ AnswersAreFresh /\ DeliveryStatusIsTrue /\ RouteIsWhole /\ RouteIsShortest
  BY AvailInvImplies, PushInvImplies, RouteInvImplies, ShortestInvImplies DEF EffortInv, EffortTypeOK
<1> QED BY <1>1, <1>2, EffortStepOK, PTL DEF EffortSpec
=============================================================================
