------------------------- MODULE OtaInstall_proofs --------------------------
(***************************************************************************)
(* First the script of a package, for every call of the generator: any     *)
(* number of images, new partitions and checks, any sizes, any order.      *)
(* Induction over the numbers comes from the finite sets below a number    *)
(* (LeastNumber); from it follow what the recursive functions of           *)
(* OtaPackage return and what FlattenSeq makes of the blocks of a script.  *)
(* Layout says where the lines of a script are, Built which steps it is    *)
(* made of, NodesFit how its progress rises; ScriptIsWellMade is what a    *)
(* device needs of them.                                                   *)
(*                                                                         *)
(* Then a device that runs the script of any package, with any number of   *)
(* failed writes and power cuts.  Shape adds to ScriptIsWellMade the types *)
(* of the variables, and each theorem has an inductive invariant of its    *)
(* own over Shape: Recorded, Guarded, Written with Claimed, Ahead, Said.   *)
(***************************************************************************)
EXTENDS OtaInstall, TLAPS, FiniteSetTheorems, SequenceTheorems

-----------------------------------------------------------------------------
(* Induction.                                                              *)

(* A set of numbers that is not empty has a least element.                 *)
LEMMA LeastNumber ==
  ASSUME NEW T \in SUBSET Nat, T # {}
  PROVE  \E m \in T : \A n \in T : m <= n
<1> DEFINE Below == {0 .. n : n \in T}
<1>1. Below \subseteq FiniteSubsetsOf(Nat)
  <2>1. \A n \in T : IsFiniteSet(0 .. n)
    BY FS_Interval
  <2> QED BY <2>1 DEF FiniteSubsetsOf
<1>2. Below # {}
  OBVIOUS
<1>3. PICK X \in Below : \A Y \in Below : <<Y, X>> \notin StrictSubsetOrdering(Nat)
  BY <1>1, <1>2, FS_StrictSubsetOrderingWellFounded, WFMin
<1>4. PICK m \in T : X = 0 .. m
  OBVIOUS
<1>5. ASSUME NEW n \in T, n < m
      PROVE  FALSE
  <2>1. 0 .. n \in SUBSET Nat /\ 0 .. m \in SUBSET Nat
    OBVIOUS
  <2>2. 0 .. n \subseteq 0 .. m /\ 0 .. n # 0 .. m
    BY <1>5
  <2>3. <<0 .. n, 0 .. m>> \in StrictSubsetOrdering(Nat)
    BY <2>1, <2>2 DEF StrictSubsetOrdering
  <2> QED BY <1>3, <1>4, <2>3
<1> QED BY <1>5

(* A set that holds 0 and, with a number, also the next, holds all numbers *)
(* up to a bound until which that is so.                                   *)
LEMMA Induction ==
  ASSUME NEW T, NEW n \in Nat, 0 \in T,
         \A k \in 0 .. n - 1 : k \in T => k + 1 \in T
  PROVE  0 .. n \subseteq T
<1> DEFINE Rest == (0 .. n) \ T
<1>1. SUFFICES ASSUME Rest # {} PROVE FALSE
  OBVIOUS
<1>2. PICK m \in Rest : \A k \in Rest : m <= k
  <2>1. Rest \in SUBSET Nat
    OBVIOUS
  <2> HIDE DEF Rest
  <2> QED BY <1>1, <2>1, LeastNumber
<1>3. m # 0 /\ m \in 0 .. n /\ m \notin T
  OBVIOUS
<1>4. m - 1 \in 0 .. n - 1 /\ m - 1 \notin Rest
  BY <1>2, <1>3
<1>5. m - 1 \in T
  BY <1>3, <1>4
<1>6. (m - 1) + 1 \in T
  BY <1>4, <1>5
<1> QED BY <1>3, <1>6

(* A function of the numbers up to a bound can be given by its first value *)
(* and by what each value makes of the one before.                         *)
CanStep(n, V, c, F) ==
  n \in Nat /\ c \in V /\ \A i \in 1 .. n : \A v \in V : F[i][v] \in V

Follows(g, n, V, c, F) ==
  g \in [0 .. n -> V] /\ g[0] = c /\ \A i \in 1 .. n : g[i] = F[i][g[i - 1]]

(* Such a function exists: it is put together by induction over the bound. *)
LEMMA Recursion ==
  ASSUME NEW n, NEW V, NEW c, NEW F, CanStep(n, V, c, F)
  PROVE  \E g : Follows(g, n, V, c, F)
<1> USE DEF CanStep
<1> DEFINE Is(g, k) == g[0] = c /\ \A i \in 1 .. k : g[i] = F[i][g[i - 1]]
           T == {k \in 0 .. n : \E g \in [0 .. k -> V] : Is(g, k)}
<1>1. 0 \in T
  <2> DEFINE g == [i \in 0 .. 0 |-> c]
  <2>1. g \in [0 .. 0 -> V] /\ g[0] = c
    OBVIOUS
  <2>2. Is(g, 0)
    BY <2>1
  <2>3. 0 \in 0 .. n
    OBVIOUS
  <2> HIDE DEF g, Is
  <2> QED BY <2>1, <2>2, <2>3
<1>2. ASSUME NEW k \in 0 .. n - 1, k \in T
      PROVE  k + 1 \in T
  <2>1. PICK g \in [0 .. k -> V] : Is(g, k)
    BY <1>2
  <2> DEFINE h == [i \in 0 .. k + 1 |-> IF i = k + 1 THEN F[k + 1][g[k]] ELSE g[i]]
  <2>2. h \in [0 .. k + 1 -> V]
    <3>1. k + 1 \in 1 .. n /\ g[k] \in V
      OBVIOUS
    <3>2. F[k + 1][g[k]] \in V
      BY <3>1
    <3>3. \A i \in 0 .. k + 1 : i # k + 1 => i \in 0 .. k
      OBVIOUS
    <3> QED BY <3>2, <3>3
  <2>3. \A i \in 0 .. k : h[i] = g[i]
    OBVIOUS
  <2>4. h[k + 1] = F[k + 1][g[k]]
    OBVIOUS
  <2>5. ASSUME NEW i \in 1 .. k + 1
        PROVE  h[i] = F[i][h[i - 1]]
    <3> HIDE DEF h
    <3>1. CASE i = k + 1
      <4>1. i - 1 = k
        BY <3>1
      <4> QED BY <3>1, <4>1, <2>3, <2>4
    <3>2. CASE i # k + 1
      <4>1. i \in 1 .. k /\ i \in 0 .. k /\ i - 1 \in 0 .. k
        BY <3>2
      <4> QED BY <4>1, <2>1, <2>3
    <3> QED BY <3>1, <3>2
  <2>6. h[0] = c
    BY <2>1
  <2>7. k + 1 \in 0 .. n
    OBVIOUS
  <2> QED BY <2>2, <2>5, <2>6, <2>7
<1>3. 0 .. n \subseteq T
  <2> HIDE DEF T
  <2> QED BY <1>1, <1>2, Induction
<1>4. n \in T
  BY <1>3
<1> QED BY <1>4 DEF Follows

-----------------------------------------------------------------------------
(* What Kept keeps is a sequence of elements of both.                      *)
LEMMA KeptIsSeq ==
  ASSUME NEW s, NEW S, NEW E, Len(s) \in Nat,
         \A i \in 1 .. Len(s) : s[i] \in S => s[i] \in E
  PROVE  Kept(s, S) \in Seq(E)
<1> DEFINE n == Len(s)
           F == [i \in 1 .. n |-> [v \in Seq(E) |-> IF s[i] \in S THEN Append(v, s[i]) ELSE v]]
           IsKept(g) == g = [i \in 0 .. n |-> IF i = 0 THEN <<>>
                               ELSE IF s[i] \in S THEN Append(g[i - 1], s[i]) ELSE g[i - 1]]
<1>1. CanStep(n, Seq(E), <<>>, F)
  BY AppendProperties DEF CanStep
<1>2. <<>> \in Seq(E)
  OBVIOUS
<1>3. PICK g : Follows(g, n, Seq(E), <<>>, F)
  <2> HIDE DEF F
  <2> QED BY <1>1, Recursion, Zenon
<1>4. IsKept(g)
  <2>1. ASSUME NEW i \in 0 .. n
        PROVE  g[i] = IF i = 0 THEN <<>>
                      ELSE IF s[i] \in S THEN Append(g[i - 1], s[i]) ELSE g[i - 1]
    <3>1. CASE i = 0
      BY <1>3, <3>1 DEF Follows
    <3>2. CASE i # 0
      <4>1. i \in 1 .. n /\ i - 1 \in 0 .. n
        BY <3>2
      <4>2. g[i - 1] \in Seq(E)
        BY <1>3, <4>1 DEF Follows
      <4> QED BY <3>2, <1>3, <4>1, <4>2 DEF Follows
    <3> QED BY <3>1, <3>2
  <2> QED BY <2>1, <1>3 DEF Follows
<1> DEFINE kept == CHOOSE h : IsKept(h)
<1>5. IsKept(kept)
  <2> HIDE DEF IsKept
  <2> QED BY <1>4
<1>6. Kept(s, S) = kept[n]
  BY DEF Kept
<1> HIDE DEF kept
<1> DEFINE T == {i \in 0 .. n : kept[i] \in Seq(E)}
<1>7. 0 \in T
  BY <1>5, <1>2
<1>8. ASSUME NEW k \in 0 .. n - 1, k \in T
      PROVE  k + 1 \in T
  <2>1. k + 1 \in 0 .. n /\ k + 1 # 0 /\ (k + 1) - 1 = k
    OBVIOUS
  <2>2. kept[k + 1] = IF s[k + 1] \in S THEN Append(kept[k], s[k + 1]) ELSE kept[k]
    BY <1>5, <2>1
  <2>3. kept[k] \in Seq(E)
    BY <1>8
  <2>4. kept[k + 1] \in Seq(E)
    BY <2>2, <2>3, AppendProperties
  <2> QED BY <2>1, <2>4
<1>9. 0 .. n \subseteq T
  <2> HIDE DEF T
  <2> QED BY <1>7, <1>8, Induction
<1> QED BY <1>6, <1>9

(* The sums of the weights of the first files of a sequence.               *)
LEMMA UpToIs ==
  ASSUME NEW weight, NEW s, Len(s) \in Nat,
         \A i \in 1 .. Len(s) : weight[s[i]] \in Nat \ {0}
  PROVE  /\ UpTo(weight, s, 0) = 0
         /\ \A i \in 0 .. Len(s) : UpTo(weight, s, i) \in Nat
         /\ \A i \in 1 .. Len(s) :
              UpTo(weight, s, i) = UpTo(weight, s, i - 1) + weight[s[i]]
<1> DEFINE n == Len(s)
           F == [i \in 1 .. n |-> [v \in Nat |-> v + weight[s[i]]]]
           IsSum(g) == g = [k \in 0 .. n |-> IF k = 0 THEN 0 ELSE g[k - 1] + weight[s[k]]]
<1>1. CanStep(n, Nat, 0, F)
  BY DEF CanStep
<1>2. PICK g : Follows(g, n, Nat, 0, F)
  <2> HIDE DEF F
  <2> QED BY <1>1, Recursion, Zenon
<1>3. IsSum(g)
  <2>1. ASSUME NEW k \in 0 .. n
        PROVE  g[k] = IF k = 0 THEN 0 ELSE g[k - 1] + weight[s[k]]
    <3>1. CASE k = 0
      BY <1>2, <3>1 DEF Follows
    <3>2. CASE k # 0
      <4>1. k \in 1 .. n /\ k - 1 \in 0 .. n
        BY <3>2
      <4>2. g[k - 1] \in Nat
        BY <1>2, <4>1 DEF Follows
      <4> QED BY <3>2, <1>2, <4>1, <4>2 DEF Follows
    <3> QED BY <3>1, <3>2
  <2> QED BY <2>1, <1>2 DEF Follows
<1> DEFINE sum == CHOOSE h : IsSum(h)
<1>4. IsSum(sum)
  <2> HIDE DEF IsSum
  <2> QED BY <1>3
<1>5. \A i : UpTo(weight, s, i) = sum[i]
  BY DEF UpTo
<1> HIDE DEF sum
<1>6. sum[0] = 0
  BY <1>4
<1>7. ASSUME NEW k \in 1 .. n
      PROVE  sum[k] = sum[k - 1] + weight[s[k]]
  BY <1>4
<1> DEFINE T == {i \in 0 .. n : sum[i] \in Nat}
<1>8. 0 \in T
  BY <1>6
<1>9. ASSUME NEW k \in 0 .. n - 1, k \in T
      PROVE  k + 1 \in T
  <2>1. k + 1 \in 1 .. n /\ k + 1 \in 0 .. n /\ (k + 1) - 1 = k
    OBVIOUS
  <2>2. sum[k + 1] = sum[k] + weight[s[k + 1]]
    BY <1>7, <2>1
  <2>3. sum[k] \in Nat /\ weight[s[k + 1]] \in Nat
    BY <1>9, <2>1
  <2> QED BY <2>1, <2>2, <2>3
<1>10. 0 .. n \subseteq T
  <2> HIDE DEF T
  <2> QED BY <1>8, <1>9, Induction
<1> QED BY <1>5, <1>6, <1>7, <1>10

(* They ascend.                                                            *)
LEMMA UpToAscends ==
  ASSUME NEW weight, NEW s, Len(s) \in Nat,
         \A i \in 1 .. Len(s) : weight[s[i]] \in Nat \ {0},
         NEW i \in 0 .. Len(s), NEW j \in 0 .. Len(s), i < j
  PROVE  UpTo(weight, s, i) < UpTo(weight, s, j)
<1> DEFINE n == Len(s)
           sum(k) == UpTo(weight, s, k)
           T == {k \in 0 .. n : i < k => sum(i) < sum(k)}
<1>1. \A k \in 0 .. n : sum(k) \in Nat
  BY UpToIs
<1>2. \A k \in 1 .. n : sum(k) = sum(k - 1) + weight[s[k]]
  BY UpToIs
<1> HIDE DEF sum
<1>3. 0 \in T
  OBVIOUS
<1>4. ASSUME NEW k \in 0 .. n - 1, k \in T
      PROVE  k + 1 \in T
  <2>1. k + 1 \in 1 .. n /\ k + 1 \in 0 .. n /\ (k + 1) - 1 = k /\ k \in 0 .. n
    OBVIOUS
  <2>2. sum(k + 1) = sum(k) + weight[s[k + 1]]
    BY <1>2, <2>1
  <2>3. sum(k) \in Nat /\ sum(i) \in Nat /\ weight[s[k + 1]] \in Nat \ {0}
    BY <1>1, <2>1
  <2>4. ASSUME i < k + 1
        PROVE  sum(i) < sum(k + 1)
    <3>1. CASE i = k
      BY <3>1, <2>2, <2>3
    <3>2. CASE i # k
      <4>1. i < k
        BY <2>4, <3>2
      <4>2. sum(i) < sum(k)
        BY <4>1, <1>4
      <4> QED BY <4>2, <2>2, <2>3
    <3> QED BY <3>1, <3>2
  <2> QED BY <2>1, <2>4
<1>5. 0 .. n \subseteq T
  <2> HIDE DEF T
  <2> QED BY <1>3, <1>4, Induction
<1>6. j \in T
  BY <1>5
<1> QED BY <1>6 DEF sum

(* The list of new partitions stays a list of files while it is walked.    *)
LEMMA NewPartitionsIsSeq ==
  ASSUME NEW call, call.fresh \in Seq(Files)
  PROVE  NewPartitions(call) \in Seq(Files)
<1> DEFINE n == Len(call.fresh)
           V == [list : Seq(Files), at : Nat \ {0}]
           first == [list |-> call.fresh, at |-> 1]
           Visit(loop) ==
             IF loop.at > Len(loop.list) THEN loop
             ELSE IF loop.list[loop.at] \in Named THEN [loop EXCEPT !.at = @ + 1]
             ELSE [list |-> RemoveAt(loop.list, loop.at), at |-> loop.at + 1]
           F == [i \in 1 .. n |-> [v \in V |-> Visit(v)]]
           IsWalk(g) == g = [k \in 0 .. n |-> IF k = 0 THEN first ELSE Visit(g[k - 1])]
<1>1. n \in Nat /\ first \in V
  OBVIOUS
<1>2. ASSUME NEW v \in V
      PROVE  Visit(v) \in V
  <2>1. CASE v.at > Len(v.list)
    BY <2>1
  <2>2. CASE ~(v.at > Len(v.list)) /\ v.list[v.at] \in Named
    BY <2>2
  <2>3. CASE ~(v.at > Len(v.list)) /\ v.list[v.at] \notin Named
    <3>1. v.list \in Seq(Files) /\ v.at \in Nat \ {0}
      OBVIOUS
    <3>2. \A k \in 1 .. Len(v.list) : v.list[k] \in Files
      BY <3>1
    <3>3. SubSeq(v.list, 1, v.at - 1) \in Seq(Files)
      BY <2>3, <3>1, <3>2, SubSeqProperties
    <3>4. SubSeq(v.list, v.at + 1, Len(v.list)) \in Seq(Files)
      BY <2>3, <3>1, <3>2, SubSeqProperties
    <3>5. RemoveAt(v.list, v.at) \in Seq(Files)
      BY <3>3, <3>4, ConcatProperties DEF RemoveAt
    <3> QED BY <2>3, <3>1, <3>5
  <2> QED BY <2>1, <2>2, <2>3
<1> HIDE DEF V, Visit, first
<1>3. CanStep(n, V, first, F)
  BY <1>1, <1>2 DEF CanStep
<1>4. PICK g : Follows(g, n, V, first, F)
  <2> HIDE DEF F
  <2> QED BY <1>3, Recursion, Zenon
<1>5. IsWalk(g)
  <2>1. ASSUME NEW k \in 0 .. n
        PROVE  g[k] = IF k = 0 THEN first ELSE Visit(g[k - 1])
    <3>1. CASE k = 0
      BY <1>4, <3>1 DEF Follows
    <3>2. CASE k # 0
      <4>1. k \in 1 .. n /\ k - 1 \in 0 .. n
        BY <3>2
      <4>2. g[k - 1] \in V
        BY <1>4, <4>1 DEF Follows
      <4> QED BY <3>2, <1>4, <4>1, <4>2 DEF Follows
    <3> QED BY <3>1, <3>2
  <2> QED BY <2>1, <1>4 DEF Follows
<1> DEFINE visited == CHOOSE h : IsWalk(h)
<1>6. IsWalk(visited)
  <2> HIDE DEF IsWalk
  <2> QED BY <1>5
<1>7. NewPartitions(call) = IF call.newpartition THEN visited[n].list ELSE <<>>
  BY DEF NewPartitions, Visit, first
<1> HIDE DEF visited
<1> DEFINE T == {i \in 0 .. n : visited[i] \in V}
<1>8. 0 \in T
  BY <1>6, <1>1
<1>9. ASSUME NEW k \in 0 .. n - 1, k \in T
      PROVE  k + 1 \in T
  <2>1. k + 1 \in 0 .. n /\ k + 1 # 0 /\ (k + 1) - 1 = k
    BY <1>1
  <2>2. visited[k + 1] = Visit(visited[k])
    BY <1>6, <2>1
  <2>3. visited[k] \in V
    BY <1>9
  <2> QED BY <2>1, <2>2, <2>3, <1>2
<1>10. 0 .. n \subseteq T
  <2> HIDE DEF T
  <2> QED BY <1>1, <1>8, <1>9, Induction
<1>11. visited[n] \in V
  BY <1>1, <1>10
<1> QED BY <1>7, <1>11 DEF V

-----------------------------------------------------------------------------
(* A sequence laid out in blocks: where each block of b begins in s.       *)
Blocks(s, b, off) ==
  /\ off \in [1 .. Len(b) + 1 -> Nat]
  /\ off[1] = 0 /\ off[Len(b) + 1] = Len(s)
  /\ \A i \in 1 .. Len(b) : off[i + 1] = off[i] + Len(b[i])
  /\ \A i \in 1 .. Len(b) : \A k \in 1 .. Len(b[i]) : s[off[i] + k] = b[i][k]

(* FlattenSeq appends one sequence after the other.                        *)
Appends(f, b, S) ==
  /\ Len(b) \in Nat \ {0}
  /\ \A k \in 1 .. Len(b) : b[k] \in Seq(S) /\ f[k] \in Seq(S)
  /\ f[1] = b[1]
  /\ \A k \in 2 .. Len(b) : f[k] = f[k - 1] \o b[k]

(* FlattenSeq appends one sequence after the other.                        *)
LEMMA FlattenAppends ==
  ASSUME NEW S, NEW b \in Seq(Seq(S)), b # <<>>
  PROVE  \E f : FlattenSeq(b) = f[Len(b)] /\ Appends(f, b, S)
<1> DEFINE n == Len(b)
           F == [i \in 1 .. n |-> [v \in Seq(S) |-> IF i = 1 THEN b[i] ELSE v \o b[i]]]
           IsFlat(g) == g = [i \in 1 .. n |-> IF i = 1 THEN b[i] ELSE g[i - 1] \o b[i]]
<1>1. n \in Nat \ {0} /\ \A i \in 1 .. n : b[i] \in Seq(S)
  OBVIOUS
<1>2. CanStep(n, Seq(S), <<>>, F)
  <2>1. \A i \in 1 .. n : \A v \in Seq(S) : v \o b[i] \in Seq(S)
    BY <1>1, ConcatProperties
  <2> QED BY <1>1, <2>1 DEF CanStep
<1>3. PICK g : Follows(g, n, Seq(S), <<>>, F)
  <2> HIDE DEF F
  <2> QED BY <1>2, Recursion, Zenon
<1> DEFINE h == [i \in 1 .. n |-> g[i]]
<1>4. IsFlat(h)
  <2>1. ASSUME NEW i \in 1 .. n
        PROVE  h[i] = IF i = 1 THEN b[i] ELSE h[i - 1] \o b[i]
    <3>0. i - 1 \in 0 .. n /\ g[i - 1] \in Seq(S) /\ h[i] = g[i]
      <4>1. i - 1 \in 0 .. n
        OBVIOUS
      <4> QED BY <1>3, <4>1 DEF Follows
    <3>a. g[i] = F[i][g[i - 1]]
      BY <1>3 DEF Follows
    <3>b. g[i] = IF i = 1 THEN b[i] ELSE g[i - 1] \o b[i]
      BY <3>0, <3>a
    <3>1. CASE i = 1
      BY <3>0, <3>b, <3>1
    <3>2. CASE i # 1
      <4>1. i - 1 \in 1 .. n
        BY <3>2
      <4>2. h[i - 1] = g[i - 1]
        BY <4>1
      <4> QED BY <3>2, <3>0, <3>b, <4>2
    <3> QED BY <3>1, <3>2
  <2> HIDE DEF h
  <2>2. h = [i \in 1 .. n |-> h[i]]
    BY DEF h
  <2> QED BY <2>1, <2>2
<1> DEFINE flatten == CHOOSE x : IsFlat(x)
<1>5. IsFlat(flatten)
  <2> HIDE DEF IsFlat, h
  <2> QED BY <1>4
<1>6. FlattenSeq(b) = flatten[n]
  BY <1>1 DEF FlattenSeq
<1> HIDE DEF flatten
<1>7. flatten[1] = b[1]
  BY <1>5, <1>1
<1>8. ASSUME NEW i \in 2 .. n
      PROVE  flatten[i] = flatten[i - 1] \o b[i]
  <2>1. i \in 1 .. n /\ i # 1
    BY <1>1
  <2> QED BY <1>5, <2>1
<1> DEFINE T == {k \in 0 .. n : k > 0 => flatten[k] \in Seq(S)}
<1>9. 0 \in T
  OBVIOUS
<1>10. ASSUME NEW k \in 0 .. n - 1, k \in T
       PROVE  k + 1 \in T
  <2>1. CASE k = 0
    BY <2>1, <1>1, <1>7
  <2>2. CASE k # 0
    <3>1. k + 1 \in 2 .. n /\ (k + 1) - 1 = k /\ k + 1 \in 1 .. n /\ k > 0
      BY <2>2, <1>1
    <3>2. flatten[k + 1] = flatten[k] \o b[k + 1]
      BY <1>8, <3>1
    <3>3. flatten[k] \in Seq(S) /\ b[k + 1] \in Seq(S)
      BY <1>10, <1>1, <3>1
    <3>4. flatten[k] \o b[k + 1] \in Seq(S)
      BY <3>3
    <3>5. flatten[k + 1] \in Seq(S)
      BY <3>2, <3>4
    <3>6. k + 1 \in 0 .. n
      BY <3>1
    <3> QED BY <3>5, <3>6
  <2> QED BY <2>1, <2>2
<1>11. 0 .. n \subseteq T
  <2> HIDE DEF T
  <2> QED BY <1>1, <1>9, <1>10, Induction
<1>12. \A k \in 1 .. n : flatten[k] \in Seq(S)
  <2>1. ASSUME NEW k \in 1 .. n
        PROVE  flatten[k] \in Seq(S)
    <3>1. k \in 0 .. n /\ k > 0
      OBVIOUS
    <3>2. k \in T
      BY <1>11, <3>1
    <3> QED BY <3>1, <3>2
  <2> QED BY <2>1
<1> QED BY <1>1, <1>6, <1>7, <1>8, <1>12 DEF Appends

(* What has been appended stays where it is.                               *)
Begins(s, t) ==
  Len(s) <= Len(t) /\ \A m \in 1 .. Len(s) : t[m] = s[m]

(* What is appended stays the beginning of what is there later.            *)
LEMMA AppendsKeeps ==
  ASSUME NEW S, NEW b, NEW f, Appends(f, b, S),
         NEW i \in 1 .. Len(b), NEW j \in i .. Len(b)
  PROVE  Begins(f[i], f[j])
<1> DEFINE n == Len(b)
           T == {k \in 0 .. n : k >= i => /\ Len(f[i]) <= Len(f[k])
                                         /\ \A m \in 1 .. Len(f[i]) : f[k][m] = f[i][m]}
<1>1. n \in Nat /\ \A k \in 1 .. n : b[k] \in Seq(S) /\ f[k] \in Seq(S)
  BY DEF Appends
<1>2. 0 \in T
  OBVIOUS
<1>3. ASSUME NEW k \in 0 .. n - 1, k \in T
      PROVE  k + 1 \in T
  <2>1. k + 1 \in 0 .. n
    BY <1>1
  <2>2. CASE k + 1 <= i
    <3>1. k + 1 >= i => k + 1 = i
      BY <2>1, <2>2
    <3>2. Len(f[i]) \in Nat
      BY <1>1
    <3> QED BY <2>1, <3>1, <3>2
  <2>3. CASE ~(k + 1 <= i)
    <3>1. k + 1 \in 2 .. n /\ (k + 1) - 1 = k /\ k \in 1 .. n /\ k + 1 \in 1 .. n /\ k >= i
      BY <2>3, <1>1
    <3>2. f[k + 1] = f[k] \o b[k + 1]
      BY <3>1 DEF Appends
    <3>3. f[k] \in Seq(S) /\ b[k + 1] \in Seq(S)
      BY <1>1, <3>1
    <3>4. /\ Len(f[k]) \in Nat /\ Len(f[k + 1]) \in Nat /\ Len(f[k]) <= Len(f[k + 1])
          /\ \A m \in 1 .. Len(f[k]) : f[k + 1][m] = f[k][m]
      <4> DEFINE x == f[k]
                 y == b[k + 1]
      <4>1. x \in Seq(S) /\ y \in Seq(S) /\ f[k + 1] = x \o y
        BY <3>2, <3>3
      <4> HIDE DEF x, y
      <4>2. /\ Len(x) \in Nat /\ Len(y) \in Nat
            /\ Len(x \o y) = Len(x) + Len(y)
            /\ \A m \in 1 .. Len(x) : (x \o y)[m] = x[m]
        BY <4>1
      <4>3. /\ Len(x) \in Nat /\ Len(f[k + 1]) \in Nat /\ Len(x) <= Len(f[k + 1])
            /\ \A m \in 1 .. Len(x) : f[k + 1][m] = x[m]
        BY <4>1, <4>2
      <4> QED BY <4>3 DEF x
    <3>5. Len(f[i]) <= Len(f[k]) /\ \A m \in 1 .. Len(f[i]) : f[k][m] = f[i][m]
      BY <1>3, <3>1
    <3>6. Len(f[i]) \in Nat
      BY <1>1
    <3>7. Len(f[i]) <= Len(f[k + 1])
      <4>1. Len(f[k]) \in Nat /\ Len(f[k + 1]) \in Nat /\ Len(f[k]) <= Len(f[k + 1])
        BY <3>4
      <4>2. Len(f[i]) <= Len(f[k])
        BY <3>5
      <4> QED BY <4>1, <4>2, <3>6
    <3>8. ASSUME NEW m \in 1 .. Len(f[i])
          PROVE  f[k + 1][m] = f[i][m]
      <4>1. m \in 1 .. Len(f[k])
        BY <3>4, <3>5, <3>6
      <4> QED BY <4>1, <3>4, <3>5
    <3> QED BY <2>1, <3>7, <3>8
  <2> QED BY <2>2, <2>3
<1>4. 0 .. n \subseteq T
  <2> HIDE DEF T
  <2> QED BY <1>1, <1>2, <1>3, Induction
<1>5. j \in 0 .. n /\ j >= i
  BY <1>1
<1>6. j \in T
  BY <1>4, <1>5
<1> QED BY <1>5, <1>6 DEF Begins

(* So it lays the sequences out in blocks.                                 *)
LEMMA FlattenIsBlocks ==
  ASSUME NEW S, NEW b \in Seq(Seq(S)), b # <<>>
  PROVE  FlattenSeq(b) \in Seq(S) /\ \E off : Blocks(FlattenSeq(b), b, off)
<1>1. PICK f : FlattenSeq(b) = f[Len(b)] /\ Appends(f, b, S)
  BY FlattenAppends
<1> DEFINE n == Len(b)
           off == [i \in 1 .. n + 1 |-> IF i = 1 THEN 0 ELSE Len(f[i - 1])]
<1>2. n \in Nat \ {0} /\ \A k \in 1 .. n : b[k] \in Seq(S) /\ f[k] \in Seq(S)
  BY <1>1 DEF Appends
<1>3. \A k \in 1 .. n : Len(f[k]) \in Nat /\ Len(b[k]) \in Nat
  BY <1>2
<1>4. off \in [1 .. n + 1 -> Nat]
  <2>1. \A i \in 1 .. n + 1 : i # 1 => i - 1 \in 1 .. n
    BY <1>2
  <2> QED BY <1>3, <2>1
<1>5. off[1] = 0 /\ \A i \in 1 .. n : off[i + 1] = Len(f[i])
  <2>1. \A i \in 1 .. n : i + 1 \in 1 .. n + 1 /\ i + 1 # 1 /\ (i + 1) - 1 = i
    BY <1>2
  <2>2. 1 \in 1 .. n + 1
    BY <1>2
  <2> QED BY <2>1, <2>2
<1> HIDE DEF off
<1>6. ASSUME NEW i \in 1 .. n
      PROVE  /\ off[i + 1] = off[i] + Len(b[i])
             /\ \A k \in 1 .. Len(b[i]) : f[n][off[i] + k] = b[i][k]
  <2>1. /\ off[i + 1] = off[i] + Len(b[i])
        /\ \A k \in 1 .. Len(b[i]) : f[i][off[i] + k] = b[i][k]
        /\ off[i] \in Nat
    <3>1. CASE i = 1
      <4>1. f[i] = b[i] /\ off[i] = 0
        BY <1>1, <1>5, <3>1 DEF Appends
      <4>2. off[i + 1] = Len(f[i])
        BY <1>5
      <4> QED BY <1>3, <4>1, <4>2
    <3>2. CASE i # 1
      <4>1. i \in 2 .. n /\ i - 1 \in 1 .. n /\ (i - 1) + 1 = i
        BY <1>2, <3>2
      <4>2. f[i] = f[i - 1] \o b[i]
        BY <1>1, <4>1 DEF Appends
      <4> DEFINE x == f[i - 1]
                 y == b[i]
      <4>3. x \in Seq(S) /\ y \in Seq(S) /\ f[i] = x \o y
        BY <1>2, <4>1, <4>2
      <4>4. off[i] = Len(x) /\ off[i + 1] = Len(f[i])
        BY <1>5, <4>1
      <4>5. SUFFICES /\ off[i + 1] = off[i] + Len(y)
                     /\ \A k \in 1 .. Len(y) : f[i][off[i] + k] = y[k]
                     /\ off[i] \in Nat
        OBVIOUS
      <4> HIDE DEF x, y
      <4>6. /\ Len(x) \in Nat /\ Len(y) \in Nat
            /\ Len(x \o y) = Len(x) + Len(y)
            /\ \A k \in 1 .. Len(y) : (x \o y)[Len(x) + k] = y[k]
        <5>1. x \in Seq(S) /\ y \in Seq(S)
          BY <4>3
        <5>2. Len(x) \in Nat /\ Len(y) \in Nat
          BY <5>1
        <5>3. Len(x \o y) = Len(x) + Len(y)
          BY <5>1
        <5>4. \A k \in 1 .. Len(y) : (x \o y)[Len(x) + k] = y[k]
          BY <5>1
        <5> QED BY <5>2, <5>3, <5>4
      <4>7. off[i + 1] = off[i] + Len(y) /\ off[i] \in Nat
        BY <4>3, <4>4, <4>6
      <4>8. \A k \in 1 .. Len(y) : f[i][off[i] + k] = y[k]
        <5>1. f[i] = x \o y /\ off[i] = Len(x)
          BY <4>3, <4>4
        <5> QED BY <5>1, <4>6, Zenon
      <4> QED BY <4>7, <4>8
    <3> QED BY <3>1, <3>2
  <2>2. off[i + 1] = Len(f[i])
    BY <1>5
  <2>3. n \in i .. n
    BY <1>2
  <2>4. \A m \in 1 .. Len(f[i]) : f[n][m] = f[i][m]
    <3>1. Begins(f[i], f[n])
      BY <1>1, <2>3, AppendsKeeps, Zenon
    <3> QED BY <3>1 DEF Begins
  <2>5. ASSUME NEW k \in 1 .. Len(b[i])
        PROVE  f[n][off[i] + k] = b[i][k]
    <3>1. off[i] + k \in 1 .. Len(f[i])
      BY <1>3, <2>1, <2>2
    <3> QED BY <2>1, <2>4, <3>1
  <2> QED BY <2>1, <2>5
<1>7. off[n + 1] = Len(f[n])
  BY <1>2, <1>5
<1>8. Blocks(f[n], b, off)
  BY <1>4, <1>5, <1>6, <1>7 DEF Blocks
<1>9. f[n] \in Seq(S)
  BY <1>2
<1> QED BY <1>1, <1>8, <1>9

(* The blocks are in order, and every element is in one.                   *)
LEMMA BlocksAscend ==
  ASSUME NEW s, NEW b, NEW off, Blocks(s, b, off), Len(b) \in Nat,
         \A i \in 1 .. Len(b) : Len(b[i]) \in Nat,
         NEW i \in 1 .. Len(b) + 1, NEW j \in 1 .. Len(b) + 1, i <= j
  PROVE  off[i] <= off[j]
<1> DEFINE n == Len(b)
           T == {k \in 0 .. n : i <= k + 1 => off[i] <= off[k + 1]}
<1>1. \A k \in 1 .. n : /\ off[k + 1] = off[k] + Len(b[k])
                        /\ Len(b[k]) \in Nat /\ off[k] \in Nat
  BY DEF Blocks
<1>2. off[i] \in Nat
  BY DEF Blocks
<1>3. 0 \in T
  BY <1>2
<1>4. ASSUME NEW k \in 0 .. n - 1, k \in T
      PROVE  k + 1 \in T
  <2>1. k + 1 \in 1 .. n /\ k + 1 \in 0 .. n
    OBVIOUS
  <2>2. off[(k + 1) + 1] = off[k + 1] + Len(b[k + 1]) /\ Len(b[k + 1]) \in Nat /\ off[k + 1] \in Nat
    BY <1>1, <2>1
  <2>3. ASSUME i <= (k + 1) + 1
        PROVE  off[i] <= off[(k + 1) + 1]
    <3>1. CASE i = (k + 1) + 1
      BY <3>1, <1>2
    <3>2. CASE i # (k + 1) + 1
      <4>1. i <= k + 1
        BY <2>3, <3>2
      <4>2. off[i] <= off[k + 1]
        BY <4>1, <1>4
      <4> QED BY <4>2, <2>2, <1>2
    <3> QED BY <3>1, <3>2
  <2> QED BY <2>1, <2>3
<1>5. 0 .. n \subseteq T
  <2> HIDE DEF T
  <2> QED BY <1>3, <1>4, Induction
<1>6. j - 1 \in 0 .. n /\ (j - 1) + 1 = j
  OBVIOUS
<1>7. j - 1 \in T
  BY <1>5, <1>6
<1> QED BY <1>6, <1>7

(* Every place of the whole is in one of the blocks.                       *)
LEMMA BlockOf ==
  ASSUME NEW s, NEW b, NEW off, Blocks(s, b, off), Len(b) \in Nat, Len(s) \in Nat,
         \A i \in 1 .. Len(b) : Len(b[i]) \in Nat,
         NEW p \in 1 .. Len(s)
  PROVE  \E i \in 1 .. Len(b) : \E k \in 1 .. Len(b[i]) : p = off[i] + k
<1> DEFINE n == Len(b)
           T == {i \in 1 .. n + 1 : p <= off[i]}
<1>1. /\ off[1] = 0 /\ off[n + 1] = Len(s)
      /\ \A k \in 1 .. n : off[k + 1] = off[k] + Len(b[k])
      /\ \A k \in 1 .. n + 1 : off[k] \in Nat
  BY DEF Blocks
<1>2. n + 1 \in T
  BY <1>1
<1>3. PICK m \in T : \A k \in T : m <= k
  <2>1. T \in SUBSET Nat /\ T # {}
    BY <1>2
  <2> HIDE DEF T
  <2> QED BY <2>1, LeastNumber
<1>4. m \in 1 .. n + 1 /\ m # 1 /\ p <= off[m]
  BY <1>1
<1>5. m - 1 \in 1 .. n /\ (m - 1) + 1 = m
  BY <1>4
<1>6. m - 1 \notin T
  BY <1>3, <1>5
<1>7. off[m - 1] < p /\ off[m - 1] \in Nat /\ off[m] = off[m - 1] + Len(b[m - 1])
  <2>1. off[m - 1] \in Nat /\ off[(m - 1) + 1] = off[m - 1] + Len(b[m - 1])
    BY <1>1, <1>5
  <2>2. ~(p <= off[m - 1])
    BY <1>5, <1>6
  <2> QED BY <1>5, <2>1, <2>2
<1>8. Len(b[m - 1]) \in Nat
  BY <1>5
<1>9. p - off[m - 1] \in 1 .. Len(b[m - 1]) /\ p = off[m - 1] + (p - off[m - 1])
  BY <1>4, <1>7, <1>8
<1> QED BY <1>5, <1>9

Measured(b) == Len(b) \in Nat /\ \A i \in 1 .. Len(b) : Len(b[i]) \in Nat

Covered(s, b, off) ==
  \A p \in 1 .. Len(s) : \E i \in 1 .. Len(b) : \E k \in 1 .. Len(b[i]) : p = off[i] + k

(* The same, said of all places.                                           *)
LEMMA AllCovered ==
  ASSUME NEW s, NEW b, NEW off, Blocks(s, b, off), Measured(b), Len(s) \in Nat
  PROVE  Covered(s, b, off)
<1>1. SUFFICES ASSUME NEW p \in 1 .. Len(s)
               PROVE  \E i \in 1 .. Len(b) : \E k \in 1 .. Len(b[i]) : p = off[i] + k
  BY DEF Covered
<1>2. Len(b) \in Nat /\ \A i \in 1 .. Len(b) : Len(b[i]) \in Nat
  BY DEF Measured
<1> QED BY <1>1, <1>2, BlockOf

-----------------------------------------------------------------------------
(* Where the lines of ota.sh are.                                          *)

Commands == [op : Ops, arg : Int]
Checks == {"verify", "precheck"}
Writes == {"generate", "install"}

(* A sequence behind another.                                              *)
Joined(z, x, y) ==
  /\ Len(x) \in Nat /\ Len(y) \in Nat /\ Len(z) \in Nat
  /\ Len(z) = Len(x) + Len(y)
  /\ \A k \in 1 .. Len(x) : z[k] = x[k]
  /\ \A k \in 1 .. Len(y) : z[Len(x) + k] = y[k]

(* That is what \o does.                                                   *)
LEMMA ConcatJoins ==
  ASSUME NEW S, NEW x \in Seq(S), NEW y \in Seq(S)
  PROVE  x \o y \in Seq(S) /\ Joined(x \o y, x, y)
BY DEF Joined

Announces(nodes, silent, i) == i < Len(nodes) /\ i \notin silent

Block(steps, nodes, silent, marks, i) ==
  Line(steps, nodes, silent, i)
    \o IF i \in marks THEN <<Do("finished", 1)>> ELSE <<>>

BlockSize(nodes, silent, marks, i) ==
  2 + (IF Announces(nodes, silent, i) THEN 1 ELSE 0) + (IF i \in marks THEN 1 ELSE 0)

BlockHas(b, steps, nodes, silent, marks, i) ==
  /\ b \in Seq(Commands)
  /\ Len(b) = BlockSize(nodes, silent, marks, i)
  /\ b[1] = steps[i]
  /\ b[2] = Do("current", nodes[i])
  /\ Announces(nodes, silent, i) => b[3] = Do("next", nodes[i + 1])
  /\ i \in marks => b[Len(b)] = Do("finished", 1)

(* The lines of a step: the step, its node, the next node, the mark.       *)
LEMMA BlockIs ==
  ASSUME NEW steps, NEW nodes, NEW silent, NEW marks, NEW i \in 1 .. Len(nodes),
         Len(nodes) \in Nat, steps[i] \in Commands,
         \A k \in 1 .. Len(nodes) : nodes[k] \in Int
  PROVE  BlockHas(Block(steps, nodes, silent, marks, i), steps, nodes, silent, marks, i)
<1> DEFINE one == <<steps[i], Do("current", nodes[i])>>
           two == IF Announces(nodes, silent, i) THEN <<Do("next", nodes[i + 1])>> ELSE <<>>
           three == IF i \in marks THEN <<Do("finished", 1)>> ELSE <<>>
           b == Block(steps, nodes, silent, marks, i)
<1>1. /\ Do("current", nodes[i]) \in Commands /\ Do("finished", 1) \in Commands
      /\ Announces(nodes, silent, i) => Do("next", nodes[i + 1]) \in Commands
  BY DEF Do, Commands, Ops, Announces
<1>2. b = (one \o two) \o three
  BY DEF Block, Line, Announces
<1>3. one \in Seq(Commands) /\ Len(one) = 2 /\ one[1] = steps[i]
      /\ one[2] = Do("current", nodes[i])
  BY <1>1
<1>4. /\ two \in Seq(Commands)
      /\ Announces(nodes, silent, i) => Len(two) = 1 /\ two[1] = Do("next", nodes[i + 1])
      /\ ~Announces(nodes, silent, i) => Len(two) = 0
  BY <1>1
<1>5. /\ three \in Seq(Commands)
      /\ i \in marks => Len(three) = 1 /\ three[1] = Do("finished", 1)
      /\ i \notin marks => Len(three) = 0
  BY <1>1
<1> HIDE DEF one, two, three
<1> DEFINE x == one \o two
<1>6. x \in Seq(Commands) /\ Joined(x, one, two)
  BY <1>3, <1>4, ConcatJoins
<1>7. b = x \o three
  BY <1>2
<1> HIDE DEF x, b
<1>8. /\ Len(x) = 2 + Len(two) /\ Len(two) \in Nat
      /\ x[1] = steps[i] /\ x[2] = Do("current", nodes[i])
      /\ Announces(nodes, silent, i) => x[3] = Do("next", nodes[i + 1])
  <2>1. Len(x) = 2 + Len(two) /\ Len(two) \in Nat
    BY <1>3, <1>6 DEF Joined
  <2>2. \A k \in 1 .. 2 : x[k] = one[k]
    BY <1>3, <1>6 DEF Joined
  <2>3. \A k \in 1 .. Len(two) : x[2 + k] = two[k]
    BY <1>3, <1>6 DEF Joined
  <2>4. x[1] = steps[i] /\ x[2] = Do("current", nodes[i])
    BY <2>2, <1>3
  <2>5. Announces(nodes, silent, i) => x[3] = Do("next", nodes[i + 1])
    <3>1. SUFFICES ASSUME Announces(nodes, silent, i) PROVE x[3] = Do("next", nodes[i + 1])
      OBVIOUS
    <3>2. Len(two) = 1 /\ two[1] = Do("next", nodes[i + 1])
      BY <3>1, <1>4
    <3>3. x[2 + 1] = two[1]
      BY <2>3, <3>2
    <3> QED BY <3>2, <3>3
  <2> QED BY <2>1, <2>4, <2>5
<1>9. b \in Seq(Commands) /\ Joined(b, x, three)
  BY <1>5, <1>6, <1>7, ConcatJoins
<1>10. /\ Len(x) \in {2, 3}
       /\ Announces(nodes, silent, i) => Len(x) = 3
       /\ ~Announces(nodes, silent, i) => Len(x) = 2
  <2>1. ASSUME Announces(nodes, silent, i) PROVE Len(x) = 3
    <3>1. Len(two) = 1
      BY <2>1, <1>4
    <3> QED BY <3>1, <1>8
  <2>2. ASSUME ~Announces(nodes, silent, i) PROVE Len(x) = 2
    <3>1. Len(two) = 0
      BY <2>2, <1>4
    <3> QED BY <3>1, <1>8
  <2> QED BY <2>1, <2>2
<1>a. Len(b) = Len(x) + Len(three) /\ Len(three) \in Nat
  BY <1>9 DEF Joined
<1>b. \A k \in 1 .. Len(x) : b[k] = x[k]
  BY <1>9 DEF Joined
<1>c. \A k \in 1 .. Len(three) : b[Len(x) + k] = three[k]
  BY <1>9 DEF Joined
<1>11. Len(b) = BlockSize(nodes, silent, marks, i)
  <2>1. Len(x) = 2 + (IF Announces(nodes, silent, i) THEN 1 ELSE 0)
    BY <1>10
  <2>2. Len(three) = IF i \in marks THEN 1 ELSE 0
    BY <1>5
  <2> QED BY <2>1, <2>2, <1>a DEF BlockSize
<1>12. b[1] = steps[i] /\ b[2] = Do("current", nodes[i])
  BY <1>8, <1>b, <1>10
<1>13. Announces(nodes, silent, i) => b[3] = Do("next", nodes[i + 1])
  BY <1>8, <1>b, <1>10
<1>14. i \in marks => b[Len(b)] = Do("finished", 1)
  <2>1. SUFFICES ASSUME i \in marks PROVE b[Len(b)] = Do("finished", 1)
    OBVIOUS
  <2>2. Len(three) = 1 /\ three[1] = Do("finished", 1)
    BY <2>1, <1>5
  <2>3. b[Len(x) + 1] = three[1] /\ Len(b) = Len(x) + 1
    BY <2>2, <1>a, <1>c
  <2> QED BY <2>2, <2>3
<1>15. BlockHas(b, steps, nodes, silent, marks, i)
  BY <1>9, <1>11, <1>12, <1>13, <1>14 DEF BlockHas
<1> QED BY <1>15 DEF b

InPlace(h, o, l, k, p) == h + o < p /\ p <= h + (o + l)

(* Line k of a block that begins behind o lines of a part of the script    *)
(* that begins behind h lines, and the lines of the script it can be.      *)
LEMMA Places ==
  ASSUME NEW h \in Nat, NEW o \in Nat, NEW l \in Nat, NEW k \in 1 .. l,
         NEW p \in Nat, p - h = o + k
  PROVE  InPlace(h, o, l, k, p)
BY DEF InPlace

(* A line of a block is a line of what the block is in.                    *)
LEMMA Places2 ==
  ASSUME NEW o \in Nat, NEW l \in Nat, NEW m \in Nat, NEW e, e = o + l, e <= m, NEW k \in 1 .. l
  PROVE  o + k \in 1 .. m
OBVIOUS

(* The user's begin script, the first node, the steps, the end script.     *)
LayoutPrologue(s, at, nodes) ==
  /\ at[1] \in {2, 3}
  /\ \A p \in 1 .. at[1] :
       \/ p = at[1] - 2 /\ s[p] = Do("begin", 0)
       \/ p = at[1] - 1 /\ s[p] = Do("current", 30)
       \/ p = at[1] /\ s[p] = Do("next", nodes[1])

LayoutSteps(s, at, steps, nodes, silent, marks) ==
  \A i \in 1 .. Len(steps) :
    /\ at[i + 1] = at[i] + BlockSize(nodes, silent, marks, i)
    /\ s[at[i] + 1] = steps[i]
    /\ s[at[i] + 2] = Do("current", nodes[i])
    /\ Announces(nodes, silent, i) => s[at[i] + 3] = Do("next", nodes[i + 1])
    /\ i \in marks => s[at[i + 1]] = Do("finished", 1)

LayoutEpilogue(s, at, n) ==
  \A p \in at[n + 1] + 1 .. Len(s) :
    \/ p = at[n + 1] + 1 /\ s[p] = Do("next", 100)
    \/ p = at[n + 1] + 2 /\ s[p] = Do("end", 0)
    \/ p = at[n + 1] + 3 /\ s[p] = Do("current", 100)

Layout(s, at, steps, nodes, silent, marks) ==
  /\ s \in Seq(Commands)
  /\ at \in [1 .. Len(steps) + 1 -> Nat]
  /\ at[Len(steps) + 1] <= Len(s)
  /\ \A i, j \in 1 .. Len(steps) + 1 : i <= j => at[i] <= at[j]
  /\ \A p \in 1 .. Len(s) :
       p <= at[1] \/ p > at[Len(steps) + 1] \/ \E i \in 1 .. Len(steps) : at[i] < p /\ p <= at[i + 1]
  /\ LayoutPrologue(s, at, nodes)
  /\ LayoutSteps(s, at, steps, nodes, silent, marks)
  /\ LayoutEpilogue(s, at, Len(steps))

(* Lines lays a script out so, for any steps and as many nodes.            *)
LEMMA LinesLayout ==
  ASSUME NEW call, NEW steps \in Seq(Commands), NEW nodes \in Seq(Int),
         NEW silent, NEW marks, Len(steps) = Len(nodes), steps # <<>>
  PROVE  \E at : Layout(Lines(call, steps, nodes, silent, marks), at,
                        steps, nodes, silent, marks)
<1> DEFINE n == Len(steps)
           b == [i \in 1 .. n |-> Block(steps, nodes, silent, marks, i)]
           begin == IF call.begin THEN <<Do("begin", 0)>> ELSE <<>>
           first == <<Do("current", 30), Do("next", nodes[1])>>
           end == IF call.end THEN <<Do("next", 100), Do("end", 0), Do("current", 100)>>
                  ELSE <<>>
           head == begin \o first
           flat == FlattenSeq(b)
           s == Lines(call, steps, nodes, silent, marks)
<1>1. n \in Nat \ {0} /\ Len(nodes) = n /\ nodes[1] \in Int
      /\ \A i \in 1 .. n : steps[i] \in Commands /\ nodes[i] \in Int
  OBVIOUS
<1>2. ASSUME NEW i \in 1 .. n
      PROVE  /\ b[i] \in Seq(Commands)
             /\ Len(b[i]) = BlockSize(nodes, silent, marks, i)
             /\ b[i][1] = steps[i]
             /\ b[i][2] = Do("current", nodes[i])
             /\ Announces(nodes, silent, i) => b[i][3] = Do("next", nodes[i + 1])
             /\ i \in marks => b[i][Len(b[i])] = Do("finished", 1)
  <2>1. b[i] = Block(steps, nodes, silent, marks, i)
    OBVIOUS
  <2>2. Len(nodes) \in Nat /\ i \in 1 .. Len(nodes) /\ steps[i] \in Commands
        /\ \A k \in 1 .. Len(nodes) : nodes[k] \in Int
    BY <1>1
  <2> HIDE DEF b, n
  <2>3. BlockHas(b[i], steps, nodes, silent, marks, i)
    BY <2>1, <2>2, BlockIs, Zenon
  <2> QED BY <2>3 DEF BlockHas
<1>3. s = (head \o flat) \o end
  BY DEF Lines, Block
<1> HIDE DEF s
<1>4. b \in Seq(Seq(Commands)) /\ b # <<>> /\ Len(b) = n
  BY <1>1, <1>2
<1> HIDE DEF b
<1>5. flat \in Seq(Commands) /\ \E off : Blocks(flat, b, off)
  BY <1>4, FlattenIsBlocks
<1>6. PICK off : Blocks(flat, b, off)
  BY <1>5
<1>7. /\ head \in Seq(Commands) /\ Len(head) \in {2, 3}
      /\ \A p \in 1 .. Len(head) :
           \/ p = Len(head) - 2 /\ head[p] = Do("begin", 0)
           \/ p = Len(head) - 1 /\ head[p] = Do("current", 30)
           \/ p = Len(head) /\ head[p] = Do("next", nodes[1])
  <2>1. Do("begin", 0) \in Commands /\ Do("current", 30) \in Commands
        /\ Do("next", nodes[1]) \in Commands
    BY <1>1 DEF Do, Commands, Ops
  <2>2. /\ first \in Seq(Commands) /\ Len(first) = 2
        /\ first[1] = Do("current", 30) /\ first[2] = Do("next", nodes[1])
    BY <2>1
  <2>3. /\ begin \in Seq(Commands)
        /\ \/ Len(begin) = 0
           \/ Len(begin) = 1 /\ begin[1] = Do("begin", 0)
    BY <2>1
  <2> HIDE DEF first, begin
  <2>4. head \in Seq(Commands) /\ Joined(head, begin, first)
    BY <2>2, <2>3, ConcatJoins
  <2> HIDE DEF head
  <2>5. /\ Len(head) = Len(begin) + 2
        /\ \A k \in 1 .. Len(begin) : head[k] = begin[k]
        /\ \A k \in 1 .. 2 : head[Len(begin) + k] = first[k]
    BY <2>2, <2>4 DEF Joined
  <2>6. CASE Len(begin) = 0
    <3>1. Len(head) = 2 /\ head[1] = Do("current", 30) /\ head[2] = Do("next", nodes[1])
      BY <2>2, <2>5, <2>6
    <3> QED BY <2>4, <3>1
  <2>7. CASE Len(begin) = 1 /\ begin[1] = Do("begin", 0)
    <3>1. /\ Len(head) = 3 /\ head[1] = Do("begin", 0)
          /\ head[2] = Do("current", 30) /\ head[3] = Do("next", nodes[1])
      BY <2>2, <2>5, <2>7
    <3> QED BY <2>4, <3>1
  <2> QED BY <2>3, <2>6, <2>7
<1>8. /\ end \in Seq(Commands)
      /\ \A p \in 1 .. Len(end) : \/ p = 1 /\ end[p] = Do("next", 100)
                                  \/ p = 2 /\ end[p] = Do("end", 0)
                                  \/ p = 3 /\ end[p] = Do("current", 100)
  <2>1. Do("next", 100) \in Commands /\ Do("end", 0) \in Commands /\ Do("current", 100) \in Commands
    BY DEF Do, Commands, Ops
  <2>2. CASE call.end
    BY <2>1, <2>2
  <2>3. CASE ~call.end
    BY <2>3
  <2> QED BY <2>2, <2>3
<1> DEFINE body == head \o flat
           at == [i \in 1 .. n + 1 |-> Len(head) + off[i]]
<1>9. s = body \o end
  BY <1>3
<1> HIDE DEF head, flat, end
<1>10. body \in Seq(Commands) /\ Joined(body, head, flat)
  BY <1>5, <1>7, ConcatJoins
<1> HIDE DEF body
<1>11. s \in Seq(Commands) /\ Joined(s, body, end)
  BY <1>8, <1>9, <1>10, ConcatJoins
<1>a. Len(body) = Len(head) + Len(flat) /\ Len(head) \in Nat /\ Len(flat) \in Nat
      /\ Len(s) = Len(body) + Len(end) /\ Len(body) \in Nat /\ Len(end) \in Nat
      /\ Len(s) \in Nat
  BY <1>10, <1>11 DEF Joined
<1>b. \A k \in 1 .. Len(head) : body[k] = head[k]
  BY <1>10 DEF Joined
<1>c. \A k \in 1 .. Len(flat) : body[Len(head) + k] = flat[k]
  BY <1>10 DEF Joined
<1>d. \A k \in 1 .. Len(body) : s[k] = body[k]
  BY <1>11 DEF Joined
<1>e. \A k \in 1 .. Len(end) : s[Len(body) + k] = end[k]
  BY <1>11 DEF Joined
<1>12. /\ off \in [1 .. n + 1 -> Nat] /\ off[1] = 0 /\ off[n + 1] = Len(flat)
       /\ \A i \in 1 .. n : off[i + 1] = off[i] + Len(b[i])
       /\ \A i \in 1 .. n : \A k \in 1 .. Len(b[i]) : flat[off[i] + k] = b[i][k]
  BY <1>4, <1>6 DEF Blocks
<1>13. \A i \in 1 .. n : Len(b[i]) \in Nat
  BY <1>2
<1>14. \A i, j \in 1 .. n + 1 : i <= j => off[i] <= off[j]
  BY <1>1, <1>4, <1>6, <1>13, BlocksAscend
<1>15. \A p \in 1 .. Len(flat) : \E i \in 1 .. n : \E k \in 1 .. Len(b[i]) : p = off[i] + k
  <2>1. Len(b) = n /\ n \in Nat /\ Len(flat) \in Nat
    BY <1>1, <1>4, <1>a
  <2>2. Measured(b)
    BY <1>13, <2>1 DEF Measured
  <2>3. Covered(flat, b, off)
    BY <1>6, <2>1, <2>2, AllCovered, Zenon
  <2> QED BY <2>1, <2>3 DEF Covered
<1>16. ASSUME NEW i \in 1 .. n + 1
       PROVE  at[i] = Len(head) + off[i] /\ off[i] \in Nat /\ at[i] \in Nat
  <2>1. at[i] = Len(head) + off[i]
    OBVIOUS
  <2>2. off[i] \in Nat /\ Len(head) \in Nat
    BY <1>a, <1>12
  <2> HIDE DEF at
  <2> QED BY <2>1, <2>2
<1>17. at \in [1 .. n + 1 -> Nat]
  BY <1>a, <1>12
<1> HIDE DEF at
<1>18. at[1] = Len(head) /\ at[n + 1] = Len(body) /\ at[n + 1] <= Len(s)
  <2>1. 1 \in 1 .. n + 1 /\ n + 1 \in 1 .. n + 1
    BY <1>1
  <2>2. off[1] = 0 /\ off[n + 1] = Len(flat)
    BY <1>12
  <2>3. at[1] = Len(head) + off[1] /\ at[n + 1] = Len(head) + off[n + 1]
    BY <1>16, <2>1
  <2> QED BY <2>2, <2>3, <1>a
<1>19. \A i, j \in 1 .. n + 1 : i <= j => at[i] <= at[j]
  <2>1. ASSUME NEW i \in 1 .. n + 1, NEW j \in 1 .. n + 1, i <= j
        PROVE  at[i] <= at[j]
    <3>1. off[i] <= off[j] /\ off[i] \in Nat /\ off[j] \in Nat
      BY <2>1, <1>14, <1>16
    <3>2. at[i] = Len(head) + off[i] /\ at[j] = Len(head) + off[j]
      BY <1>16
    <3>3. Len(head) \in Nat
      BY <1>a
    <3> QED BY <3>1, <3>2, <3>3
  <2> QED BY <2>1
<1>20. ASSUME NEW p \in 1 .. Len(s)
       PROVE  p <= at[1] \/ p > at[n + 1] \/ \E i \in 1 .. n : at[i] < p /\ p <= at[i + 1]
  <2>1. SUFFICES ASSUME p > at[1], p <= at[n + 1]
                 PROVE  \E i \in 1 .. n : at[i] < p /\ p <= at[i + 1]
    <3>1. 1 \in 1 .. n + 1 /\ n + 1 \in 1 .. n + 1
      BY <1>1
    <3>2. at[1] \in Nat /\ at[n + 1] \in Nat
      BY <1>16, <3>1
    <3> QED BY <3>2, <1>a
  <2>2. p - Len(head) \in 1 .. Len(flat)
    BY <2>1, <1>a, <1>18
  <2>3. PICK i \in 1 .. n : \E k \in 1 .. Len(b[i]) : p - Len(head) = off[i] + k
    BY <1>15, <2>2
  <2>4. PICK k \in 1 .. Len(b[i]) : p - Len(head) = off[i] + k
    BY <2>3
  <2>5. i \in 1 .. n + 1 /\ i + 1 \in 1 .. n + 1
    BY <1>1
  <2>6. /\ at[i] = Len(head) + off[i] /\ at[i + 1] = Len(head) + off[i + 1]
        /\ off[i] \in Nat /\ off[i + 1] = off[i] + Len(b[i]) /\ Len(b[i]) \in Nat
    BY <2>5, <1>12, <1>13, <1>16
  <2>7. at[i] < p /\ p <= at[i + 1]
    <3>1. p \in Nat /\ Len(head) \in Nat
      BY <1>a
    <3>2. InPlace(Len(head), off[i], Len(b[i]), k, p)
      BY <2>4, <2>6, <3>1, Places
    <3> QED BY <2>6, <3>2 DEF InPlace
  <2> QED BY <2>7
<1>21. LayoutPrologue(s, at, nodes)
  <2>1. \A p \in 1 .. at[1] : s[p] = head[p]
    BY <1>a, <1>b, <1>d, <1>18
  <2> QED BY <2>1, <1>7, <1>18 DEF LayoutPrologue
<1>22. LayoutSteps(s, at, steps, nodes, silent, marks)
  <2>1. SUFFICES ASSUME NEW i \in 1 .. n
                 PROVE  /\ at[i + 1] = at[i] + BlockSize(nodes, silent, marks, i)
                        /\ s[at[i] + 1] = steps[i]
                        /\ s[at[i] + 2] = Do("current", nodes[i])
                        /\ Announces(nodes, silent, i) => s[at[i] + 3] = Do("next", nodes[i + 1])
                        /\ i \in marks => s[at[i + 1]] = Do("finished", 1)
    BY DEF LayoutSteps
  <2>2. i \in 1 .. n + 1 /\ i + 1 \in 1 .. n + 1 /\ n + 1 \in 1 .. n + 1
    BY <1>1
  <2>3. /\ at[i] = Len(head) + off[i] /\ at[i + 1] = Len(head) + off[i + 1]
        /\ off[i] \in Nat /\ off[i + 1] = off[i] + Len(b[i]) /\ Len(b[i]) \in Nat
        /\ off[i + 1] <= Len(flat)
    <3>1. off[i + 1] <= off[n + 1]
      BY <1>14, <2>2
    <3> QED BY <2>2, <3>1, <1>12, <1>13, <1>16
  <2>4. ASSUME NEW k \in 1 .. Len(b[i])
        PROVE  s[at[i] + k] = b[i][k]
    <3>1. off[i] + k \in 1 .. Len(flat)
      <4>1. Len(flat) \in Nat
        BY <1>a
      <4> HIDE DEF flat, b, n
      <4> QED BY <2>3, <4>1, Places2
    <3>2. flat[off[i] + k] = b[i][k]
      BY <1>12
    <3>3. body[Len(head) + (off[i] + k)] = b[i][k]
      BY <1>c, <3>1, <3>2
    <3>4. Len(head) + (off[i] + k) \in 1 .. Len(body)
      <4> DEFINE h == Len(head)
                 l == Len(flat)
                 o == off[i] + k
      <4>1. h \in Nat /\ l \in Nat /\ Len(body) = h + l
        BY <1>a
      <4>2. o \in 1 .. l
        BY <3>1
      <4>3. SUFFICES h + o \in 1 .. h + l
        BY <4>1
      <4> HIDE DEF h, l, o
      <4> QED BY <4>1, <4>2
    <3>5. s[Len(head) + (off[i] + k)] = b[i][k]
      BY <1>d, <3>3, <3>4
    <3>6. at[i] + k = Len(head) + (off[i] + k)
      BY <2>3, <1>a
    <3> QED BY <3>5, <3>6
  <2>5. Len(b[i]) = BlockSize(nodes, silent, marks, i)
    BY <1>2
  <2>6. /\ Len(b[i]) >= 2
        /\ Announces(nodes, silent, i) => Len(b[i]) >= 3
    BY <2>5 DEF BlockSize
  <2>7. at[i + 1] = at[i] + Len(b[i])
    <3> DEFINE h == Len(head)
               o == off[i]
               l == Len(b[i])
    <3>1. h \in Nat /\ o \in Nat /\ l \in Nat
      BY <2>3, <1>a
    <3>2. at[i] = h + o /\ at[i + 1] = h + (o + l)
      BY <2>3
    <3>3. SUFFICES at[i + 1] = at[i] + l
      OBVIOUS
    <3> HIDE DEF h, o, l
    <3> QED BY <3>1, <3>2
  <2>8. s[at[i] + 1] = steps[i] /\ s[at[i] + 2] = Do("current", nodes[i])
    BY <2>3, <2>4, <2>6, <1>2
  <2>9. Announces(nodes, silent, i) => s[at[i] + 3] = Do("next", nodes[i + 1])
    BY <2>3, <2>4, <2>6, <1>2
  <2>10. i \in marks => s[at[i + 1]] = Do("finished", 1)
    <3>0. Len(b[i]) \in 1 .. Len(b[i])
      BY <2>3, <2>6
    <3>1. s[at[i] + Len(b[i])] = b[i][Len(b[i])]
      BY <2>4, <3>0
    <3> QED BY <3>1, <2>7, <1>2
  <2> QED BY <2>5, <2>7, <2>8, <2>9, <2>10
<1>23. LayoutEpilogue(s, at, n)
  <2>1. SUFFICES ASSUME NEW p \in at[n + 1] + 1 .. Len(s)
                 PROVE  \/ p = at[n + 1] + 1 /\ s[p] = Do("next", 100)
                        \/ p = at[n + 1] + 2 /\ s[p] = Do("end", 0)
                        \/ p = at[n + 1] + 3 /\ s[p] = Do("current", 100)
    BY DEF LayoutEpilogue
  <2> DEFINE q == p - Len(body)
  <2>2. q \in 1 .. Len(end) /\ p = Len(body) + q
    BY <1>a, <1>18
  <2> HIDE DEF q
  <2>3. s[p] = end[q]
    BY <2>2, <1>e
  <2>4. \/ q = 1 /\ end[q] = Do("next", 100)
        \/ q = 2 /\ end[q] = Do("end", 0)
        \/ q = 3 /\ end[q] = Do("current", 100)
    BY <2>2, <1>8
  <2> QED BY <2>2, <2>3, <2>4, <1>18
<1>24. Layout(s, at, steps, nodes, silent, marks)
  BY <1>11, <1>17, <1>18, <1>19, <1>20, <1>21, <1>22, <1>23 DEF Layout
<1> QED BY <1>24 DEF s

(* A line is in the prologue, in the lines of a step, or in the epilogue.  *)
InBlock(s, at, steps, nodes, silent, marks, i, p) ==
  \/ p = at[i] + 1 /\ s[p] = steps[i]
  \/ p = at[i] + 2 /\ s[p] = Do("current", nodes[i])
  \/ p = at[i] + 3 /\ s[p] = Do("next", nodes[i + 1]) /\ Announces(nodes, silent, i)
  \/ i \in marks /\ p = at[i + 1] /\ s[p] = Do("finished", 1)

(* A line between the beginning of a step and that of the next one is a    *)
(* line of that step.                                                      *)
LEMMA BlockLines ==
  ASSUME NEW s, NEW at, NEW steps, NEW nodes, NEW silent, NEW marks,
         Layout(s, at, steps, nodes, silent, marks), Len(steps) \in Nat,
         NEW i \in 1 .. Len(steps), NEW p \in 1 .. Len(s),
         at[i] < p, p <= at[i + 1]
  PROVE  InBlock(s, at, steps, nodes, silent, marks, i, p)
<1>1. /\ at[i + 1] = at[i] + BlockSize(nodes, silent, marks, i)
      /\ s[at[i] + 1] = steps[i]
      /\ s[at[i] + 2] = Do("current", nodes[i])
      /\ Announces(nodes, silent, i) => s[at[i] + 3] = Do("next", nodes[i + 1])
      /\ i \in marks => s[at[i + 1]] = Do("finished", 1)
  BY DEF Layout, LayoutSteps
<1>2. at[i] \in Nat /\ at[i + 1] \in Nat
  BY DEF Layout
<1>3. p \in Nat
  OBVIOUS
<1> DEFINE a == at[i]
           z == at[i + 1]
<1>4. a \in Nat /\ z \in Nat /\ a < p /\ p <= z
  BY <1>2
<1>5. CASE Announces(nodes, silent, i) /\ i \in marks
  <2>1. z = a + 4
    BY <1>1, <1>5 DEF BlockSize
  <2> HIDE DEF a, z
  <2>2. p = a + 1 \/ p = a + 2 \/ p = a + 3 \/ p = z
    BY <1>3, <1>4, <2>1
  <2> QED BY <1>1, <1>5, <2>2 DEF InBlock, a, z
<1>6. CASE Announces(nodes, silent, i) /\ i \notin marks
  <2>1. z = a + 3
    BY <1>1, <1>6 DEF BlockSize
  <2> HIDE DEF a, z
  <2>2. p = a + 1 \/ p = a + 2 \/ p = a + 3
    BY <1>3, <1>4, <2>1
  <2> QED BY <1>1, <1>6, <2>2 DEF InBlock, a, z
<1>7. CASE ~Announces(nodes, silent, i) /\ i \in marks
  <2>1. z = a + 3
    BY <1>1, <1>7 DEF BlockSize
  <2> HIDE DEF a, z
  <2>2. p = a + 1 \/ p = a + 2 \/ p = z
    BY <1>3, <1>4, <2>1
  <2> QED BY <1>1, <1>7, <2>2 DEF InBlock, a, z
<1>8. CASE ~Announces(nodes, silent, i) /\ i \notin marks
  <2>1. z = a + 2
    BY <1>1, <1>8 DEF BlockSize
  <2> HIDE DEF a, z
  <2>2. p = a + 1 \/ p = a + 2
    BY <1>3, <1>4, <2>1
  <2> QED BY <1>1, <2>2 DEF InBlock, a, z
<1> QED BY <1>5, <1>6, <1>7, <1>8

(* Every line stands before the steps, in a step, or behind them.          *)
LEMMA WhereLinesAre ==
  ASSUME NEW s, NEW at, NEW steps, NEW nodes, NEW silent, NEW marks,
         Layout(s, at, steps, nodes, silent, marks), Len(steps) \in Nat,
         NEW p \in 1 .. Len(s)
  PROVE  \/ /\ p <= at[1]
            /\ s[p] \in {Do("begin", 0), Do("current", 30), Do("next", nodes[1])}
         \/ \E i \in 1 .. Len(steps) : InBlock(s, at, steps, nodes, silent, marks, i, p)
         \/ /\ p > at[Len(steps) + 1]
            /\ s[p] \in {Do("next", 100), Do("end", 0), Do("current", 100)}
<1>1. \/ p <= at[1] 
      \/ p > at[Len(steps) + 1]
      \/ \E i \in 1 .. Len(steps) : at[i] < p /\ p <= at[i + 1]
  BY DEF Layout
<1>2. at[1] \in Nat /\ at[Len(steps) + 1] \in Nat
  BY DEF Layout
<1>3. CASE p <= at[1]
  <2>1. p \in 1 .. at[1]
    BY <1>2, <1>3
  <2> QED BY <1>3, <2>1 DEF Layout, LayoutPrologue
<1>4. CASE p > at[Len(steps) + 1]
  <2>1. p \in at[Len(steps) + 1] + 1 .. Len(s)
    BY <1>2, <1>4
  <2> QED BY <1>4, <2>1 DEF Layout, LayoutEpilogue
<1>5. CASE \E i \in 1 .. Len(steps) : at[i] < p /\ p <= at[i + 1]
  BY <1>5, BlockLines
<1> QED BY <1>1, <1>3, <1>4, <1>5

(* Where the steps are, their nodes, the mark and the end script.          *)
StepsAt(s, at, steps) ==
  /\ \A i \in 1 .. Len(steps) :
       at[i] + 1 \in 1 .. Len(s) /\ s[at[i] + 1] = steps[i]
  /\ \A p \in 1 .. Len(s) : s[p].op \in Checks \cup Writes =>
       \E i \in 1 .. Len(steps) : p = at[i] + 1
  /\ \A i, j \in 1 .. Len(steps) : i < j => at[i] + 2 <= at[j]

NodesAt(s, at, nodes) ==
  /\ \A i \in 1 .. Len(nodes) :
       at[i] + 2 \in 1 .. Len(s) /\ s[at[i] + 2] = Do("current", nodes[i])
  /\ \A p \in 1 .. Len(s) : s[p].op = "current" =>
       \/ p <= at[1] /\ s[p].arg = 30
       \/ \E i \in 1 .. Len(nodes) : p = at[i] + 2 /\ s[p].arg = nodes[i]
       \/ p > at[Len(nodes) + 1] /\ s[p].arg = 100
  /\ \A p \in 1 .. Len(s) : s[p].op = "next" =>
       s[p].arg = 100 \/ \E i \in 1 .. Len(nodes) : s[p].arg = nodes[i]

MarksAt(s, at, n, marks) ==
  /\ \A i \in marks \cap (1 .. n) : at[i + 1] \in 1 .. Len(s) /\ s[at[i + 1]].op = "finished"
  /\ \A p \in 1 .. Len(s) : s[p].op = "finished" => \E i \in marks \cap (1 .. n) : p = at[i + 1]

EndsAt(s, at, n) == \A p \in 1 .. Len(s) : s[p].op = "end" => p > at[n + 1]

(* A step has its own line and that of its node.                           *)
LEMMA LayoutBounds ==
  ASSUME NEW s, NEW at, NEW steps, NEW nodes, NEW silent, NEW marks,
         Layout(s, at, steps, nodes, silent, marks), Len(steps) \in Nat,
         NEW i \in 1 .. Len(steps)
  PROVE  /\ at[i] \in Nat /\ at[i + 1] \in Nat /\ Len(s) \in Nat
         /\ at[i] + 2 <= at[i + 1] /\ at[i + 1] <= Len(s)
<1>1. i \in 1 .. Len(steps) + 1 /\ i + 1 \in 1 .. Len(steps) + 1
      /\ Len(steps) + 1 \in 1 .. Len(steps) + 1 /\ i + 1 <= Len(steps) + 1
  OBVIOUS
<1>2. at[i] \in Nat /\ at[i + 1] \in Nat /\ at[Len(steps) + 1] \in Nat
  BY <1>1 DEF Layout
<1>3. at[i + 1] <= at[Len(steps) + 1] /\ at[Len(steps) + 1] <= Len(s)
  BY <1>1 DEF Layout
<1>4. Len(s) \in Nat
  BY DEF Layout
<1>5. at[i + 1] = at[i] + BlockSize(nodes, silent, marks, i)
  BY DEF Layout, LayoutSteps
<1>6. BlockSize(nodes, silent, marks, i) \in 2 .. 4
  BY DEF BlockSize
<1>7. \A a, c, d, e, z \in Nat : c = a + z /\ z >= 2 /\ c <= d /\ d <= e => a + 2 <= c /\ c <= e
  OBVIOUS
<1>8. BlockSize(nodes, silent, marks, i) \in Nat /\ BlockSize(nodes, silent, marks, i) >= 2
  BY <1>6
<1> QED BY <1>2, <1>3, <1>4, <1>5, <1>7, <1>8

(* A line that checks or writes is the line of its step.                   *)
LEMMA LayoutStepsAt ==
  ASSUME NEW s, NEW at, NEW steps, NEW nodes, NEW silent, NEW marks,
         Layout(s, at, steps, nodes, silent, marks), Len(steps) \in Nat
  PROVE  StepsAt(s, at, steps)
<1>1. ASSUME NEW i \in 1 .. Len(steps)
      PROVE  at[i] + 1 \in 1 .. Len(s) /\ s[at[i] + 1] = steps[i]
  <2>1. s[at[i] + 1] = steps[i]
    BY DEF Layout, LayoutSteps
  <2>2. /\ at[i] \in Nat /\ at[i + 1] \in Nat /\ Len(s) \in Nat
        /\ at[i] + 2 <= at[i + 1] /\ at[i + 1] <= Len(s)
    BY LayoutBounds
  <2> QED BY <2>1, <2>2
<1>2. ASSUME NEW p \in 1 .. Len(s), s[p].op \in Checks \cup Writes
      PROVE  \E i \in 1 .. Len(steps) : p = at[i] + 1
  <2>1. s[p] \notin {Do("begin", 0), Do("current", 30), Do("next", nodes[1])}
    BY <1>2 DEF Do, Checks, Writes
  <2>2. s[p] \notin {Do("next", 100), Do("end", 0), Do("current", 100)}
    BY <1>2 DEF Do, Checks, Writes
  <2>3. PICK i \in 1 .. Len(steps) : InBlock(s, at, steps, nodes, silent, marks, i, p)
    BY <2>1, <2>2, WhereLinesAre
  <2>4. /\ s[p] # Do("current", nodes[i]) /\ s[p] # Do("next", nodes[i + 1])
        /\ s[p] # Do("finished", 1)
    BY <1>2 DEF Do, Checks, Writes
  <2> QED BY <2>3, <2>4 DEF InBlock
<1>3. ASSUME NEW i \in 1 .. Len(steps), NEW j \in 1 .. Len(steps), i < j
      PROVE  at[i] + 2 <= at[j]
  <2>1. i + 1 \in 1 .. Len(steps) + 1 /\ j \in 1 .. Len(steps) + 1 /\ i + 1 <= j
    BY <1>3
  <2>2. at[i + 1] <= at[j] /\ at[j] \in Nat
    BY <2>1 DEF Layout
  <2>3. at[i] \in Nat /\ at[i + 1] \in Nat /\ at[i] + 2 <= at[i + 1]
    BY LayoutBounds
  <2> QED BY <2>2, <2>3
<1> QED BY <1>1, <1>2, <1>3 DEF StepsAt

(* A line that sets the node sets 30, the node of its step, or 100.        *)
LEMMA LayoutNodesAt ==
  ASSUME NEW s, NEW at, NEW steps, NEW nodes, NEW silent, NEW marks,
         Layout(s, at, steps, nodes, silent, marks), Len(steps) \in Nat \ {0},
         Len(nodes) = Len(steps),
         \A i \in 1 .. Len(steps) : steps[i].op \in Checks \cup Writes
  PROVE  NodesAt(s, at, nodes)
<1>1. ASSUME NEW i \in 1 .. Len(nodes)
      PROVE  at[i] + 2 \in 1 .. Len(s) /\ s[at[i] + 2] = Do("current", nodes[i])
  <2>1. s[at[i] + 2] = Do("current", nodes[i])
    BY DEF Layout, LayoutSteps
  <2>2. /\ at[i] \in Nat /\ at[i + 1] \in Nat /\ Len(s) \in Nat
        /\ at[i] + 2 <= at[i + 1] /\ at[i + 1] <= Len(s)
    BY LayoutBounds
  <2> QED BY <2>1, <2>2
<1>2. ASSUME NEW p \in 1 .. Len(s), s[p].op = "current"
      PROVE  \/ p <= at[1] /\ s[p].arg = 30
             \/ \E i \in 1 .. Len(nodes) : p = at[i] + 2 /\ s[p].arg = nodes[i]
             \/ p > at[Len(nodes) + 1] /\ s[p].arg = 100
  <2>1. CASE /\ p <= at[1]
             /\ s[p] \in {Do("begin", 0), Do("current", 30), Do("next", nodes[1])}
    BY <1>2, <2>1 DEF Do
  <2>2. CASE \E i \in 1 .. Len(steps) : InBlock(s, at, steps, nodes, silent, marks, i, p)
    <3>1. PICK i \in 1 .. Len(steps) : InBlock(s, at, steps, nodes, silent, marks, i, p)
      BY <2>2
    <3>2. s[p] # steps[i]
      BY <1>2 DEF Checks, Writes
    <3>3. s[p] # Do("next", nodes[i + 1]) /\ s[p] # Do("finished", 1)
      BY <1>2 DEF Do
    <3>4. p = at[i] + 2 /\ s[p] = Do("current", nodes[i])
      BY <3>1, <3>2, <3>3 DEF InBlock
    <3> QED BY <3>4 DEF Do
  <2>3. CASE /\ p > at[Len(steps) + 1]
             /\ s[p] \in {Do("next", 100), Do("end", 0), Do("current", 100)}
    BY <1>2, <2>3 DEF Do
  <2>4. Len(steps) \in Nat
    OBVIOUS
  <2>5. \/ /\ p <= at[1]
           /\ s[p] \in {Do("begin", 0), Do("current", 30), Do("next", nodes[1])}
        \/ \E i \in 1 .. Len(steps) : InBlock(s, at, steps, nodes, silent, marks, i, p)
        \/ /\ p > at[Len(steps) + 1]
           /\ s[p] \in {Do("next", 100), Do("end", 0), Do("current", 100)}
    BY <2>4, WhereLinesAre
  <2> QED BY <2>1, <2>2, <2>3, <2>5
<1>3. ASSUME NEW p \in 1 .. Len(s), s[p].op = "next"
      PROVE  s[p].arg = 100 \/ \E i \in 1 .. Len(nodes) : s[p].arg = nodes[i]
  <2>1. CASE /\ p <= at[1]
             /\ s[p] \in {Do("begin", 0), Do("current", 30), Do("next", nodes[1])}
    <3>1. s[p].arg = nodes[1] /\ 1 \in 1 .. Len(nodes)
      BY <1>3, <2>1 DEF Do
    <3> QED BY <3>1
  <2>2. CASE \E i \in 1 .. Len(steps) : InBlock(s, at, steps, nodes, silent, marks, i, p)
    <3>1. PICK i \in 1 .. Len(steps) : InBlock(s, at, steps, nodes, silent, marks, i, p)
      BY <2>2
    <3>2. s[p] # steps[i]
      BY <1>3 DEF Checks, Writes
    <3>3. s[p] # Do("current", nodes[i]) /\ s[p] # Do("finished", 1)
      BY <1>3 DEF Do
    <3>4. s[p] = Do("next", nodes[i + 1]) /\ Announces(nodes, silent, i)
      BY <3>1, <3>2, <3>3 DEF InBlock
    <3>5. i + 1 \in 1 .. Len(nodes) /\ s[p].arg = nodes[i + 1]
      BY <3>4 DEF Do, Announces
    <3> QED BY <3>5
  <2>3. CASE /\ p > at[Len(steps) + 1]
             /\ s[p] \in {Do("next", 100), Do("end", 0), Do("current", 100)}
    BY <1>3, <2>3 DEF Do
  <2> QED BY <2>1, <2>2, <2>3, WhereLinesAre
<1> QED BY <1>1, <1>2, <1>3 DEF NodesAt

(* The prechecks are recorded at the end of the marked steps, and the end  *)
(* script runs behind all of them.                                         *)
LEMMA LayoutMarksAt ==
  ASSUME NEW s, NEW at, NEW steps, NEW nodes, NEW silent, NEW marks,
         Layout(s, at, steps, nodes, silent, marks), Len(steps) \in Nat,
         \A i \in 1 .. Len(steps) : steps[i].op \in Checks \cup Writes
  PROVE  MarksAt(s, at, Len(steps), marks) /\ EndsAt(s, at, Len(steps))
<1>1. ASSUME NEW i \in marks \cap (1 .. Len(steps))
      PROVE  at[i + 1] \in 1 .. Len(s) /\ s[at[i + 1]].op = "finished"
  <2>1. s[at[i + 1]] = Do("finished", 1)
    BY DEF Layout, LayoutSteps
  <2>2. /\ at[i] \in Nat /\ at[i + 1] \in Nat /\ Len(s) \in Nat
        /\ at[i] + 2 <= at[i + 1] /\ at[i + 1] <= Len(s)
    BY LayoutBounds
  <2>3. at[i + 1] \in 1 .. Len(s)
    BY <2>2
  <2> QED BY <2>1, <2>3 DEF Do
<1>2. ASSUME NEW p \in 1 .. Len(s), s[p].op = "finished"
      PROVE  \E i \in marks \cap (1 .. Len(steps)) : p = at[i + 1]
  <2>1. s[p] \notin {Do("begin", 0), Do("current", 30), Do("next", nodes[1])}
    BY <1>2 DEF Do
  <2>2. s[p] \notin {Do("next", 100), Do("end", 0), Do("current", 100)}
    BY <1>2 DEF Do
  <2>3. PICK i \in 1 .. Len(steps) : InBlock(s, at, steps, nodes, silent, marks, i, p)
    BY <2>1, <2>2, WhereLinesAre
  <2>4. s[p] # Do("current", nodes[i]) /\ s[p] # Do("next", nodes[i + 1])
    BY <1>2 DEF Do
  <2>5. s[p] # steps[i]
    BY <1>2 DEF Checks, Writes
  <2> QED BY <2>3, <2>4, <2>5 DEF InBlock
<1>3. ASSUME NEW p \in 1 .. Len(s), s[p].op = "end"
      PROVE  p > at[Len(steps) + 1]
  <2>1. s[p] \notin {Do("begin", 0), Do("current", 30), Do("next", nodes[1])}
    BY <1>3 DEF Do
  <2>2. ASSUME NEW i \in 1 .. Len(steps), InBlock(s, at, steps, nodes, silent, marks, i, p)
        PROVE  FALSE
    <3>1. s[p] # Do("current", nodes[i]) /\ s[p] # Do("next", nodes[i + 1])
          /\ s[p] # Do("finished", 1)
      BY <1>3 DEF Do
    <3>2. s[p] # steps[i]
      BY <1>3 DEF Checks, Writes
    <3> QED BY <2>2, <3>1, <3>2 DEF InBlock
  <2> QED BY <2>1, <2>2, WhereLinesAre
<1> QED BY <1>1, <1>2, <1>3 DEF MarksAt, EndsAt

-----------------------------------------------------------------------------
(* Arithmetic of the progress nodes.                                       *)

(* Division rounds down.                                                  *)
LEMMA DivIs ==
  ASSUME NEW a \in Int, NEW b \in Nat \ {0}
  PROVE  a \div b \in Int /\ (a \div b) * b <= a /\ a < (a \div b) * b + b
OBVIOUS

(* Products and quotients keep the order.                                  *)
LEMMA MulMono ==
  ASSUME NEW a \in Int, NEW b \in Int, NEW c \in Nat, a <= b
  PROVE  a * c \in Int /\ b * c \in Int /\ a * c <= b * c
<1>1. PICK d \in Nat : b = a + d
  <2>1. b - a \in Nat /\ b = a + (b - a)
    OBVIOUS
  <2> QED BY <2>1
<1>2. b * c = a * c + d * c
  BY <1>1
<1>3. d * c \in Nat /\ a * c \in Int
  OBVIOUS
<1> QED BY <1>2, <1>3

(* Products ascend strictly with a factor.                                 *)
LEMMA MulStrict ==
  ASSUME NEW a \in Int, NEW b \in Int, NEW c \in Nat \ {0}, a < b
  PROVE  a * c < b * c
<1>1. PICK d \in Nat \ {0} : b = a + d
  <2>1. b - a \in Nat \ {0} /\ b = a + (b - a)
    OBVIOUS
  <2> QED BY <2>1
<1>2. b * c = a * c + d * c
  BY <1>1
<1>3. d * c \in Nat \ {0} /\ a * c \in Int
  OBVIOUS
<1> QED BY <1>2, <1>3

(* A quotient is at least what, multiplied, is not above the dividend.     *)
LEMMA DivAtLeast ==
  ASSUME NEW a \in Int, NEW b \in Nat \ {0}, NEW k \in Int, k * b <= a
  PROVE  k <= a \div b
<1> DEFINE q == a \div b
<1>1. q \in Int /\ a < q * b + b
  BY DivIs
<1> HIDE DEF q
<1>2. SUFFICES ASSUME k > q PROVE FALSE
  BY <1>1 DEF q
<1>3. (q + 1) * b <= k * b
  BY <1>1, <1>2, MulMono
<1>4. (q + 1) * b = q * b + b
  BY <1>1
<1>5. q * b \in Int /\ k * b \in Int
  BY <1>1
<1> QED BY <1>1, <1>3, <1>4, <1>5

(* A quotient is less than what, multiplied, is above the dividend.        *)
LEMMA DivLess ==
  ASSUME NEW a \in Int, NEW b \in Nat \ {0}, NEW k \in Int, a < k * b
  PROVE  a \div b < k
<1> DEFINE q == a \div b
<1>1. q \in Int /\ q * b <= a
  BY DivIs
<1> HIDE DEF q
<1>2. SUFFICES ASSUME k <= q PROVE FALSE
  BY <1>1 DEF q
<1>3. k * b <= q * b
  BY <1>1, <1>2, MulMono
<1>5. q * b \in Int /\ k * b \in Int
  BY <1>1
<1> QED BY <1>1, <1>3, <1>5

(* A larger fraction is not rounded below a smaller one.                   *)
LEMMA DivAscends ==
  ASSUME NEW a \in Int, NEW b \in Nat \ {0}, NEW c \in Int, NEW d \in Nat \ {0},
         a * d <= c * b
  PROVE  a \div b <= c \div d
<1> DEFINE q == a \div b
<1>1. q \in Int /\ q * b <= a
  BY DivIs
<1> HIDE DEF q
<1>2. (q * b) * d <= a * d
  BY <1>1, MulMono
<1>3. (q * d) * b <= c * b
  <2>1. (q * b) * d = (q * d) * b
    BY <1>1
  <2>2. (q * b) * d \in Int /\ a * d \in Int /\ c * b \in Int
    BY <1>1
  <2> QED BY <1>2, <2>1, <2>2
<1>4. q * d <= c
  <2>1. SUFFICES ASSUME c < q * d PROVE FALSE
    BY <1>1
  <2>2. c * b < (q * d) * b
    BY <1>1, <2>1, MulStrict
  <2> QED BY <1>1, <1>3, <2>2
<1>5. q <= c \div d
  BY <1>1, <1>4, DivAtLeast
<1> QED BY <1>5 DEF q

-----------------------------------------------------------------------------
(* The images of a package.                                                *)

(* A call of the tool.                                                     *)
IsJob(j) ==
  /\ {j.diff, j.newpartition, j.begin, j.end} \subseteq BOOLEAN
  /\ {j.order, j.last, j.fresh} \subseteq Seq(Files)
  /\ IsFiniteSet(j.old)
  /\ {j.size, j.patch, j.speed} \subseteq [Files -> Nat \ {0}]
  /\ j.endpart \in 0 .. 100

(* What --last_files leaves is as long as a sequence is.                   *)
LEMMA LastFilesLastIsSeq ==
  ASSUME NEW s, NEW last \in Seq(Files), Len(s) \in Nat
  PROVE  Len(LastFilesLast(s, last)) \in Nat
<1> DEFINE E == Files \cup ToSet(s)
<1>1. Kept(s, Files \ ToSet(last)) \in Seq(E)
  BY KeptIsSeq
<1>2. Kept(last, ToSet(s)) \in Seq(E)
  BY KeptIsSeq
<1> DEFINE x == Kept(s, Files \ ToSet(last))
           y == Kept(last, ToSet(s))
<1>3. LastFilesLast(s, last) = x \o y
  BY DEF LastFilesLast
<1> HIDE DEF E, x, y
<1>4. x \o y \in Seq(E)
  BY <1>1, <1>2, ConcatJoins DEF x, y
<1> QED BY <1>3, <1>4

(* A full package holds files, and checks files.                           *)
LEMMA FullBinsIsSeq ==
  ASSUME NEW j, IsJob(j)
  PROVE  FullBins(j) \in Seq(Files) /\ Rated(j) \in Seq(Files)
<1>1. j.order \in Seq(Files) /\ j.last \in Seq(Files)
  BY DEF IsJob
<1>2. Len(LastFilesLast(j.order, j.last)) \in Nat
  BY <1>1, LastFilesLastIsSeq
<1>3. Installable \subseteq Files
  BY FilesAssumption DEF Installable
<1>4. FullBins(j) \in Seq(Files)
  BY <1>2, <1>3, KeptIsSeq DEF FullBins
<1>5. Rated(j) \in Seq(Files)
  BY <1>4, KeptIsSeq DEF Rated
<1> QED BY <1>4, <1>5

(* So does a differential one.                                             *)
LEMMA DiffBinsIsSeq ==
  ASSUME NEW j, IsJob(j)
  PROVE  DiffBins(j) \in Seq(Files) /\ NewPartitions(j) \in Seq(Files)
<1>1. j.last \in Seq(Files) /\ j.fresh \in Seq(Files) /\ IsFiniteSet(j.old)
  BY DEF IsJob
<1>2. Len(Sorted(j.old)) \in Nat
  <2>1. Cardinality(j.old) \in Nat
    BY <1>1, FS_CardinalityType
  <2> QED BY <2>1 DEF Sorted
<1>3. Len(LastFilesLast(Sorted(j.old), j.last)) \in Nat
  BY <1>1, <1>2, LastFilesLastIsSeq
<1>4. Installable \subseteq Files
  BY FilesAssumption DEF Installable
<1>5. DiffBins(j) \in Seq(Files)
  BY <1>3, <1>4, KeptIsSeq DEF DiffBins
<1>6. NewPartitions(j) \in Seq(Files)
  BY <1>1, NewPartitionsIsSeq
<1> QED BY <1>5, <1>6

(* Every file weighs something, also when its size is scaled by speed.     *)
LEMMA BySpeedIsPositive ==
  ASSUME NEW j, IsJob(j), NEW f \in Files
  PROVE  BySpeed(j, j.size)[f] \in Nat \ {0} /\ BySpeed(j, j.patch)[f] \in Nat \ {0}
<1>1. j.size[f] \in Nat \ {0} /\ j.patch[f] \in Nat \ {0} /\ j.speed[f] \in Nat \ {0}
  BY DEF IsJob
<1>2. \A a, b \in Nat \ {0} : a * b \in Nat \ {0}
  OBVIOUS
<1>3. BySpeed(j, j.size)[f] = j.speed[f] * j.size[f]
  BY DEF BySpeed
<1>4. BySpeed(j, j.patch)[f] = j.speed[f] * j.patch[f]
  BY DEF BySpeed
<1> QED BY <1>1, <1>2, <1>3, <1>4

-----------------------------------------------------------------------------
(* The progress nodes.                                                     *)

Sums(weight, s) ==
  /\ UpTo(weight, s, 0) = 0
  /\ \A i \in 0 .. Len(s) : UpTo(weight, s, i) \in Nat
  /\ \A i, j \in 0 .. Len(s) : i < j => UpTo(weight, s, i) < UpTo(weight, s, j)

(* The sums of such weights.                                               *)
LEMMA SumsAscend ==
  ASSUME NEW weight, NEW s \in Seq(Files), \A f \in Files : weight[f] \in Nat \ {0}
  PROVE  Sums(weight, s)
<1>1. Len(s) \in Nat /\ \A i \in 1 .. Len(s) : weight[s[i]] \in Nat \ {0}
  OBVIOUS
<1> QED BY <1>1, UpToIs, UpToAscends DEF Sums

(* Nodes that ascend from start to end, and reach end last.                *)
Rises(nodes, n, start, end) ==
  /\ \A i \in 1 .. n : nodes[i] \in start .. end
  /\ \A i \in 1 .. n : i < n => nodes[i] < end
  /\ \A i, j \in 1 .. n : i <= j => nodes[i] <= nodes[j]

(* gen_progress_list rises from start to end and reaches end last.         *)
LEMMA ProgressListRises ==
  ASSUME NEW weight, NEW s \in Seq(Files), \A f \in Files : weight[f] \in Nat \ {0},
         NEW start \in Int, NEW end \in Int, start < end
  PROVE  /\ ProgressList(start, end, weight, s) \in Seq(Int)
         /\ Len(ProgressList(start, end, weight, s)) = Len(s)
         /\ Rises(ProgressList(start, end, weight, s), Len(s), start, end)
         /\ s # <<>> => ProgressList(start, end, weight, s)[Len(s)] = end
<1> DEFINE n == Len(s)
           U(i) == UpTo(weight, s, i)
           span == end - start
           L == ProgressList(start, end, weight, s)
<1>1. n \in Nat /\ (s # <<>> => n \in 1 .. n)
  OBVIOUS
<1>2. /\ U(0) = 0 /\ \A i \in 0 .. n : U(i) \in Nat
      /\ \A i, j \in 0 .. n : i < j => U(i) < U(j)
  BY SumsAscend DEF Sums
<1>3. \A i \in 1 .. n : L[i] = IF i = n THEN end ELSE start + (U(i) * span) \div U(n)
  BY DEF ProgressList, Total
<1>4. L = [i \in 1 .. n |-> L[i]]
  BY DEF ProgressList
<1>5. span \in Nat \ {0} /\ start + span = end
  OBVIOUS
<1> HIDE DEF U, L, span
<1>6. ASSUME NEW i \in 1 .. n, i < n
      PROVE  L[i] \in Int /\ start <= L[i] /\ L[i] < end
  <2>1. 0 \in 0 .. n /\ i \in 0 .. n /\ n \in 0 .. n /\ 0 < i
    BY <1>1
  <2>2. U(i) \in Nat /\ U(n) \in Nat \ {0} /\ U(i) < U(n)
    BY <1>2, <1>6, <2>1
  <2> DEFINE a == U(i) * span
             q == a \div U(n)
  <2>3. a \in Nat /\ a < U(n) * span /\ U(n) * span = span * U(n)
    BY <2>2, <1>5, MulStrict
  <2> HIDE DEF a
  <2>4. q \in Int
    BY <2>2, <2>3, DivIs
  <2>5. 0 <= q
    <3>1. 0 * U(n) <= a
      BY <2>2, <2>3
    <3> QED BY <2>2, <2>3, <3>1, DivAtLeast
  <2>6. q < span
    <3>1. a < span * U(n)
      BY <2>3
    <3> QED BY <2>2, <2>3, <3>1, <1>5, DivLess
  <2>7. L[i] = start + q
    BY <1>3, <1>6 DEF a
  <2> HIDE DEF q
  <2> QED BY <2>4, <2>5, <2>6, <2>7, <1>5
<1>7. ASSUME NEW i \in 1 .. n, NEW j \in 1 .. n, i <= j
      PROVE  L[i] <= L[j]
  <2>1. CASE j = n
    <3>1. L[j] = end
      BY <2>1, <1>3
    <3>2. CASE i = n
      BY <2>1, <3>1, <3>2
    <3>3. CASE i # n
      <4>1. i < n
        BY <1>1, <3>3
      <4> QED BY <3>1, <4>1, <1>6
    <3> QED BY <3>2, <3>3
  <2>2. CASE i = j /\ j # n
    <3>1. j < n
      BY <1>1, <2>2
    <3> QED BY <2>2, <3>1, <1>6
  <2>3. CASE i # j /\ j # n
    <3>1. i < j /\ j < n /\ i < n /\ i # n /\ i \in 0 .. n /\ j \in 0 .. n /\ n \in 0 .. n /\ 0 < n /\ 0 \in 0 .. n
      BY <1>1, <1>7, <2>3
    <3>2. U(i) \in Nat /\ U(j) \in Nat /\ U(n) \in Nat \ {0} /\ U(i) <= U(j)
      BY <1>2, <3>1
    <3> DEFINE a == U(i) * span
               c == U(j) * span
    <3>3. a \in Int /\ c \in Int /\ a <= c
      BY <3>2, <1>5, MulMono
    <3> HIDE DEF a, c
    <3>4. a * U(n) <= c * U(n)
      BY <3>2, <3>3, MulMono
    <3>5. a \div U(n) <= c \div U(n)
      BY <3>2, <3>3, <3>4, DivAscends
    <3>6. a \div U(n) \in Int /\ c \div U(n) \in Int
      BY <3>2, <3>3, DivIs
    <3>7. L[i] = start + a \div U(n) /\ L[j] = start + c \div U(n)
      BY <1>3, <2>3, <3>1 DEF a, c
    <3> DEFINE x == a \div U(n)
               y == c \div U(n)
    <3> HIDE DEF x, y
    <3>8. x \in Int /\ y \in Int /\ x <= y /\ L[i] = start + x /\ L[j] = start + y
      BY <3>5, <3>6, <3>7 DEF x, y
    <3> QED BY <3>8
  <2> QED BY <2>1, <2>2, <2>3
<1>8. n >= 1 => L[n] = end
  BY <1>1, <1>3
<1>9. ASSUME NEW i \in 1 .. n
      PROVE  L[i] \in start .. end
  <2>1. CASE i = n
    BY <2>1, <1>8
  <2>2. CASE i # n
    <3>1. i < n
      BY <1>1, <2>2
    <3> QED BY <3>1, <1>6
  <2> QED BY <2>1, <2>2
<1>10. L \in Seq(Int) /\ Len(L) = n
  <2>1. \A i \in 1 .. n : L[i] \in Int
    BY <1>9
  <2> QED BY <1>1, <1>4, <2>1
<1>11. Rises(L, n, start, end)
  BY <1>6, <1>7, <1>9 DEF Rises
<1>12. s # <<>> => L[n] = end
  BY <1>1, <1>8
<1> QED BY <1>10, <1>11, <1>12 DEF L

(* The nodes of a differential package are shares of what is left behind   *)
(* 30: which share, as a fraction.                                         *)
Images(j) == Total(BySpeed(j, j.size), DiffBins(j))
AllImages(j) == Images(j) + Total(BySpeed(j, j.size), NewPartitions(j))
Patches(j) == Total(BySpeed(j, j.patch), DiffBins(j))

PatchesTo(j, i) == UpTo(BySpeed(j, j.patch), DiffBins(j), i)
NewTo(j, i) == UpTo(BySpeed(j, j.size), NewPartitions(j), i)

Numerator(j, i) ==
  IF i <= Len(DiffBins(j)) THEN Images(j) * PatchesTo(j, i)
  ELSE IF i <= 2 * Len(DiffBins(j))
       THEN Images(j) * (Patches(j) + 9 * PatchesTo(j, i - Len(DiffBins(j))))
  ELSE Images(j) + NewTo(j, i - 2 * Len(DiffBins(j)))

Denominator(j, i) ==
  IF i <= 2 * Len(DiffBins(j)) THEN 10 * (AllImages(j) * Patches(j)) ELSE AllImages(j)

ShareOf(j, i) == 30 + ((EndNode(j) - 30) * Numerator(j, i)) \div Denominator(j, i)

DiffSize(j) == 2 * Len(DiffBins(j)) + Len(NewPartitions(j))

(* The sums the shares are made of.                                        *)
DiffSums(j) ==
  /\ Images(j) \in Nat \ {0} /\ Patches(j) \in Nat \ {0}
  /\ AllImages(j) \in Nat \ {0} /\ Images(j) <= AllImages(j)
  /\ \A i \in 1 .. Len(DiffBins(j)) :
       /\ PatchesTo(j, i) \in 1 .. Patches(j)
       /\ i < Len(DiffBins(j)) => PatchesTo(j, i) < Patches(j)
       /\ \A k \in i .. Len(DiffBins(j)) : PatchesTo(j, i) <= PatchesTo(j, k)
  /\ \A i \in 1 .. Len(NewPartitions(j)) :
       /\ NewTo(j, i) \in Nat \ {0} /\ Images(j) + NewTo(j, i) <= AllImages(j)
       /\ i < Len(NewPartitions(j)) => Images(j) + NewTo(j, i) < AllImages(j)
       /\ \A k \in i .. Len(NewPartitions(j)) : NewTo(j, i) <= NewTo(j, k)
  /\ NewPartitions(j) # <<>> => Images(j) < AllImages(j)

(* Every image and every patch adds to the sums.                           *)
LEMMA DiffSumsAre ==
  ASSUME NEW j, IsJob(j), DiffBins(j) # <<>>
  PROVE  DiffSums(j)
<1> DEFINE bins == DiffBins(j)
           new == NewPartitions(j)
           k == Len(bins)
           l == Len(new)
           P(i) == PatchesTo(j, i)
           N(i) == NewTo(j, i)
           t == UpTo(BySpeed(j, j.size), bins, k)
<1>1. bins \in Seq(Files) /\ new \in Seq(Files) /\ k \in Nat \ {0} /\ l \in Nat
  BY DiffBinsIsSeq
<1>2. \A f \in Files : BySpeed(j, j.size)[f] \in Nat \ {0}
  BY BySpeedIsPositive
<1>3. \A f \in Files : BySpeed(j, j.patch)[f] \in Nat \ {0}
  BY BySpeedIsPositive
<1>4. /\ P(0) = 0 /\ \A i \in 0 .. k : P(i) \in Nat
      /\ \A i, m \in 0 .. k : i < m => P(i) < P(m)
  BY <1>1, <1>3, SumsAscend DEF Sums, PatchesTo
<1>5. /\ N(0) = 0 /\ \A i \in 0 .. l : N(i) \in Nat
      /\ \A i, m \in 0 .. l : i < m => N(i) < N(m)
  BY <1>1, <1>2, SumsAscend DEF Sums, NewTo
<1>6. t \in Nat \ {0}
  <2>1. Sums(BySpeed(j, j.size), bins)
    BY <1>1, <1>2, SumsAscend
  <2>2. 0 \in 0 .. k /\ k \in 0 .. k /\ 0 < k
    BY <1>1
  <2> QED BY <2>1, <2>2 DEF Sums
<1>7. Images(j) = t /\ Patches(j) = P(k) /\ AllImages(j) = t + N(l)
  BY DEF Images, Patches, AllImages, Total, PatchesTo, NewTo
<1> HIDE DEF P, N, t, k, l
<1>8. P(k) \in Nat \ {0} /\ N(l) \in Nat
  <2>1. 0 \in 0 .. k /\ k \in 0 .. k /\ 0 < k /\ l \in 0 .. l
    BY <1>1
  <2> QED BY <2>1, <1>4, <1>5
<1>9. ASSUME NEW i \in 1 .. k
      PROVE  /\ P(i) \in 1 .. P(k)
             /\ i < k => P(i) < P(k)
             /\ \A m \in i .. k : P(i) <= P(m)
  <2>1. 0 \in 0 .. k /\ i \in 0 .. k /\ k \in 0 .. k /\ 0 < i
    BY <1>1
  <2>2. P(i) \in Nat /\ 0 < P(i) /\ (i < k => P(i) < P(k))
    BY <2>1, <1>4
  <2>3. ASSUME NEW m \in i .. k
        PROVE  P(i) <= P(m) /\ m \in 0 .. k
    <3>1. m \in 0 .. k /\ (i = m \/ i < m)
      BY <1>1, <2>1
    <3> QED BY <3>1, <2>1, <1>4
  <2>4. P(i) <= P(k)
    <3>1. i = k \/ i < k
      BY <1>1
    <3> QED BY <3>1, <2>2, <1>8
  <2> QED BY <2>2, <2>3, <2>4, <1>8
<1>10. ASSUME NEW i \in 1 .. l
       PROVE  /\ N(i) \in Nat \ {0} /\ N(i) <= N(l)
              /\ i < l => N(i) < N(l)
              /\ \A m \in i .. l : N(i) <= N(m)
  <2>1. 0 \in 0 .. l /\ i \in 0 .. l /\ l \in 0 .. l /\ 0 < i
    BY <1>1
  <2>2. N(i) \in Nat /\ 0 < N(i) /\ (i < l => N(i) < N(l))
    BY <2>1, <1>5
  <2>3. ASSUME NEW m \in i .. l
        PROVE  N(i) <= N(m) /\ m \in 0 .. l
    <3>1. m \in 0 .. l /\ (i = m \/ i < m)
      BY <1>1, <2>1
    <3> QED BY <3>1, <2>1, <1>5
  <2>4. N(i) <= N(l)
    <3>1. i = l \/ i < l
      BY <1>1
    <3> QED BY <3>1, <2>2, <1>8
  <2> QED BY <2>2, <2>3, <2>4, <1>8
<1>11. new # <<>> => N(l) \in Nat \ {0}
  <2>1. new # <<>> => l \in 1 .. l
    BY <1>1 DEF l
  <2> QED BY <2>1, <1>10
<1>12. t <= t + N(l) /\ t + N(l) \in Nat \ {0}
  BY <1>6, <1>8
<1>13. ASSUME NEW i \in 1 .. l
       PROVE  /\ t + N(i) <= t + N(l)
              /\ i < l => t + N(i) < t + N(l)
  <2>1. N(i) \in Nat /\ N(i) <= N(l) /\ (i < l => N(i) < N(l))
    BY <1>10
  <2> QED BY <2>1, <1>6, <1>8
<1>14. new # <<>> => t < t + N(l)
  BY <1>6, <1>11
<1>15. /\ \A i \in 1 .. k : /\ P(i) \in 1 .. P(k)
                            /\ i < k => P(i) < P(k)
                            /\ \A m \in i .. k : P(i) <= P(m)
  BY <1>9
<1>16. \A i \in 1 .. l : /\ N(i) \in Nat \ {0} /\ t + N(i) <= t + N(l)
                         /\ i < l => t + N(i) < t + N(l)
                         /\ \A m \in i .. l : N(i) <= N(m)
  BY <1>10, <1>13
<1>17. /\ Images(j) \in Nat \ {0} /\ Patches(j) \in Nat \ {0}
       /\ AllImages(j) \in Nat \ {0} /\ Images(j) <= AllImages(j)
  BY <1>6, <1>7, <1>8, <1>12
<1>18. \A i \in 1 .. k :
         /\ PatchesTo(j, i) \in 1 .. Patches(j)
         /\ i < k => PatchesTo(j, i) < Patches(j)
         /\ \A m \in i .. k : PatchesTo(j, i) <= PatchesTo(j, m)
  BY <1>7, <1>15 DEF P
<1>19. \A i \in 1 .. l :
         /\ NewTo(j, i) \in Nat \ {0} /\ Images(j) + NewTo(j, i) <= AllImages(j)
         /\ i < l => Images(j) + NewTo(j, i) < AllImages(j)
         /\ \A m \in i .. l : NewTo(j, i) <= NewTo(j, m)
  BY <1>7, <1>16 DEF N
<1>20. new # <<>> => Images(j) < AllImages(j)
  BY <1>7, <1>14
<1> QED BY <1>17, <1>18, <1>19, <1>20 DEF DiffSums, k, l

DiffFractions(j) ==
  /\ \A i \in 1 .. DiffSize(j) :
       /\ Numerator(j, i) \in Nat /\ Denominator(j, i) \in Nat \ {0}
       /\ i < DiffSize(j) => Numerator(j, i) < Denominator(j, i)
  /\ \A i, k \in 1 .. DiffSize(j) :
       i <= k => Numerator(j, i) * Denominator(j, k) <= Numerator(j, k) * Denominator(j, i)

(* The shares are between 0 and 1, rise, and reach 1 with the last step at *)
(* the earliest.                                                           *)
LEMMA DiffFractionsAre ==
  ASSUME NEW j, IsJob(j), DiffBins(j) # <<>>
  PROVE  DiffFractions(j)
<1> DEFINE k == Len(DiffBins(j))
           l == Len(NewPartitions(j))
           n == DiffSize(j)
           I == Images(j)
           A == AllImages(j)
           Q == Patches(j)
           P(i) == PatchesTo(j, i)
           N(i) == NewTo(j, i)
           a(i) == Numerator(j, i)
           b(i) == Denominator(j, i)
           B == 10 * (A * Q)
           C == I * Q
<1>1. k \in Nat \ {0} /\ l \in Nat /\ (NewPartitions(j) # <<>> <=> l # 0) /\ n = 2 * k + l
  <2>1. DiffBins(j) \in Seq(Files) /\ NewPartitions(j) \in Seq(Files)
    BY DiffBinsIsSeq
  <2> QED BY <2>1 DEF DiffSize
<1>2. DiffSums(j)
  BY DiffSumsAre
<1>3. /\ I \in Nat \ {0} /\ Q \in Nat \ {0} /\ A \in Nat \ {0} /\ I <= A
      /\ l # 0 => I < A
  BY <1>1, <1>2 DEF DiffSums
<1>4. \A i \in 1 .. k :
        /\ P(i) \in 1 .. Q
        /\ i < k => P(i) < Q
        /\ \A m \in i .. k : P(i) <= P(m)
  BY <1>2 DEF DiffSums
<1>5. \A i \in 1 .. l :
        /\ N(i) \in Nat \ {0} /\ I + N(i) <= A
        /\ i < l => I + N(i) < A
        /\ \A m \in i .. l : N(i) <= N(m)
  BY <1>2 DEF DiffSums
<1>6. \A i : a(i) = IF i <= k THEN I * P(i)
                    ELSE IF i <= 2 * k THEN I * (Q + 9 * P(i - k))
                    ELSE I + N(i - 2 * k)
  BY DEF Numerator
<1>7. \A i : b(i) = IF i <= 2 * k THEN B ELSE A
  BY DEF Denominator
<1> HIDE DEF k, l, n, I, A, Q, P, N, a, b
<1>8. /\ C \in Nat \ {0} /\ A * Q \in Nat \ {0} /\ C <= A * Q
  <2>1. I * Q <= A * Q
    BY <1>3, MulMono
  <2>2. \A x, y \in Nat \ {0} : x * y \in Nat \ {0}
    OBVIOUS
  <2> QED BY <2>1, <2>2, <1>3
<1>9. B \in Nat \ {0} /\ 10 * C <= B /\ C < B
  <2> DEFINE AQ == A * Q
  <2> HIDE DEF C, AQ
  <2>1. C \in Nat \ {0} /\ AQ \in Nat \ {0} /\ C <= AQ
    BY <1>8 DEF AQ
  <2>2. B = 10 * AQ
    BY DEF AQ
  <2> QED BY <2>1, <2>2
<1>10. ASSUME NEW i \in 1 .. k
       PROVE  I * P(i) \in Nat /\ I * P(i) <= C
  <2>1. P(i) \in Nat /\ P(i) <= Q
    BY <1>3, <1>4
  <2>2. P(i) * I <= Q * I
    BY <2>1, <1>3, MulMono
  <2>3. P(i) * I = I * P(i) /\ Q * I = C /\ I * P(i) \in Nat
    BY <2>1, <1>3
  <2> QED BY <2>2, <2>3
<1>11. ASSUME NEW i \in 1 .. k
       PROVE  /\ I * (Q + 9 * P(i)) = C + 9 * (I * P(i))
              /\ i < k => I * P(i) < C
  <2>1. P(i) \in Nat
    BY <1>3, <1>4
  <2>2. I * (Q + 9 * P(i)) = C + 9 * (I * P(i))
    BY <2>1, <1>3
  <2>3. ASSUME i < k PROVE I * P(i) < C
    <3>1. P(i) < Q
      BY <2>3, <1>4
    <3>2. P(i) * I < Q * I
      BY <3>1, <2>1, <1>3, MulStrict
    <3>3. P(i) * I = I * P(i) /\ Q * I = C
      BY <2>1, <1>3
    <3> QED BY <3>2, <3>3
  <2> QED BY <2>2, <2>3
<1> DEFINE G(i) == I * P(i)
<1>12. ASSUME NEW i \in 1 .. k
       PROVE  /\ G(i) \in Nat /\ G(i) <= C /\ (i < k => G(i) < C)
              /\ \A m \in i .. k : G(i) <= G(m)
              /\ a(i) = G(i)
  <2>1. ASSUME NEW m \in i .. k
        PROVE  G(i) <= G(m)
    <3>1. m \in 1 .. k
      BY <1>1
    <3>2. P(i) \in Nat /\ P(m) \in Nat /\ P(i) <= P(m)
      BY <3>1, <1>3, <1>4
    <3>3. P(i) * I <= P(m) * I
      BY <3>2, <1>3, MulMono
    <3>4. P(i) * I = I * P(i) /\ P(m) * I = I * P(m)
      BY <3>2, <1>3
    <3> QED BY <3>3, <3>4
  <2>2. i <= k
    BY <1>1
  <2>3. a(i) = G(i)
    BY <2>2, <1>6
  <2> QED BY <2>1, <2>3, <1>10, <1>11
<1>13. \A i \in k + 1 .. 2 * k : a(i) = C + 9 * G(i - k) /\ i - k \in 1 .. k
  <2>1. ASSUME NEW i \in k + 1 .. 2 * k
        PROVE  a(i) = C + 9 * G(i - k) /\ i - k \in 1 .. k
    <3>1. i - k \in 1 .. k /\ ~(i <= k) /\ i <= 2 * k
      BY <1>1
    <3> QED BY <3>1, <1>6, <1>11
  <2> QED BY <2>1
<1> HIDE DEF G, C, B
<1>14. ASSUME NEW i \in 1 .. 2 * k
       PROVE  /\ a(i) \in Nat /\ a(i) <= 10 * C /\ b(i) = B
              /\ i < 2 * k => a(i) < 10 * C
              /\ \A m \in i .. 2 * k : a(i) <= a(m)
  <2>1. b(i) = B
    BY <1>7, <1>1
  <2>2. CASE i <= k
    <3>1. i \in 1 .. k
      BY <2>2, <1>1
    <3>2. a(i) \in Nat /\ a(i) <= C
      BY <3>1, <1>12
    <3>3. ASSUME NEW m \in i .. 2 * k
          PROVE  a(i) <= a(m)
      <4>1. CASE m <= k
        <5>1. m \in i .. k /\ m \in 1 .. k
          BY <3>1, <4>1, <1>1
        <5> QED BY <3>1, <5>1, <1>12
      <4>2. CASE ~(m <= k)
        <5>1. m \in k + 1 .. 2 * k
          BY <4>2, <1>1
        <5>2. a(m) = C + 9 * G(m - k) /\ G(m - k) \in Nat
          BY <5>1, <1>12, <1>13
        <5> QED BY <3>2, <5>2, <1>8
      <4> QED BY <4>1, <4>2
    <3> QED BY <2>1, <3>2, <3>3, <1>8
  <2>3. CASE ~(i <= k)
    <3>1. i \in k + 1 .. 2 * k /\ i - k \in 1 .. k
      BY <2>3, <1>1
    <3>2. a(i) = C + 9 * G(i - k) /\ G(i - k) \in Nat /\ G(i - k) <= C
      BY <3>1, <1>12, <1>13
    <3>3. ASSUME NEW m \in i .. 2 * k
          PROVE  a(i) <= a(m)
      <4>1. m \in k + 1 .. 2 * k /\ m - k \in 1 .. k /\ m - k \in (i - k) .. k
        BY <3>1, <1>1
      <4>2. a(m) = C + 9 * G(m - k) /\ G(m - k) \in Nat
        BY <4>1, <1>12, <1>13
      <4>3. G(i - k) <= G(m - k)
        BY <3>1, <4>1, <1>12
      <4> QED BY <3>2, <4>2, <4>3, <1>8
    <3>4. ASSUME i < 2 * k PROVE a(i) < 10 * C
      <4>1. i - k < k
        BY <3>4, <3>1, <1>1
      <4>2. G(i - k) < C
        BY <4>1, <3>1, <1>12
      <4> QED BY <4>2, <3>2, <1>8
    <3> QED BY <2>1, <3>2, <3>3, <3>4, <1>8
  <2> QED BY <2>2, <2>3
<1>15. ASSUME NEW i \in 2 * k + 1 .. n
       PROVE  /\ a(i) \in Nat /\ I <= a(i) /\ a(i) <= A /\ b(i) = A
              /\ i < n => a(i) < A
              /\ \A m \in i .. n : a(i) <= a(m)
  <2>1. i - 2 * k \in 1 .. l /\ ~(i <= k) /\ ~(i <= 2 * k)
    BY <1>1
  <2>2. a(i) = I + N(i - 2 * k) /\ b(i) = A
    BY <2>1, <1>6, <1>7
  <2>3. N(i - 2 * k) \in Nat \ {0} /\ I + N(i - 2 * k) <= A
    BY <2>1, <1>5
  <2>4. ASSUME i < n PROVE a(i) < A
    <3>1. i - 2 * k < l
      BY <2>1, <2>4, <1>1
    <3> QED BY <2>1, <2>2, <3>1, <1>5
  <2>5. ASSUME NEW m \in i .. n
        PROVE  a(i) <= a(m)
    <3>1. m - 2 * k \in (i - 2 * k) .. l /\ m - 2 * k \in 1 .. l /\ ~(m <= k) /\ ~(m <= 2 * k)
      BY <2>1, <1>1
    <3>2. a(m) = I + N(m - 2 * k)
      BY <3>1, <1>6
    <3>3. N(i - 2 * k) <= N(m - 2 * k) /\ N(m - 2 * k) \in Nat
      BY <2>1, <3>1, <1>5
    <3> QED BY <2>2, <2>3, <3>2, <3>3, <1>3
  <2> QED BY <2>2, <2>3, <2>4, <2>5, <1>3
<1>16. \A i \in 1 .. n : i \in 1 .. 2 * k \/ i \in 2 * k + 1 .. n
  BY <1>1
<1>17. ASSUME NEW i \in 1 .. n
       PROVE  a(i) \in Nat /\ b(i) \in Nat \ {0} /\ (i < n => a(i) < b(i))
  <2>1. CASE i \in 1 .. 2 * k
    <3>1. a(i) \in Nat /\ b(i) = B /\ a(i) <= 10 * C
      BY <2>1, <1>14
    <3>2. ASSUME i < n PROVE a(i) < B
      <4>1. CASE i < 2 * k
        <5>1. a(i) < 10 * C
          BY <2>1, <4>1, <1>14
        <5> QED BY <3>1, <5>1, <1>8, <1>9
      <4>2. CASE ~(i < 2 * k)
        <5>1. l # 0
          BY <3>2, <4>2, <2>1, <1>1
        <5>2. I < A
          BY <5>1, <1>3
        <5>3. I * Q < A * Q
          BY <5>2, <1>3, MulStrict
        <5>4. 10 * C < B
          BY <5>3, <1>3, <1>8 DEF B, C
        <5> QED BY <3>1, <5>4, <1>8, <1>9
      <4> QED BY <4>1, <4>2
    <3> QED BY <3>1, <3>2, <1>9
  <2>2. CASE i \in 2 * k + 1 .. n
    BY <2>2, <1>15, <1>3
  <2> QED BY <2>1, <2>2, <1>16
<1>18. ASSUME NEW i \in 1 .. n, NEW m \in 1 .. n, i <= m
       PROVE  a(i) * b(m) <= a(m) * b(i)
  <2>1. CASE m \in 1 .. 2 * k
    <3>1. i \in 1 .. 2 * k /\ m \in i .. 2 * k
      BY <2>1, <1>1, <1>18
    <3>2. a(i) <= a(m) /\ a(i) \in Nat /\ a(m) \in Nat /\ b(i) = B /\ b(m) = B
      BY <2>1, <3>1, <1>14
    <3> QED BY <3>2, <1>9, MulMono
  <2>2. CASE i \in 2 * k + 1 .. n
    <3>1. m \in 2 * k + 1 .. n /\ m \in i .. n
      BY <2>2, <1>1, <1>18
    <3>2. a(i) <= a(m) /\ a(i) \in Nat /\ a(m) \in Nat /\ b(i) = A /\ b(m) = A
      BY <2>2, <3>1, <1>15
    <3> QED BY <3>2, <1>3, MulMono
  <2>3. CASE i \in 1 .. 2 * k /\ m \in 2 * k + 1 .. n
    <3>1. a(i) \in Nat /\ a(i) <= 10 * C /\ b(i) = B
      BY <2>3, <1>14
    <3>2. a(m) \in Nat /\ I <= a(m) /\ b(m) = A
      BY <2>3, <1>15
    <3>3. a(i) * A <= (10 * C) * A
      BY <3>1, <1>3, <1>8, MulMono
    <3>4. (10 * C) * A = I * B
      BY <1>3 DEF B, C
    <3>5. I * B <= a(m) * B
      BY <3>2, <1>3, <1>9, MulMono
    <3>6. a(i) * A \in Nat /\ I * B \in Nat /\ a(m) * B \in Nat
      BY <3>1, <3>2, <1>3, <1>9
    <3> QED BY <3>1, <3>2, <3>3, <3>4, <3>5, <3>6
  <2> QED BY <2>1, <2>2, <2>3, <1>16
<1> QED BY <1>17, <1>18 DEF DiffFractions, a, b, n

(* The node the steps end at is a percentage.                              *)
LEMMA EndNodeIsPercentage ==
  ASSUME NEW j, IsJob(j)
  PROVE  EndNode(j) \in 0 .. 100
<1>1. j.endpart \in 0 .. 100
  BY DEF IsJob
<1> QED BY <1>1 DEF EndNode

(* Each node but the last is such a share; the last is EndNode.            *)
LEMMA DiffNodesAre ==
  ASSUME NEW j, IsJob(j), DiffBins(j) # <<>>
  PROVE  /\ DiffNodes(j) \in Seq(Int) /\ Len(DiffNodes(j)) = DiffSize(j)
         /\ DiffNodes(j)[DiffSize(j)] = EndNode(j)
         /\ \A i \in 1 .. DiffSize(j) : i < DiffSize(j) => DiffNodes(j)[i] = ShareOf(j, i)
<1> DEFINE share == DiffShares(j)
           x == share.precheck
           y == share.generate
           z == share.install
           k == Len(DiffBins(j))
           l == Len(NewPartitions(j))
           n == DiffSize(j)
           span == EndNode(j) - 30
           I == Images(j)
           A == AllImages(j)
           Q == Patches(j)
           P(i) == PatchesTo(j, i)
           N(i) == NewTo(j, i)
<1>1. k \in Nat \ {0} /\ l \in Nat /\ n = 2 * k + l
  <2>1. DiffBins(j) \in Seq(Files) /\ NewPartitions(j) \in Seq(Files)
    BY DiffBinsIsSeq
  <2> QED BY <2>1 DEF DiffSize
<1>2. span \in Int /\ EndNode(j) \in Int
  <2> DEFINE E == EndNode(j)
  <2>1. E \in 0 .. 100
    BY EndNodeIsPercentage
  <2>2. SUFFICES E - 30 \in Int /\ E \in Int
    OBVIOUS
  <2> HIDE DEF E
  <2> QED BY <2>1
<1>3. DiffSums(j)
  BY DiffSumsAre
<1>4. I \in Nat \ {0} /\ Q \in Nat \ {0} /\ A \in Nat \ {0}
      /\ (\A i \in 1 .. k : P(i) \in Nat) /\ (\A i \in 1 .. l : N(i) \in Nat)
  BY <1>3 DEF DiffSums
<1>5. x = [i \in 1 .. k |-> 30 + (span * I * P(i)) \div (10 * A * Q)]
  BY DEF DiffShares, Images, AllImages, Patches, PatchesTo
<1>6. y = [i \in 1 .. k |-> 30 + (span * I * (Q + 9 * P(i))) \div (10 * A * Q)]
  BY DEF DiffShares, Images, AllImages, Patches, PatchesTo
<1>7. z = [i \in 1 .. l |-> 30 + (span * (I + N(i))) \div A]
  BY DEF DiffShares, Images, AllImages, NewTo
<1>8. DiffNodes(j) = [((x \o y) \o z) EXCEPT ![Len((x \o y) \o z)] = EndNode(j)]
  BY DEF DiffNodes
<1>9. \A i : ShareOf(j, i) = 30 + (span * Numerator(j, i)) \div Denominator(j, i)
  BY DEF ShareOf
<1>10. \A i : Numerator(j, i) = IF i <= k THEN I * P(i)
                    ELSE IF i <= 2 * k THEN I * (Q + 9 * P(i - k))
                    ELSE I + N(i - 2 * k)
  BY DEF Numerator
<1>11. \A i : Denominator(j, i) = IF i <= 2 * k THEN 10 * (A * Q) ELSE A
  BY DEF Denominator
<1> HIDE DEF share, x, y, z, k, l, n, span, I, A, Q, P, N
<1>12. ASSUME NEW i \in 1 .. k
       PROVE  x[i] = ShareOf(j, i) /\ x[i] \in Int
  <2>1. i <= k /\ i <= 2 * k /\ P(i) \in Nat
    BY <1>1, <1>4
  <2>2. ShareOf(j, i) = 30 + (span * (I * P(i))) \div (10 * (A * Q))
    BY <2>1, <1>9, <1>10, <1>11
  <2>3. span * I * P(i) = span * (I * P(i)) /\ 10 * A * Q = 10 * (A * Q)
    BY <2>1, <1>2, <1>4
  <2>4. x[i] = 30 + (span * I * P(i)) \div (10 * A * Q)
    BY <1>5
  <2>5. x[i] = ShareOf(j, i)
    BY <2>2, <2>3, <2>4
  <2>6. 10 * (A * Q) \in Nat \ {0} /\ span * (I * P(i)) \in Int
    BY <2>1, <1>2, <1>4
  <2>7. (span * (I * P(i))) \div (10 * (A * Q)) \in Int
    BY <2>6, DivIs
  <2> QED BY <2>2, <2>5, <2>7
<1>13. ASSUME NEW i \in 1 .. k
       PROVE  y[i] = ShareOf(j, k + i) /\ y[i] \in Int
  <2>1. ~(k + i <= k) /\ k + i <= 2 * k /\ (k + i) - k = i /\ P(i) \in Nat
    BY <1>1, <1>4
  <2> DEFINE W == Q + 9 * P(i)
  <2>2. W \in Nat
    BY <2>1, <1>4
  <2>3. ShareOf(j, k + i) = 30 + (span * (I * W)) \div (10 * (A * Q))
    BY <2>1, <1>9, <1>10, <1>11
  <2>4. y[i] = 30 + (span * I * W) \div (10 * A * Q)
    BY <1>6
  <2> HIDE DEF W
  <2>5. span * I * W = span * (I * W) /\ 10 * A * Q = 10 * (A * Q)
    BY <2>2, <1>2, <1>4
  <2>6. y[i] = ShareOf(j, k + i)
    BY <2>3, <2>4, <2>5
  <2>7. 10 * (A * Q) \in Nat \ {0} /\ span * (I * W) \in Int
    BY <2>2, <1>2, <1>4
  <2>8. (span * (I * W)) \div (10 * (A * Q)) \in Int
    BY <2>7, DivIs
  <2> QED BY <2>3, <2>6, <2>8
<1>14. ASSUME NEW i \in 1 .. l
       PROVE  z[i] = ShareOf(j, 2 * k + i) /\ z[i] \in Int
  <2>1. ~(2 * k + i <= k) /\ ~(2 * k + i <= 2 * k) /\ (2 * k + i) - 2 * k = i /\ N(i) \in Nat
    BY <1>1, <1>4
  <2>2. ShareOf(j, 2 * k + i) = 30 + (span * (I + N(i))) \div A
    BY <2>1, <1>9, <1>10, <1>11
  <2>3. z[i] = 30 + (span * (I + N(i))) \div A
    BY <1>7
  <2>4. span * (I + N(i)) \in Int
    BY <2>1, <1>2, <1>4
  <2>5. (span * (I + N(i))) \div A \in Int
    BY <2>4, <1>4, DivIs
  <2> QED BY <2>2, <2>3, <2>5
<1>15. /\ x \in Seq(Int) /\ Len(x) = k
       /\ y \in Seq(Int) /\ Len(y) = k
       /\ z \in Seq(Int) /\ Len(z) = l
  <2>1. x \in Seq(Int) /\ Len(x) = k
    <3>1. x = [i \in 1 .. k |-> x[i]]
      BY <1>5
    <3> QED BY <3>1, <1>1, <1>12
  <2>2. y \in Seq(Int) /\ Len(y) = k
    <3>1. y = [i \in 1 .. k |-> y[i]]
      BY <1>6
    <3> QED BY <3>1, <1>1, <1>13
  <2>3. z \in Seq(Int) /\ Len(z) = l
    <3>1. z = [i \in 1 .. l |-> z[i]]
      BY <1>7
    <3> QED BY <3>1, <1>1, <1>14
  <2> QED BY <2>1, <2>2, <2>3
<1> DEFINE xy == x \o y
           xyz == xy \o z
<1>16. xy \in Seq(Int) /\ Joined(xy, x, y)
  BY <1>15, ConcatJoins
<1>17. xyz \in Seq(Int) /\ Joined(xyz, xy, z)
  BY <1>15, <1>16, ConcatJoins
<1>18. DiffNodes(j) = [xyz EXCEPT ![Len(xyz)] = EndNode(j)]
  BY <1>8
<1> HIDE DEF xy, xyz
<1>19. Len(xy) = 2 * k /\ Len(xyz) = n
  BY <1>1, <1>15, <1>16, <1>17 DEF Joined
<1>20. ASSUME NEW i \in 1 .. n
       PROVE  xyz[i] = ShareOf(j, i)
  <2>1. CASE i \in 1 .. k
    <3>1. i \in 1 .. 2 * k
      BY <2>1, <1>1
    <3>2. xyz[i] = xy[i] /\ xy[i] = x[i]
      BY <2>1, <3>1, <1>15, <1>16, <1>17, <1>19 DEF Joined
    <3> QED BY <2>1, <3>2, <1>12
  <2>2. CASE i \in k + 1 .. 2 * k
    <3> DEFINE m == i - k
    <3>1. i \in 1 .. 2 * k /\ m \in 1 .. k /\ i = k + m
      BY <2>2, <1>1
    <3> HIDE DEF m
    <3>2. xyz[i] = xy[i]
      BY <3>1, <1>17, <1>19 DEF Joined
    <3>3. xy[k + m] = y[m]
      BY <3>1, <1>15, <1>16 DEF Joined
    <3> QED BY <3>1, <3>2, <3>3, <1>13
  <2>3. CASE i \in 2 * k + 1 .. n
    <3> DEFINE m == i - 2 * k
    <3>1. m \in 1 .. l /\ i = 2 * k + m
      BY <2>3, <1>1
    <3> HIDE DEF m
    <3>2. xyz[2 * k + m] = z[m]
      BY <3>1, <1>15, <1>17, <1>19 DEF Joined
    <3> QED BY <3>1, <3>2, <1>14
  <2>4. i \in 1 .. k \/ i \in k + 1 .. 2 * k \/ i \in 2 * k + 1 .. n
    BY <1>1
  <2> QED BY <2>1, <2>2, <2>3, <2>4
<1>21. n \in Nat \ {0} /\ n \in 1 .. n
  BY <1>1
<1>22. xyz = [i \in 1 .. n |-> xyz[i]] /\ \A i \in 1 .. n : xyz[i] \in Int
  BY <1>17, <1>19
<1>23. DiffNodes(j) = [i \in 1 .. n |-> IF i = n THEN EndNode(j) ELSE xyz[i]]
  BY <1>18, <1>19, <1>22
<1>24. DiffNodes(j) \in Seq(Int) /\ Len(DiffNodes(j)) = n
  BY <1>2, <1>21, <1>22, <1>23
<1>25. DiffNodes(j)[n] = EndNode(j)
  BY <1>21, <1>23
<1>26. ASSUME NEW i \in 1 .. n, i < n
       PROVE  DiffNodes(j)[i] = ShareOf(j, i)
  <2>1. i # n
    BY <1>21, <1>26
  <2> QED BY <2>1, <1>20, <1>23
<1> QED BY <1>24, <1>25, <1>26 DEF n

(* What the device relies on in the nodes of a script.                     *)
NodesFit(nodes, n, last) ==
  /\ \A i \in 1 .. n : nodes[i] \in 0 .. 100
  /\ \A i \in 1 .. n : i < n => nodes[i] < 100
  /\ last >= 30 => \A i \in 1 .. n : nodes[i] >= 30
  /\ last >= 30 => \A i, j \in 1 .. n : i <= j => nodes[i] <= nodes[j]

(* A share of a span is inside the span, also when it is negative.         *)
LEMMA ShareIsInside ==
  ASSUME NEW span \in Int, NEW a \in Nat, NEW b \in Nat \ {0}, a < b
  PROVE  /\ (span * a) \div b \in Int
         /\ span > 0 => 0 <= (span * a) \div b /\ (span * a) \div b < span
         /\ span = 0 => (span * a) \div b = 0
         /\ span < 0 => span <= (span * a) \div b /\ (span * a) \div b <= 0
<1> DEFINE c == span * a
           q == c \div b
<1>1. c \in Int
  OBVIOUS
<1>2. span * b \in Int /\ b * span = span * b /\ a * span = c
  OBVIOUS
<1>3. ASSUME span > 0 PROVE 0 <= c /\ c < span * b
  <2>1. a * span < b * span
    BY <1>3, MulStrict
  <2>2. 0 * span <= a * span
    BY <1>3, MulMono
  <2> QED BY <1>2, <2>1, <2>2
<1>4. ASSUME span < 0 PROVE span * b <= c /\ c < b
  <2> DEFINE m == 0 - span
  <2>1. m \in Nat
    BY <1>4
  <2>2. a * m <= b * m /\ 0 * m <= a * m
    BY <2>1, MulMono
  <2>3. a * m = 0 - c /\ b * m = 0 - span * b /\ 0 * m = 0
    OBVIOUS
  <2> HIDE DEF m, c
  <2> QED BY <1>1, <1>2, <2>2, <2>3
<1>5. ASSUME span = 0 PROVE c = 0
  BY <1>5
<1> HIDE DEF c
<1>6. q \in Int
  BY <1>1, DivIs
<1>7. ASSUME span > 0 PROVE 0 <= q /\ q < span
  <2>1. 0 * b <= c
    BY <1>1, <1>3, <1>7
  <2>2. 0 <= q
    BY <1>1, <2>1, DivAtLeast
  <2>3. c < span * b
    BY <1>3, <1>7
  <2>4. q < span
    BY <1>1, <2>3, DivLess
  <2> QED BY <2>2, <2>4
<1>8. ASSUME span < 0 PROVE span <= q /\ q <= 0
  <2>1. span <= q
    BY <1>1, <1>4, <1>8, DivAtLeast
  <2>2. c < 1 * b
    BY <1>4, <1>8
  <2>3. q < 1
    BY <1>1, <2>2, DivLess
  <2> QED BY <1>6, <2>1, <2>3
<1>9. ASSUME span = 0 PROVE q = 0
  <2>1. 0 * b <= c /\ c < 1 * b
    BY <1>5, <1>9
  <2>2. 0 <= q /\ q < 1
    BY <1>1, <2>1, DivAtLeast, DivLess
  <2> QED BY <1>6, <2>2
<1> QED BY <1>6, <1>7, <1>8, <1>9 DEF c

(* The nodes of a differential package.                                    *)
LEMMA DiffNodesFit ==
  ASSUME NEW j, IsJob(j), DiffBins(j) # <<>>
  PROVE  NodesFit(DiffNodes(j), DiffSize(j), EndNode(j))
<1> DEFINE n == DiffSize(j)
           E == EndNode(j)
           span == E - 30
           a(i) == Numerator(j, i)
           b(i) == Denominator(j, i)
           v == DiffNodes(j)
<1>1. n \in Nat \ {0}
  BY DiffBinsIsSeq DEF DiffSize
<1>2. E \in 0 .. 100
  BY EndNodeIsPercentage
<1>3. v[n] = E /\ \A i \in 1 .. n : i < n => v[i] = ShareOf(j, i)
  BY DiffNodesAre
<1>4. DiffFractions(j)
  BY DiffFractionsAre
<1>5. \A i : ShareOf(j, i) = 30 + (span * a(i)) \div b(i)
  BY DEF ShareOf
<1>6. /\ \A i \in 1 .. n : /\ a(i) \in Nat /\ b(i) \in Nat \ {0}
                           /\ i < n => a(i) < b(i)
      /\ \A i, m \in 1 .. n : i <= m => a(i) * b(m) <= a(m) * b(i)
  BY <1>4 DEF DiffFractions
<1> HIDE DEF E
<1>7. span \in Int /\ E = 30 + span
  BY <1>2
<1> HIDE DEF n, span, a, b, v
<1> DEFINE q(i) == (span * a(i)) \div b(i)
<1>8. ASSUME NEW i \in 1 .. n, i < n
      PROVE  /\ v[i] = 30 + q(i) /\ q(i) \in Int
             /\ span > 0 => 0 <= q(i) /\ q(i) < span
             /\ span = 0 => q(i) = 0
             /\ span < 0 => span <= q(i) /\ q(i) <= 0
  <2>1. v[i] = 30 + q(i)
    BY <1>3, <1>5, <1>8
  <2>2. a(i) \in Nat /\ b(i) \in Nat \ {0} /\ a(i) < b(i)
    BY <1>6, <1>8
  <2> QED BY <2>1, <2>2, <1>7, ShareIsInside
<1>9. ASSUME NEW i \in 1 .. n, NEW m \in 1 .. n, i <= m, i < n, m < n, span >= 0
      PROVE  q(i) <= q(m)
  <2>1. /\ a(i) \in Nat /\ b(i) \in Nat \ {0} /\ a(m) \in Nat /\ b(m) \in Nat \ {0}
        /\ a(i) * b(m) <= a(m) * b(i)
    BY <1>6, <1>9
  <2> DEFINE ai == a(i)
             bi == b(i)
             am == a(m)
             bm == b(m)
  <2>2. /\ ai \in Nat /\ bi \in Nat \ {0} /\ am \in Nat /\ bm \in Nat \ {0}
        /\ ai * bm <= am * bi
    BY <2>1
  <2>3. SUFFICES (span * ai) \div bi <= (span * am) \div bm
    OBVIOUS
  <2> HIDE DEF ai, bi, am, bm, q
  <2>4. span \in Nat
    BY <1>7, <1>9
  <2>5. (ai * bm) * span <= (am * bi) * span
    <3>1. ai * bm \in Int /\ am * bi \in Int
      BY <2>2
    <3> QED BY <2>2, <2>4, <3>1, MulMono
  <2>6. (ai * bm) * span = (span * ai) * bm /\ (am * bi) * span = (span * am) * bi
    BY <2>2, <2>4
  <2>7. (span * ai) * bm <= (span * am) * bi
    BY <2>5, <2>6
  <2>8. span * ai \in Int /\ span * am \in Int
    BY <2>2, <2>4
  <2> QED BY <2>2, <2>7, <2>8, DivAscends
<1> HIDE DEF q
<1>10. ASSUME NEW i \in 1 .. n
       PROVE  /\ v[i] \in 0 .. 100
              /\ i < n => v[i] < 100
              /\ E >= 30 => v[i] >= 30 /\ v[i] <= E
  <2>1. CASE i = n
    BY <2>1, <1>1, <1>2, <1>3
  <2>2. CASE i # n
    <3>1. i < n
      BY <2>2, <1>1
    <3>2. /\ v[i] = 30 + q(i) /\ q(i) \in Int
          /\ span > 0 => 0 <= q(i) /\ q(i) < span
          /\ span = 0 => q(i) = 0
          /\ span < 0 => span <= q(i) /\ q(i) <= 0
      BY <3>1, <1>8
    <3> DEFINE w == v[i]
               u == q(i)
    <3>3. /\ w = 30 + u /\ u \in Int
          /\ span > 0 => 0 <= u /\ u < span
          /\ span = 0 => u = 0
          /\ span < 0 => span <= u /\ u <= 0
      BY <3>2
    <3>6. SUFFICES /\ w \in 0 .. 100 /\ w < 100
                   /\ E >= 30 => w >= 30 /\ w <= E
      OBVIOUS
    <3> HIDE DEF w, u
    <3>4. w \in Int /\ w <= 99 /\ w >= 0
      BY <3>3, <1>2, <1>7
    <3>5. E >= 30 => w >= 30 /\ w <= E
      BY <3>3, <1>2, <1>7
    <3> QED BY <3>4, <3>5
  <2> QED BY <2>1, <2>2
<1>11. ASSUME NEW i \in 1 .. n, NEW m \in 1 .. n, i <= m, E >= 30
       PROVE  v[i] <= v[m]
  <2>1. CASE m = n
    BY <2>1, <1>3, <1>10, <1>11
  <2>2. CASE m # n
    <3>1. i < n /\ m < n /\ span >= 0
      BY <2>2, <1>1, <1>7, <1>11
    <3>2. q(i) <= q(m)
      BY <3>1, <1>9, <1>11
    <3>3. v[i] = 30 + q(i) /\ v[m] = 30 + q(m) /\ q(i) \in Int /\ q(m) \in Int
      BY <3>1, <1>8
    <3> QED BY <3>2, <3>3
  <2> QED BY <2>1, <2>2
<1>12. NodesFit(v, n, E)
  BY <1>10, <1>11 DEF NodesFit
<1> QED BY <1>12 DEF v, n, E

(* The nodes of a full package.                                            *)
LEMMA FullNodesFit ==
  ASSUME NEW j, IsJob(j), FullBins(j) # <<>>, EndNode(j) > 45
  PROVE  /\ FullNodes(j) \in Seq(Int)
         /\ Len(FullNodes(j)) = Len(Rated(j)) + Len(FullBins(j))
         /\ NodesFit(FullNodes(j), Len(Rated(j)) + Len(FullBins(j)), EndNode(j))
<1> DEFINE weight == BySpeed(j, j.size)
           E == EndNode(j)
           x == ProgressList(30, 40, weight, Rated(j))
           y == ProgressList(45, E, weight, FullBins(j))
           k == Len(Rated(j))
           l == Len(FullBins(j))
           v == FullNodes(j)
<1>1. Rated(j) \in Seq(Files) /\ FullBins(j) \in Seq(Files) /\ k \in Nat /\ l \in Nat \ {0}
  BY FullBinsIsSeq
<1>2. \A f \in Files : weight[f] \in Nat \ {0}
  BY BySpeedIsPositive
<1>3. E \in 46 .. 100
  <2>1. E \in 0 .. 100
    BY EndNodeIsPercentage
  <2>2. E > 45
    OBVIOUS
  <2> HIDE DEF E
  <2> QED BY <2>1, <2>2
<1>4. v = x \o y
  BY DEF FullNodes
<1> HIDE DEF weight, E
<1>5. x \in Seq(Int) /\ Len(x) = k /\ Rises(x, k, 30, 40)
  BY <1>1, <1>2, ProgressListRises
<1>6. y \in Seq(Int) /\ Len(y) = l /\ Rises(y, l, 45, E)
  <2>1. E \in Int /\ 45 < E
    BY <1>3
  <2> QED BY <1>1, <1>2, <2>1, ProgressListRises
<1> HIDE DEF x, y, k, l, v
<1>7. v \in Seq(Int) /\ Joined(v, x, y)
  BY <1>4, <1>5, <1>6, ConcatJoins
<1>8. Len(v) = k + l /\ (\A i \in 1 .. k : v[i] = x[i]) /\ (\A i \in 1 .. l : v[k + i] = y[i])
  BY <1>5, <1>6, <1>7 DEF Joined
<1>9. ASSUME NEW i \in 1 .. k
      PROVE  v[i] = x[i] /\ x[i] \in 30 .. 40
  BY <1>5, <1>8 DEF Rises
<1>10. ASSUME NEW i \in k + 1 .. k + l
       PROVE  /\ i - k \in 1 .. l /\ v[i] = y[i - k] /\ y[i - k] \in 45 .. E
              /\ i < k + l => y[i - k] < E
  <2> DEFINE m == i - k
  <2>1. m \in 1 .. l /\ i = k + m /\ (i < k + l => m < l)
    BY <1>1
  <2> HIDE DEF m
  <2>2. v[i] = y[m] /\ y[m] \in 45 .. E /\ (m < l => y[m] < E)
    BY <2>1, <1>6, <1>8 DEF Rises
  <2> QED BY <2>1, <2>2 DEF m
<1>11. \A i \in 1 .. k + l : i \in 1 .. k \/ i \in k + 1 .. k + l
  BY <1>1
<1>12. ASSUME NEW i \in 1 .. k + l
       PROVE  v[i] \in 0 .. 100 /\ (i < k + l => v[i] < 100) /\ v[i] >= 30
  <2>1. CASE i \in 1 .. k
    BY <2>1, <1>9
  <2>2. CASE i \in k + 1 .. k + l
    <3> DEFINE p == y[i - k]
    <3>1. v[i] = p /\ p \in 45 .. E /\ (i < k + l => p < E)
      BY <2>2, <1>10
    <3> HIDE DEF p
    <3> QED BY <3>1, <1>3
  <2> QED BY <2>1, <2>2, <1>11
<1>13. ASSUME NEW i \in 1 .. k + l, NEW m \in 1 .. k + l, i <= m
       PROVE  v[i] <= v[m]
  <2>1. CASE m \in 1 .. k
    <3>1. i \in 1 .. k
      BY <2>1, <1>1, <1>13
    <3> QED BY <2>1, <3>1, <1>5, <1>9, <1>13 DEF Rises
  <2>2. CASE i \in k + 1 .. k + l
    <3>1. m \in k + 1 .. k + l /\ i - k <= m - k
      BY <2>2, <1>1, <1>13
    <3>2. y[i - k] <= y[m - k]
      BY <2>2, <3>1, <1>6, <1>10 DEF Rises
    <3> QED BY <2>2, <3>1, <3>2, <1>10
  <2>3. CASE i \in 1 .. k /\ m \in k + 1 .. k + l
    <3>1. v[i] \in 30 .. 40
      BY <2>3, <1>9
    <3>2. v[m] \in 45 .. E
      BY <2>3, <1>10
    <3> QED BY <3>1, <3>2, <1>3
  <2> QED BY <2>1, <2>2, <2>3, <1>11
<1>14. NodesFit(v, k + l, E)
  BY <1>12, <1>13 DEF NodesFit
<1> QED BY <1>7, <1>8, <1>14 DEF v, k, l, E

-----------------------------------------------------------------------------
(* The steps of a script: first m checks, then the writes.                 *)
CheckOp(j) == IF j.diff THEN "precheck" ELSE "verify"

ToCheck(j) == IF j.diff THEN DiffBins(j) ELSE Rated(j)

Built(j, steps, nodes, silent, marks, m) ==
  /\ steps \in Seq(Commands) /\ nodes \in Seq(Int) /\ Len(steps) = Len(nodes)
  /\ m \in 0 .. Len(steps) - 1
  /\ \A i \in 1 .. Len(steps) : steps[i].arg \in Files
  /\ \A i \in 1 .. m : steps[i].op = CheckOp(j)
  /\ \A i \in m + 1 .. Len(steps) : steps[i].op \in Writes
  /\ NodesFit(nodes, Len(steps), EndNode(j))
  /\ marks = IF j.diff THEN {m} ELSE {}
  /\ j.diff => m >= 1
  /\ \A f \in ToSet(ToCheck(j)) : \E i \in 1 .. m : steps[i].arg = f
  /\ \A f \in Payload(j) : \E i \in m + 1 .. Len(steps) : steps[i].arg = f
  /\ \A i \in silent : i + 1 \in 1 .. Len(steps) =>
       /\ j.diff /\ NewPartitions(j) # <<>>
       /\ steps[i + 1].arg = NewPartitions(j)[1]
  /\ \A i \in silent : i - 1 \notin silent

(* Steps gives each file the same operation.                               *)
LEMMA StepsAre ==
  ASSUME NEW op \in Ops, NEW s \in Seq(Files)
  PROVE  /\ Steps(op, s) \in Seq(Commands) /\ Len(Steps(op, s)) = Len(s)
         /\ \A i \in 1 .. Len(s) : /\ Steps(op, s)[i].op = op
                                   /\ Steps(op, s)[i].arg = s[i] /\ s[i] \in Files
<1>1. Len(s) \in Nat /\ \A i \in 1 .. Len(s) : s[i] \in Files /\ s[i] \in Int
  <2>1. \A f \in Files : f \in Int
    BY FilesAssumption
  <2>2. Len(s) \in Nat /\ \A i \in 1 .. Len(s) : s[i] \in Files
    OBVIOUS
  <2> QED BY <2>1, <2>2
<1>2. \A i \in 1 .. Len(s) : Do(op, s[i]) \in Commands
  BY <1>1 DEF Do, Commands
<1>3. Steps(op, s) = [i \in 1 .. Len(s) |-> Do(op, s[i])]
  BY DEF Steps
<1>4. \A i \in 1 .. Len(s) : Do(op, s[i]).op = op /\ Do(op, s[i]).arg = s[i]
  BY DEF Do
<1> QED BY <1>1, <1>2, <1>3, <1>4

(* A full package verifies its rated images, then installs.                *)
LEMMA FullIsBuilt ==
  ASSUME NEW j, IsJob(j), ~j.diff, FullBins(j) # <<>>, EndNode(j) > 45
  PROVE  Built(j, Steps("verify", Rated(j)) \o Steps("install", FullBins(j)),
               FullNodes(j), {}, {}, Len(Rated(j)))
<1> DEFINE r == Rated(j)
           b == FullBins(j)
           k == Len(r)
           l == Len(b)
           x == Steps("verify", r)
           y == Steps("install", b)
           s == x \o y
           v == FullNodes(j)
<1>1. r \in Seq(Files) /\ b \in Seq(Files) /\ k \in Nat /\ l \in Nat \ {0}
  BY FullBinsIsSeq
<1>2. "verify" \in Ops /\ "install" \in Ops /\ "install" \in Writes
  BY DEF Ops, Writes
<1>3. /\ x \in Seq(Commands) /\ Len(x) = k
      /\ \A i \in 1 .. k : x[i].op = "verify" /\ x[i].arg = r[i] /\ r[i] \in Files
  BY <1>1, <1>2, StepsAre
<1>4. /\ y \in Seq(Commands) /\ Len(y) = l
      /\ \A i \in 1 .. l : y[i].op = "install" /\ y[i].arg = b[i] /\ b[i] \in Files
  BY <1>1, <1>2, StepsAre
<1>5. v \in Seq(Int) /\ Len(v) = k + l /\ NodesFit(v, k + l, EndNode(j))
  BY FullNodesFit
<1>6. CheckOp(j) = "verify" /\ ToCheck(j) = r /\ Payload(j) = ToSet(b)
  BY DEF CheckOp, ToCheck, Payload
<1>7. ToSet(r) = {r[i] : i \in 1 .. k} /\ ToSet(b) = {b[i] : i \in 1 .. l}
  BY <1>1 DEF ToSet
<1> HIDE DEF r, b, k, l, x, y, v
<1>8. s \in Seq(Commands) /\ Joined(s, x, y)
  BY <1>3, <1>4, ConcatJoins
<1> HIDE DEF s
<1>9. /\ Len(s) = k + l
      /\ \A i \in 1 .. k : s[i] = x[i]
      /\ \A i \in 1 .. l : s[k + i] = y[i]
  BY <1>3, <1>4, <1>8 DEF Joined
<1>10. \A i \in 1 .. k : s[i].op = "verify" /\ s[i].arg = r[i] /\ s[i].arg \in Files
  BY <1>3, <1>9
<1>11. ASSUME NEW i \in k + 1 .. k + l
       PROVE  s[i].op \in Writes /\ s[i].arg \in Files
  <2> DEFINE m == i - k
  <2>1. m \in 1 .. l /\ i = k + m
    BY <1>1
  <2> HIDE DEF m
  <2>2. s[k + m] = y[m] /\ y[m].op = "install" /\ y[m].arg \in Files
    BY <2>1, <1>4, <1>9
  <2> QED BY <2>1, <2>2, <1>2
<1>12. \A i \in 1 .. k + l : i \in 1 .. k \/ i \in k + 1 .. k + l
  BY <1>1
<1>13. \A i \in 1 .. k + l : s[i].arg \in Files
  BY <1>10, <1>11, <1>12
<1>14. \A f \in ToSet(r) : \E i \in 1 .. k : s[i].arg = f
  BY <1>7, <1>10
<1>15. ASSUME NEW f \in ToSet(b)
       PROVE  \E i \in k + 1 .. k + l : s[i].arg = f
  <2>1. PICK m \in 1 .. l : f = b[m]
    BY <1>7
  <2>2. k + m \in k + 1 .. k + l
    BY <1>1
  <2>3. s[k + m].arg = f
    BY <2>1, <1>4, <1>9
  <2> QED BY <2>2, <2>3
<1>16. k \in 0 .. (k + l) - 1
  BY <1>1
<1>17. Built(j, s, v, {}, {}, k)
  BY <1>5, <1>6, <1>8, <1>9, <1>10, <1>11, <1>13, <1>14, <1>15, <1>16 DEF Built
<1> QED BY <1>17 DEF s, x, y, v, k, r, b

(* A differential package prechecks its images and records that behind the *)
(* last of them, then generates and installs.                              *)
LEMMA DiffIsBuilt ==
  ASSUME NEW j, IsJob(j), j.diff, DiffBins(j) # <<>>
  PROVE  Built(j, DiffSteps(j), DiffNodes(j), {2 * Len(DiffBins(j))},
               {Len(DiffBins(j))}, Len(DiffBins(j)))
<1> DEFINE b == DiffBins(j)
           c == NewPartitions(j)
           k == Len(b)
           l == Len(c)
           n == DiffSize(j)
           x == Steps("precheck", b)
           y == Steps("generate", b)
           z == Steps("install", c)
           xy == x \o y
           s == DiffSteps(j)
           v == DiffNodes(j)
<1>1. b \in Seq(Files) /\ c \in Seq(Files) /\ k \in Nat \ {0} /\ l \in Nat /\ n = 2 * k + l
  BY DiffBinsIsSeq DEF DiffSize
<1>2. "precheck" \in Ops /\ "generate" \in Ops /\ "install" \in Ops
      /\ "install" \in Writes /\ "generate" \in Writes
  BY DEF Ops, Writes
<1>3. /\ x \in Seq(Commands) /\ Len(x) = k
      /\ \A i \in 1 .. k : x[i].op = "precheck" /\ x[i].arg = b[i] /\ b[i] \in Files
  BY <1>1, <1>2, StepsAre
<1>4. /\ y \in Seq(Commands) /\ Len(y) = k
      /\ \A i \in 1 .. k : y[i].op = "generate" /\ y[i].arg = b[i] /\ b[i] \in Files
  BY <1>1, <1>2, StepsAre
<1>5. /\ z \in Seq(Commands) /\ Len(z) = l
      /\ \A i \in 1 .. l : z[i].op = "install" /\ z[i].arg = c[i] /\ c[i] \in Files
  BY <1>1, <1>2, StepsAre
<1>6. v \in Seq(Int) /\ Len(v) = n /\ NodesFit(v, n, EndNode(j))
  BY DiffNodesAre, DiffNodesFit
<1>7. CheckOp(j) = "precheck" /\ ToCheck(j) = b /\ Payload(j) = ToSet(b \o c)
  BY DEF CheckOp, ToCheck, Payload
<1>8. s = xy \o z
  BY DEF DiffSteps
<1>9. ToSet(b) = {b[i] : i \in 1 .. k}
  BY <1>1 DEF ToSet
<1>10. \A f \in ToSet(b \o c) : (\E i \in 1 .. k : f = b[i]) \/ (\E i \in 1 .. l : f = c[i])
  <2> DEFINE bc == b \o c
  <2>1. bc \in Seq(Files) /\ Joined(bc, b, c)
    BY <1>1, ConcatJoins
  <2> HIDE DEF bc, b, c
  <2>2. ToSet(bc) = {bc[i] : i \in 1 .. Len(bc)}
    BY <2>1 DEF ToSet
  <2>3. ASSUME NEW i \in 1 .. Len(bc)
        PROVE  (\E m \in 1 .. k : bc[i] = b[m]) \/ (\E m \in 1 .. l : bc[i] = c[m])
    <3>1. Len(bc) = k + l /\ k \in Nat /\ l \in Nat
      BY <2>1, <1>1 DEF Joined
    <3>2. CASE i \in 1 .. k
      BY <2>1, <3>2 DEF Joined
    <3>3. CASE i \in k + 1 .. k + l
      <4> DEFINE m == i - k
      <4>1. m \in 1 .. l /\ i = k + m
        BY <3>1, <3>3
      <4> HIDE DEF m
      <4>2. bc[k + m] = c[m]
        BY <2>1, <4>1 DEF Joined
      <4> QED BY <4>1, <4>2
    <3> QED BY <3>1, <3>2, <3>3
  <2> QED BY <2>2, <2>3 DEF bc
<1> HIDE DEF b, c, k, l, n, x, y, z, s, v
<1>11. xy \in Seq(Commands) /\ Joined(xy, x, y)
  BY <1>3, <1>4, ConcatJoins
<1> HIDE DEF xy
<1>12. s \in Seq(Commands) /\ Joined(s, xy, z)
  BY <1>5, <1>8, <1>11, ConcatJoins
<1>13. /\ Len(xy) = 2 * k
       /\ \A i \in 1 .. k : xy[i] = x[i]
       /\ \A i \in 1 .. k : xy[k + i] = y[i]
  BY <1>1, <1>3, <1>4, <1>11 DEF Joined
<1>14. /\ Len(s) = n
       /\ \A i \in 1 .. 2 * k : s[i] = xy[i]
       /\ \A i \in 1 .. l : s[2 * k + i] = z[i]
  BY <1>1, <1>5, <1>12, <1>13 DEF Joined
<1>15. ASSUME NEW i \in 1 .. k
       PROVE  /\ i \in 1 .. n /\ k + i \in k + 1 .. n
              /\ s[i].op = "precheck" /\ s[i].arg = b[i]
              /\ s[k + i].op = "generate" /\ s[k + i].arg = b[i] /\ b[i] \in Files
  <2>1. i \in 1 .. 2 * k /\ k + i \in 1 .. 2 * k /\ i \in 1 .. n /\ k + i \in k + 1 .. n
    BY <1>1
  <2>2. s[i] = x[i] /\ s[k + i] = y[i]
    BY <2>1, <1>13, <1>14
  <2> QED BY <2>1, <2>2, <1>3, <1>4
<1>16. ASSUME NEW i \in 1 .. l
       PROVE  /\ 2 * k + i \in k + 1 .. n
              /\ s[2 * k + i].op = "install" /\ s[2 * k + i].arg = c[i] /\ c[i] \in Files
  <2>1. 2 * k + i \in k + 1 .. n
    BY <1>1
  <2>2. s[2 * k + i] = z[i]
    BY <1>14
  <2> QED BY <2>1, <2>2, <1>5
<1>17. ASSUME NEW i \in k + 1 .. n
       PROVE  (\E m \in 1 .. k : i = k + m) \/ (\E m \in 1 .. l : i = 2 * k + m)
  <2>1. CASE i <= 2 * k
    <3>1. i - k \in 1 .. k /\ i = k + (i - k)
      BY <1>1, <2>1
    <3> QED BY <3>1
  <2>2. CASE ~(i <= 2 * k)
    <3>1. i - 2 * k \in 1 .. l /\ i = 2 * k + (i - 2 * k)
      BY <1>1, <2>2
    <3> QED BY <3>1
  <2> QED BY <2>1, <2>2
<1>18. \A i \in k + 1 .. n : s[i].op \in Writes /\ s[i].arg \in Files
  BY <1>2, <1>15, <1>16, <1>17
<1>19. \A i \in 1 .. n : i \in 1 .. k \/ i \in k + 1 .. n
  BY <1>1
<1>20. \A i \in 1 .. n : s[i].arg \in Files
  BY <1>15, <1>18, <1>19
<1>21. \A f \in ToSet(b) : \E i \in 1 .. k : s[i].arg = f
  BY <1>9, <1>15
<1>22. \A f \in Payload(j) : \E i \in k + 1 .. n : s[i].arg = f
  BY <1>7, <1>10, <1>15, <1>16
<1>23. ASSUME NEW i \in {2 * k}, i + 1 \in 1 .. n
       PROVE  c # <<>> /\ s[i + 1].arg = c[1]
  <2>1. 1 \in 1 .. l
    BY <1>1, <1>23
  <2>2. s[2 * k + 1].arg = c[1]
    BY <2>1, <1>16
  <2> QED BY <2>1, <2>2, <1>1 DEF l
<1>24. k \in 0 .. n - 1 /\ k >= 1
  BY <1>1
<1>25. \A i \in {2 * k} : i - 1 \notin {2 * k}
  BY <1>1
<1>26. Built(j, s, v, {2 * k}, {k}, k)
  BY <1>6, <1>7, <1>12, <1>14, <1>15, <1>18, <1>20, <1>21, <1>22, <1>23, <1>24, <1>25 DEF Built, c
<1> QED BY <1>26 DEF s, v, k, b

(* The script of every call that makes one.                                *)
LEMMA ScriptIsLaidOut ==
  ASSUME NEW j, IsJob(j), Script(j) # <<>>
  PROVE  \E steps, nodes, silent, marks, m, at :
           /\ Built(j, steps, nodes, silent, marks, m)
           /\ Layout(Script(j), at, steps, nodes, silent, marks)
<1>1. CASE j.diff
  <2> DEFINE k == Len(DiffBins(j))
  <2>1. DiffBins(j) \in Seq(Files)
    BY DiffBinsIsSeq
  <2>2. k # 0
    BY <1>1 DEF Script, DiffScript
  <2>3. DiffBins(j) # <<>>
    BY <2>1, <2>2
  <2>4. Script(j) = Lines(j, DiffSteps(j), DiffNodes(j), {2 * k}, {k})
    BY <1>1, <2>2 DEF Script, DiffScript
  <2>5. Built(j, DiffSteps(j), DiffNodes(j), {2 * k}, {k}, k)
    BY <1>1, <2>3, DiffIsBuilt
  <2> HIDE DEF k
  <2>6. DiffSteps(j) # <<>>
    <3>1. k \in 0 .. Len(DiffSteps(j)) - 1 /\ DiffSteps(j) \in Seq(Commands)
      BY <2>5 DEF Built
    <3> QED BY <3>1
  <2>7. \E at : Layout(Script(j), at, DiffSteps(j), DiffNodes(j), {2 * k}, {k})
    <3>1. DiffSteps(j) \in Seq(Commands) /\ DiffNodes(j) \in Seq(Int)
          /\ Len(DiffSteps(j)) = Len(DiffNodes(j))
      BY <2>5 DEF Built
    <3> QED BY <2>4, <2>6, <3>1, LinesLayout
  <2> QED BY <2>5, <2>7
<1>2. CASE ~j.diff
  <2> DEFINE steps == Steps("verify", Rated(j)) \o Steps("install", FullBins(j))
  <2>1. FullBins(j) # <<>> /\ ~(EndNode(j) <= 45)
    BY <1>2 DEF Script, FullScript
  <2>2. EndNode(j) > 45
    <3> DEFINE E == EndNode(j)
    <3>1. E \in 0 .. 100 /\ ~(E <= 45)
      BY <2>1, EndNodeIsPercentage
    <3>2. SUFFICES E > 45
      OBVIOUS
    <3> HIDE DEF E
    <3> QED BY <3>1
  <2>3. Script(j) = Lines(j, steps, FullNodes(j), {}, {})
    BY <1>2, <2>1 DEF Script, FullScript
  <2>4. Built(j, steps, FullNodes(j), {}, {}, Len(Rated(j)))
    BY <1>2, <2>1, <2>2, FullIsBuilt
  <2> HIDE DEF steps
  <2>5. /\ steps \in Seq(Commands) /\ FullNodes(j) \in Seq(Int)
        /\ Len(steps) = Len(FullNodes(j)) /\ Len(Rated(j)) \in 0 .. Len(steps) - 1
    BY <2>4 DEF Built
  <2>6. steps # <<>>
    BY <2>5
  <2>7. \E at : Layout(Script(j), at, steps, FullNodes(j), {}, {})
    BY <2>3, <2>5, <2>6, LinesLayout
  <2> QED BY <2>4, <2>7
<1> QED BY <1>1, <1>2

-----------------------------------------------------------------------------
(* What a device can rely on in a script.                                  *)
ScriptTyped(s) ==
  /\ s \in Seq(Commands)
  /\ \A p \in 1 .. Len(s) : s[p].op \in Checks \cup Writes => s[p].arg \in Files
  /\ \A p \in 1 .. Len(s) : s[p].op \in {"current", "next"} => s[p].arg \in 0 .. 100

(* Every image is checked, and before anything is written.                 *)
ChecksFirst(j, s) ==
  /\ \A p \in 1 .. Len(s) : s[p].op \in Checks => s[p].op = CheckOp(j)
  /\ \A p, q \in 1 .. Len(s) : s[p].op \in Checks /\ s[q].op \in Writes => p < q
  /\ \A f \in ToSet(ToCheck(j)) : \E p \in 1 .. Len(s) : s[p].op \in Checks /\ s[p].arg = f

(* A differential package records the end of the prechecks between them    *)
(* and the writes.                                                         *)
MarkBetween(j, s) ==
  /\ \A p \in 1 .. Len(s) : s[p].op = "finished" => j.diff
  /\ \A p, q \in 1 .. Len(s) : s[p].op \in Checks /\ s[q].op = "finished" => p < q
  /\ j.diff => \E p \in 1 .. Len(s) : /\ s[p].op = "finished"
                                      /\ \A q \in 1 .. Len(s) : s[q].op \in Writes => p < q

(* Every image is written, before the end script and the last node.        *)
Claims(s, p) ==
  \/ s[p].op = "end"
  \/ s[p].op = "current" /\ s[p].arg = 100

WritesAll(j, s) ==
  /\ \A f \in Payload(j) : \E p \in 1 .. Len(s) : s[p].op \in Writes /\ s[p].arg = f
  /\ \A p, q \in 1 .. Len(s) : Claims(s, p) /\ s[q].op \in Writes => q < p

NodesInOrder(j, s) ==
  EndNode(j) >= 30 =>
    \A p, q \in 1 .. Len(s) :
      p < q /\ s[p].op = "current" /\ s[q].op = "current" => s[p].arg <= s[q].arg

(* The last node announced before p.                                       *)
Announced(s, p, node) ==
  \E q \in 1 .. p - 1 : /\ s[q].op = "next" /\ s[q].arg = node
                        /\ \A r \in q + 1 .. p - 1 : s[r].op # "next"

StepsAnnounced(j, s) ==
  \A p \in 1 .. Len(s) : s[p].op \in Writes =>
    /\ p + 1 \in 1 .. Len(s) /\ s[p + 1].op = "current"
    /\ \/ j.diff /\ NewPartitions(j) # <<>> /\ s[p].arg = NewPartitions(j)[1]
       \/ Announced(s, p, s[p + 1].arg)

WellMade(j, s) ==
  /\ ScriptTyped(s) /\ ChecksFirst(j, s) /\ MarkBetween(j, s)
  /\ WritesAll(j, s) /\ NodesInOrder(j, s) /\ StepsAnnounced(j, s)

(* The script of any package, of any number of images of any size, in any  *)
(* order: it checks every image before it writes one, records the          *)
(* prechecks between, writes every image before it claims success, does    *)
(* not go back with its nodes and announces them.                          *)
THEOREM ScriptIsWellMade ==
  ASSUME NEW j, IsJob(j), Script(j) # <<>>
  PROVE  WellMade(j, Script(j))
<1> DEFINE s == Script(j)
<1>1. PICK steps, nodes, silent, marks, m, at :
        /\ Built(j, steps, nodes, silent, marks, m)
        /\ Layout(s, at, steps, nodes, silent, marks)
  BY ScriptIsLaidOut
<1> HIDE DEF s
<1> DEFINE n == Len(steps)
<1>2. /\ steps \in Seq(Commands) /\ nodes \in Seq(Int) /\ n = Len(nodes)
      /\ m \in 0 .. n - 1 /\ n \in Nat \ {0} /\ m \in Nat
      /\ \A i \in 1 .. n : steps[i].arg \in Files
      /\ \A i \in 1 .. m : steps[i].op = CheckOp(j)
      /\ \A i \in m + 1 .. n : steps[i].op \in Writes
  BY <1>1 DEF Built
<1>3. NodesFit(nodes, n, EndNode(j))
  BY <1>1 DEF Built
<1>4. (marks = IF j.diff THEN {m} ELSE {}) /\ (j.diff => m >= 1)
  BY <1>1 DEF Built
<1>5. /\ \A f \in ToSet(ToCheck(j)) : \E i \in 1 .. m : steps[i].arg = f
      /\ \A f \in Payload(j) : \E i \in m + 1 .. n : steps[i].arg = f
  BY <1>1 DEF Built
<1>6. \A i \in silent : i + 1 \in 1 .. n =>
        j.diff /\ NewPartitions(j) # <<>> /\ steps[i + 1].arg = NewPartitions(j)[1]
  BY <1>1 DEF Built
<1>7. CheckOp(j) \in Checks /\ \A c \in Writes : c \notin Checks
  BY DEF CheckOp, Checks, Writes
<1>8. \A i \in 1 .. n : i \in 1 .. m \/ i \in m + 1 .. n
  BY <1>2
<1>9. \A i \in 1 .. n : steps[i].op \in Checks \cup Writes
  BY <1>2, <1>7, <1>8
<1>10. StepsAt(s, at, steps) /\ NodesAt(s, at, nodes)
       /\ MarksAt(s, at, n, marks) /\ EndsAt(s, at, n)
  BY <1>1, <1>2, <1>9, LayoutStepsAt, LayoutNodesAt, LayoutMarksAt
<1>11. s \in Seq(Commands) /\ Len(s) \in Nat
  BY <1>1 DEF Layout
<1>12. /\ \A i \in 1 .. n + 1 : at[i] \in Nat
       /\ \A i, k \in 1 .. n + 1 : i <= k => at[i] <= at[k]
  BY <1>1 DEF Layout
<1>13. \A i \in 1 .. n : at[i] + 2 <= at[i + 1]
  BY <1>1, <1>2, LayoutBounds
<1>14. /\ \A i \in 1 .. n : at[i] + 1 \in 1 .. Len(s) /\ s[at[i] + 1] = steps[i]
       /\ \A p \in 1 .. Len(s) : s[p].op \in Checks \cup Writes =>
            \E i \in 1 .. n : p = at[i] + 1
       /\ \A i, k \in 1 .. n : i < k => at[i] + 2 <= at[k]
  BY <1>10 DEF StepsAt
<1>15. /\ \A i \in 1 .. n : at[i] + 2 \in 1 .. Len(s) /\ s[at[i] + 2] = Do("current", nodes[i])
       /\ \A p \in 1 .. Len(s) : s[p].op = "current" =>
            \/ p <= at[1] /\ s[p].arg = 30
            \/ \E i \in 1 .. n : p = at[i] + 2 /\ s[p].arg = nodes[i]
            \/ p > at[n + 1] /\ s[p].arg = 100
       /\ \A p \in 1 .. Len(s) : s[p].op = "next" =>
            s[p].arg = 100 \/ \E i \in 1 .. n : s[p].arg = nodes[i]
  BY <1>2, <1>10 DEF NodesAt
<1>16. /\ \A i \in marks \cap (1 .. n) : at[i + 1] \in 1 .. Len(s) /\ s[at[i + 1]].op = "finished"
       /\ \A p \in 1 .. Len(s) : s[p].op = "finished" => \E i \in marks \cap (1 .. n) : p = at[i + 1]
       /\ \A p \in 1 .. Len(s) : s[p].op = "end" => p > at[n + 1]
  BY <1>10 DEF MarksAt, EndsAt
<1>17. /\ \A i \in 1 .. n : nodes[i] \in 0 .. 100
       /\ \A i \in 1 .. n : i < n => nodes[i] < 100
       /\ EndNode(j) >= 30 => \A i \in 1 .. n : nodes[i] >= 30
       /\ EndNode(j) >= 30 => \A i, k \in 1 .. n : i <= k => nodes[i] <= nodes[k]
  BY <1>3 DEF NodesFit
<1> HIDE DEF n
<1>18. ASSUME NEW p \in 1 .. Len(s), s[p].op \in Checks
       PROVE  \E i \in 1 .. m : p = at[i] + 1
  <2>1. PICK i \in 1 .. n : p = at[i] + 1
    BY <1>14, <1>18
  <2>2. s[p] = steps[i]
    BY <2>1, <1>14
  <2>3. i \notin m + 1 .. n
    BY <2>2, <1>2, <1>7, <1>18
  <2> QED BY <2>1, <2>3, <1>8
<1>19. ASSUME NEW p \in 1 .. Len(s), s[p].op \in Writes
       PROVE  \E i \in m + 1 .. n : p = at[i] + 1
  <2>1. PICK i \in 1 .. n : p = at[i] + 1
    BY <1>14, <1>19
  <2>2. s[p] = steps[i]
    BY <2>1, <1>14
  <2>3. i \notin 1 .. m
    BY <2>2, <1>2, <1>7, <1>19
  <2> QED BY <2>1, <2>3, <1>8
<1>20. ASSUME NEW i \in 1 .. m
       PROVE  /\ i \in 1 .. n /\ i \in 1 .. n + 1 /\ i + 1 \in 1 .. n + 1
              /\ at[i] + 1 \in 1 .. Len(s) /\ s[at[i] + 1] = steps[i]
              /\ s[at[i] + 1].op \in Checks
  <2>1. i \in 1 .. n /\ i \in 1 .. n + 1 /\ i + 1 \in 1 .. n + 1
    BY <1>2
  <2>2. at[i] + 1 \in 1 .. Len(s) /\ s[at[i] + 1] = steps[i]
    BY <2>1, <1>14
  <2>3. steps[i].op \in Checks
    BY <1>2, <1>7
  <2> QED BY <2>1, <2>2, <2>3
<1>21. ASSUME NEW i \in m + 1 .. n
       PROVE  /\ i \in 1 .. n /\ i \in 1 .. n + 1 /\ i + 1 \in 1 .. n + 1
              /\ at[i] + 1 \in 1 .. Len(s) /\ s[at[i] + 1] = steps[i]
              /\ s[at[i] + 1].op \in Writes
  <2>1. i \in 1 .. n /\ i \in 1 .. n + 1 /\ i + 1 \in 1 .. n + 1
    BY <1>2
  <2>2. at[i] + 1 \in 1 .. Len(s) /\ s[at[i] + 1] = steps[i]
    BY <2>1, <1>14
  <2>3. steps[i].op \in Writes
    BY <1>2
  <2> QED BY <2>1, <2>2, <2>3
<1>22. ScriptTyped(s)
  <2>1. ASSUME NEW p \in 1 .. Len(s), s[p].op \in Checks \cup Writes
        PROVE  s[p].arg \in Files
    <3>1. PICK i \in 1 .. n : p = at[i] + 1
      BY <1>14, <2>1
    <3>2. s[p] = steps[i]
      BY <3>1, <1>14
    <3> QED BY <3>2, <1>2
  <2>2. ASSUME NEW p \in 1 .. Len(s), s[p].op \in {"current", "next"}
        PROVE  s[p].arg \in 0 .. 100
    <3>0. s[p].arg = 30 \/ s[p].arg = 100 \/ \E i \in 1 .. n : s[p].arg = nodes[i]
      <4>1. CASE s[p].op = "current"
        BY <4>1, <1>15
      <4>2. CASE s[p].op = "next"
        BY <4>2, <1>15
      <4> QED BY <2>2, <4>1, <4>2
    <3>1. CASE s[p].arg = 30 \/ s[p].arg = 100
      BY <3>1
    <3>2. CASE \E i \in 1 .. n : s[p].arg = nodes[i]
      <4>1. PICK i \in 1 .. n : s[p].arg = nodes[i]
        BY <3>2
      <4>2. nodes[i] \in 0 .. 100
        BY <1>17
      <4> QED BY <4>1, <4>2
    <3> QED BY <3>0, <3>1, <3>2
  <2> QED BY <2>1, <2>2, <1>11 DEF ScriptTyped
<1>23. ChecksFirst(j, s)
  <2>1. ASSUME NEW p \in 1 .. Len(s), s[p].op \in Checks
        PROVE  s[p].op = CheckOp(j)
    <3>1. PICK i \in 1 .. m : p = at[i] + 1
      BY <1>18, <2>1
    <3>2. s[p] = steps[i]
      BY <3>1, <1>20
    <3> QED BY <3>2, <1>2
  <2>2. ASSUME NEW p \in 1 .. Len(s), NEW q \in 1 .. Len(s), s[p].op \in Checks, s[q].op \in Writes
        PROVE  p < q
    <3>1. PICK i \in 1 .. m : p = at[i] + 1
      BY <1>18, <2>2
    <3>2. PICK k \in m + 1 .. n : q = at[k] + 1
      BY <1>19, <2>2
    <3>3. i < k /\ i \in 1 .. n /\ k \in 1 .. n /\ i \in 1 .. n + 1 /\ k \in 1 .. n + 1
      BY <1>2
    <3>4. at[i] + 2 <= at[k] /\ at[i] \in Nat /\ at[k] \in Nat
      BY <3>3, <1>12, <1>14
    <3> QED BY <3>1, <3>2, <3>4
  <2>3. ASSUME NEW f \in ToSet(ToCheck(j))
        PROVE  \E p \in 1 .. Len(s) : s[p].op \in Checks /\ s[p].arg = f
    <3>1. PICK i \in 1 .. m : steps[i].arg = f
      BY <1>5
    <3> QED BY <3>1, <1>20
  <2> QED BY <2>1, <2>2, <2>3 DEF ChecksFirst
<1>24. MarkBetween(j, s)
  <2>1. ASSUME NEW p \in 1 .. Len(s), s[p].op = "finished"
        PROVE  j.diff /\ p = at[m + 1]
    <3>1. PICK i \in marks \cap (1 .. n) : p = at[i + 1]
      BY <1>16, <2>1
    <3>2. j.diff
      BY <3>1, <1>4
    <3>3. i = m
      BY <3>1, <3>2, <1>4
    <3> QED BY <3>1, <3>2, <3>3
  <2>2. ASSUME NEW p \in 1 .. Len(s), NEW q \in 1 .. Len(s), s[p].op \in Checks, s[q].op = "finished"
        PROVE  p < q
    <3>1. PICK i \in 1 .. m : p = at[i] + 1
      BY <1>18, <2>2
    <3>2. q = at[m + 1]
      BY <2>1, <2>2
    <3>3. i \in 1 .. n /\ i + 1 \in 1 .. n + 1 /\ m + 1 \in 1 .. n + 1 /\ i + 1 <= m + 1
          /\ i \in 1 .. n + 1
      BY <1>2
    <3>4. at[i] + 2 <= at[i + 1] /\ at[i + 1] <= at[m + 1] /\ at[i] \in Nat
          /\ at[i + 1] \in Nat /\ at[m + 1] \in Nat
      BY <3>3, <1>12, <1>13
    <3> QED BY <3>1, <3>2, <3>4
  <2>3. ASSUME j.diff
        PROVE  \E p \in 1 .. Len(s) : /\ s[p].op = "finished"
                                      /\ \A q \in 1 .. Len(s) : s[q].op \in Writes => p < q
    <3>1. m \in marks \cap (1 .. n) /\ m + 1 \in 1 .. n + 1
      BY <2>3, <1>2, <1>4
    <3>2. at[m + 1] \in 1 .. Len(s) /\ s[at[m + 1]].op = "finished"
      BY <3>1, <1>16
    <3>3. ASSUME NEW q \in 1 .. Len(s), s[q].op \in Writes
          PROVE  at[m + 1] < q
      <4>1. PICK k \in m + 1 .. n : q = at[k] + 1
        BY <1>19, <3>3
      <4>2. k \in 1 .. n + 1 /\ m + 1 <= k
        BY <1>2
      <4>3. at[m + 1] <= at[k] /\ at[k] \in Nat /\ at[m + 1] \in Nat
        BY <4>2, <3>1, <1>12
      <4> QED BY <4>1, <4>3
    <3> QED BY <3>2, <3>3
  <2> QED BY <2>1, <2>2, <2>3 DEF MarkBetween
<1>25. WritesAll(j, s)
  <2>1. ASSUME NEW f \in Payload(j)
        PROVE  \E p \in 1 .. Len(s) : s[p].op \in Writes /\ s[p].arg = f
    <3>1. PICK i \in m + 1 .. n : steps[i].arg = f
      BY <1>5
    <3> QED BY <3>1, <1>21
  <2>2. ASSUME NEW p \in 1 .. Len(s), NEW q \in 1 .. Len(s), Claims(s, p), s[q].op \in Writes
        PROVE  q < p
    <3>1. PICK k \in m + 1 .. n : q = at[k] + 1
      BY <1>19, <2>2
    <3>2. k \in 1 .. n /\ k \in 1 .. n + 1 /\ k + 1 \in 1 .. n + 1 /\ n \in 1 .. n + 1
          /\ n + 1 \in 1 .. n + 1 /\ k <= n /\ k + 1 <= n + 1
      <4>1. k \in 1 .. n /\ n \in Nat \ {0}
        BY <1>2
      <4>2. \A u \in Nat \ {0} : \A v \in 1 .. u :
              /\ v \in 1 .. u + 1 /\ v + 1 \in 1 .. u + 1 /\ u \in 1 .. u + 1
              /\ u + 1 \in 1 .. u + 1 /\ v <= u /\ v + 1 <= u + 1
        OBVIOUS
      <4> QED BY <4>1, <4>2
    <3>3. /\ at[k] \in Nat /\ at[k + 1] \in Nat /\ at[n] \in Nat /\ at[n + 1] \in Nat
          /\ at[k] + 2 <= at[k + 1] /\ at[k + 1] <= at[n + 1] /\ at[k] <= at[n]
      <4>1. /\ at[k] \in Nat /\ at[k + 1] \in Nat /\ at[n] \in Nat /\ at[n + 1] \in Nat
        BY <3>2, <1>12, Zenon
      <4>2. at[k] + 2 <= at[k + 1]
        BY <3>2, <1>13, Zenon
      <4>3. at[k + 1] <= at[n + 1] /\ at[k] <= at[n]
        BY <3>2, <1>12, Zenon
      <4> QED BY <4>1, <4>2, <4>3
    <3>4. CASE p > at[n + 1]
      BY <3>1, <3>3, <3>4
    <3>5. CASE \E i \in 1 .. n : p = at[i] + 2 /\ nodes[i] = 100
      <4>1. PICK i \in 1 .. n : p = at[i] + 2 /\ nodes[i] = 100
        BY <3>5
      <4>2. ~(i < n)
        BY <4>1, <1>17
      <4>3. i = n
        BY <4>2, <1>2
      <4>4. q = at[k] + 1 /\ p = at[n] + 2 /\ at[k] <= at[n] /\ at[k] \in Nat /\ at[n] \in Nat
        BY <4>1, <4>3, <3>1, <3>3
      <4>5. \A a, c \in Nat : a <= c => a + 1 < c + 2
        OBVIOUS
      <4> QED BY <4>4, <4>5
    <3>6. p > at[n + 1] \/ \E i \in 1 .. n : p = at[i] + 2 /\ nodes[i] = 100
      <4>1. CASE s[p].op = "end"
        BY <4>1, <1>16
      <4>2. CASE s[p].op = "current" /\ s[p].arg = 100
        <5>1. \/ p <= at[1] /\ s[p].arg = 30
              \/ \E i \in 1 .. n : p = at[i] + 2 /\ s[p].arg = nodes[i]
              \/ p > at[n + 1] /\ s[p].arg = 100
          BY <4>2, <1>15
        <5>2. s[p].arg # 30
          BY <4>2
        <5> QED BY <4>2, <5>1, <5>2
      <4> QED BY <2>2, <4>1, <4>2 DEF Claims
    <3> QED BY <3>4, <3>5, <3>6
  <2> QED BY <2>1, <2>2 DEF WritesAll
<1>26. NodesInOrder(j, s)
  <2>1. SUFFICES ASSUME EndNode(j) >= 30, NEW p \in 1 .. Len(s), NEW q \in 1 .. Len(s), p < q,
                        s[p].op = "current", s[q].op = "current"
                 PROVE  s[p].arg <= s[q].arg
    BY DEF NodesInOrder
  <2>2. \/ p <= at[1] /\ s[p].arg = 30
        \/ \E i \in 1 .. n : p = at[i] + 2 /\ s[p].arg = nodes[i]
        \/ p > at[n + 1] /\ s[p].arg = 100
    BY <2>1, <1>15
  <2>3. \/ q <= at[1] /\ s[q].arg = 30
        \/ \E i \in 1 .. n : q = at[i] + 2 /\ s[q].arg = nodes[i]
        \/ q > at[n + 1] /\ s[q].arg = 100
    BY <2>1, <1>15
  <2>4. 1 \in 1 .. n + 1 /\ n + 1 \in 1 .. n + 1 /\ at[1] \in Nat /\ at[n + 1] \in Nat
        /\ at[1] <= at[n + 1]
    BY <1>2, <1>12
  <2>5. ASSUME NEW i \in 1 .. n
        PROVE  /\ at[i] \in Nat /\ at[1] <= at[i] /\ at[i] + 2 <= at[n + 1]
               /\ 30 <= nodes[i] /\ nodes[i] <= 100
    <3>1. i \in 1 .. n + 1 /\ i + 1 \in 1 .. n + 1 /\ 1 <= i /\ i + 1 <= n + 1
      BY <1>2
    <3>2. at[i] \in Nat /\ at[i + 1] \in Nat /\ at[1] <= at[i] /\ at[i + 1] <= at[n + 1]
          /\ at[i] + 2 <= at[i + 1]
      BY <3>1, <2>4, <1>12, <1>13
    <3>3. 30 <= nodes[i] /\ nodes[i] <= 100
      <4>1. nodes[i] \in 0 .. 100
        BY <1>17
      <4>2. nodes[i] >= 30
        BY <2>1, <1>17
      <4> DEFINE v == nodes[i]
      <4>3. v \in 0 .. 100 /\ v >= 30
        BY <4>1, <4>2
      <4>4. SUFFICES 30 <= v /\ v <= 100
        OBVIOUS
      <4> HIDE DEF v
      <4> QED BY <4>3
    <3>4. at[i] + 2 <= at[n + 1]
      <4>1. \A a, c, d \in Nat : a + 2 <= c /\ c <= d => a + 2 <= d
        OBVIOUS
      <4> QED BY <4>1, <3>2, <2>4
    <3> QED BY <3>2, <3>3, <3>4
  <2>6. CASE p <= at[1] /\ s[p].arg = 30
    <3>1. CASE q <= at[1] /\ s[q].arg = 30
      BY <2>6, <3>1
    <3>2. CASE \E i \in 1 .. n : q = at[i] + 2 /\ s[q].arg = nodes[i]
      <4>1. PICK i \in 1 .. n : q = at[i] + 2 /\ s[q].arg = nodes[i]
        BY <3>2
      <4>2. 30 <= nodes[i]
        BY <2>5
      <4> QED BY <4>1, <4>2, <2>6
    <3>3. CASE q > at[n + 1] /\ s[q].arg = 100
      BY <2>6, <3>3
    <3> QED BY <2>3, <3>1, <3>2, <3>3
  <2>7. CASE \E i \in 1 .. n : p = at[i] + 2 /\ s[p].arg = nodes[i]
    <3>1. PICK i \in 1 .. n : p = at[i] + 2 /\ s[p].arg = nodes[i]
      BY <2>7
    <3>2. ~(q <= at[1])
      BY <3>1, <2>1, <2>4, <2>5
    <3>3. CASE \E k \in 1 .. n : q = at[k] + 2 /\ s[q].arg = nodes[k]
      <4>1. PICK k \in 1 .. n : q = at[k] + 2 /\ s[q].arg = nodes[k]
        BY <3>3
      <4>2. at[i] \in Nat /\ at[k] \in Nat /\ at[i] + 2 < at[k] + 2
        BY <3>1, <4>1, <2>1, <2>5
      <4>3. ~(k < i)
        <5>1. SUFFICES ASSUME k < i PROVE FALSE
          OBVIOUS
        <5>2. at[k] + 2 <= at[i]
          BY <5>1, <1>14
        <5> QED BY <5>2, <4>2
      <4>4. i <= k
        BY <4>3, <1>2
      <4>5. nodes[i] <= nodes[k]
        BY <4>4, <2>1, <1>17
      <4> QED BY <3>1, <4>1, <4>5
    <3>4. CASE q > at[n + 1] /\ s[q].arg = 100
      <4>1. nodes[i] <= 100
        BY <2>5
      <4> QED BY <3>1, <3>4, <4>1
    <3> QED BY <2>3, <3>2, <3>3, <3>4
  <2>8. CASE p > at[n + 1] /\ s[p].arg = 100
    <3>1. ~(q <= at[1])
      BY <2>1, <2>4, <2>8
    <3>2. \A i \in 1 .. n : q # at[i] + 2
      BY <2>1, <2>4, <2>5, <2>8
    <3> QED BY <2>3, <2>8, <3>1, <3>2
  <2> QED BY <2>2, <2>6, <2>7, <2>8
<1>27. StepsAnnounced(j, s)
  <2>1. SUFFICES ASSUME NEW p \in 1 .. Len(s), s[p].op \in Writes
                 PROVE  /\ p + 1 \in 1 .. Len(s) /\ s[p + 1].op = "current"
                        /\ \/ j.diff /\ NewPartitions(j) # <<>> /\ s[p].arg = NewPartitions(j)[1]
                           \/ Announced(s, p, s[p + 1].arg)
    BY DEF StepsAnnounced
  <2>2. PICK i \in m + 1 .. n : p = at[i] + 1
    BY <1>19, <2>1
  <2>3. i \in 1 .. n /\ at[i] \in Nat /\ s[p] = steps[i]
    BY <2>2, <1>12, <1>21
  <2>4. p + 1 = at[i] + 2
    BY <2>2, <2>3
  <2>5. p + 1 \in 1 .. Len(s) /\ s[p + 1] = Do("current", nodes[i])
    BY <2>3, <2>4, <1>15
  <2>6. s[p + 1].op = "current" /\ s[p + 1].arg = nodes[i]
    BY <2>5 DEF Do
  <2>7. CASE i = 1
    <3>1. at[1] \in {2, 3}
      BY <1>1 DEF Layout, LayoutPrologue
    <3>2. at[1] \in 1 .. at[1]
      BY <3>1
    <3>3. s[at[1]] = Do("next", nodes[1])
      <4>1. \/ at[1] = at[1] - 2 /\ s[at[1]] = Do("begin", 0)
            \/ at[1] = at[1] - 1 /\ s[at[1]] = Do("current", 30)
            \/ at[1] = at[1] /\ s[at[1]] = Do("next", nodes[1])
        BY <1>1, <3>2 DEF Layout, LayoutPrologue
      <4> QED BY <4>1, <3>1
    <3>4. at[1] \in 1 .. p - 1 /\ \A r \in at[1] + 1 .. p - 1 : FALSE
      BY <2>2, <2>7, <3>1
    <3>5. s[at[1]].op = "next" /\ s[at[1]].arg = nodes[1]
      BY <3>3 DEF Do
    <3>6. Announced(s, p, nodes[i])
      BY <2>7, <3>4, <3>5 DEF Announced
    <3> QED BY <2>5, <2>6, <3>6
  <2>8. CASE i # 1
    <3> DEFINE k == i - 1
    <3>1. k \in 1 .. n /\ k + 1 = i /\ k < n
      <4>1. n \in Nat /\ i \in 1 .. n
        BY <2>3, <1>2
      <4> HIDE DEF n
      <4> QED BY <4>1, <2>8
    <3> HIDE DEF k
    <3>2. CASE k \in silent
      BY <2>3, <2>5, <2>6, <3>1, <3>2, <1>6
    <3>3. CASE k \notin silent
      <4>1. Announces(nodes, silent, k)
        BY <3>1, <3>3, <1>2 DEF Announces
      <4>2. /\ s[at[k] + 3] = Do("next", nodes[i])
            /\ at[i] = at[k] + BlockSize(nodes, silent, marks, k)
        BY <4>1, <3>1, <1>1 DEF Layout, LayoutSteps, n
      <4>3. BlockSize(nodes, silent, marks, k) \in {3, 4}
        BY <4>1 DEF BlockSize
      <4>4. at[k] \in Nat
        BY <3>1, <1>2, <1>12
      <4> DEFINE q == at[k] + 3
      <4>5. q \in 1 .. p - 1 /\ q <= at[i] /\ p - 1 = at[i] /\ at[i] <= Len(s)
        <5>1. \A a, c, l, z \in Nat : /\ z \in {3, 4} /\ c = a + z /\ p = c + 1 /\ p <= l
                => a + 3 \in 1 .. p - 1 /\ a + 3 <= c /\ p - 1 = c /\ c <= l
          OBVIOUS
        <5>2. /\ at[i] \in Nat /\ Len(s) \in Nat /\ p = at[i] + 1 /\ p <= Len(s)
              /\ BlockSize(nodes, silent, marks, k) \in Nat
          BY <2>2, <2>3, <4>3, <1>11
        <5> QED BY <5>1, <5>2, <4>2, <4>3, <4>4
      <4>6. ASSUME NEW r \in q + 1 .. p - 1
            PROVE  s[r].op # "next"
        <5>1. r \in 1 .. Len(s) /\ at[k] < r /\ r <= at[k + 1] /\ r # at[k] + 3
              /\ r # at[k] + 1 /\ r # at[k] + 2
          <6>1. \A a, c, l \in Nat : p - 1 = c /\ c <= l /\ r \in a + 4 .. c
                  => /\ r \in 1 .. l /\ a < r /\ r <= c
                     /\ r # a + 3 /\ r # a + 1 /\ r # a + 2
            OBVIOUS
          <6>2. /\ r \in at[k] + 4 .. at[i] /\ p - 1 = at[i] /\ at[i] <= Len(s)
                /\ at[i] \in Nat /\ Len(s) \in Nat /\ k + 1 = i
            BY <4>4, <4>5, <3>1, <2>3, <1>11
          <6> QED BY <6>1, <6>2, <4>4
        <5>2. InBlock(s, at, steps, nodes, silent, marks, k, r)
          <6>1. k \in 1 .. Len(steps) /\ Len(steps) \in Nat
            BY <3>1, <1>2 DEF n
          <6> QED BY <5>1, <6>1, <1>1, BlockLines
        <5>3. s[r] = Do("finished", 1)
          BY <5>1, <5>2 DEF InBlock
        <5> QED BY <5>3 DEF Do
      <4>7. s[q].op = "next" /\ s[q].arg = nodes[i]
        BY <4>2 DEF Do
      <4> HIDE DEF q
      <4>8. Announced(s, p, nodes[i])
        BY <4>5, <4>6, <4>7 DEF Announced
      <4> QED BY <2>5, <2>6, <4>8
    <3> QED BY <3>2, <3>3
  <2> QED BY <2>7, <2>8
<1> QED BY <1>22, <1>23, <1>24, <1>25, <1>26, <1>27 DEF WellMade, s

-----------------------------------------------------------------------------
(* What somebody who reads the nodes now and then can rely on.             *)

(* Where the next nodes are announced.                                     *)
NextsAt(s, at, nodes, n) ==
  \A p \in 1 .. Len(s) : s[p].op = "next" =>
    \/ p <= at[1] /\ s[p].arg = nodes[1]
    \/ \E i \in 1 .. n : /\ i + 1 \in 1 .. n /\ p = at[i] + 3 /\ p <= at[i + 1]
                         /\ s[p].arg = nodes[i + 1]
    \/ p > at[n + 1] /\ s[p].arg = 100

(* The next nodes ascend, if the end script leaves room for them.          *)
NextsInOrder(j, s) ==
  EndNode(j) >= 30 =>
    \A p, q \in 1 .. Len(s) :
      p < q /\ s[p].op = "next" /\ s[q].op = "next" => s[p].arg <= s[q].arg

(* Before a step that can fail, no node has been reached that was not      *)
(* announced, nor one beyond it.                                           *)
NodesCovered(j, s) ==
  EndNode(j) >= 30 =>
    \A p, q \in 1 .. Len(s) :
      s[p].op \in Checks \cup Writes /\ s[q].op = "current" /\ q < p =>
        \E r \in 1 .. p - 1 : s[r].op = "next" /\ s[q].arg <= s[r].arg

(* In a layout, the next nodes are where they are announced.               *)
LEMMA LayoutNextsAt ==
  ASSUME NEW s, NEW at, NEW steps, NEW nodes, NEW silent, NEW marks,
         Layout(s, at, steps, nodes, silent, marks), Len(steps) \in Nat \ {0},
         Len(nodes) = Len(steps),
         \A i \in 1 .. Len(steps) : steps[i].op \in Checks \cup Writes
  PROVE  NextsAt(s, at, nodes, Len(steps))
<1> SUFFICES ASSUME NEW p \in 1 .. Len(s), s[p].op = "next"
             PROVE  \/ p <= at[1] /\ s[p].arg = nodes[1]
                    \/ \E i \in 1 .. Len(steps) :
                         /\ i + 1 \in 1 .. Len(steps) /\ p = at[i] + 3 /\ p <= at[i + 1]
                         /\ s[p].arg = nodes[i + 1]
                    \/ p > at[Len(steps) + 1] /\ s[p].arg = 100
  BY DEF NextsAt
<1>1. CASE /\ p <= at[1]
           /\ s[p] \in {Do("begin", 0), Do("current", 30), Do("next", nodes[1])}
  BY <1>1 DEF Do
<1>2. CASE \E i \in 1 .. Len(steps) : InBlock(s, at, steps, nodes, silent, marks, i, p)
  <2>1. PICK i \in 1 .. Len(steps) : InBlock(s, at, steps, nodes, silent, marks, i, p)
    BY <1>2
  <2>2. s[p] # steps[i]
    BY DEF Checks, Writes
  <2>3. s[p] # Do("current", nodes[i]) /\ s[p] # Do("finished", 1)
    BY DEF Do
  <2>4. p = at[i] + 3 /\ s[p] = Do("next", nodes[i + 1]) /\ Announces(nodes, silent, i)
    BY <2>1, <2>2, <2>3 DEF InBlock
  <2>5. i + 1 \in 1 .. Len(steps) /\ s[p].arg = nodes[i + 1]
    BY <2>4 DEF Do, Announces
  <2>6. at[i] + 3 <= at[i + 1]
    <3>1. /\ at[i] \in Nat
          /\ at[i + 1] = at[i] + BlockSize(nodes, silent, marks, i)
      BY LayoutBounds DEF Layout, LayoutSteps
    <3>2. BlockSize(nodes, silent, marks, i) \in {3, 4}
      BY <2>4 DEF BlockSize
    <3> QED BY <3>1, <3>2
  <2> QED BY <2>4, <2>5, <2>6
<1>3. CASE /\ p > at[Len(steps) + 1]
           /\ s[p] \in {Do("next", 100), Do("end", 0), Do("current", 100)}
  BY <1>3 DEF Do
<1> QED BY <1>1, <1>2, <1>3, WhereLinesAre

(* A script of a package announces every node before it can be reached, in *)
(* ascending order.                                                        *)
LEMMA ScriptHeralds ==
  ASSUME NEW j, IsJob(j), Script(j) # <<>>
  PROVE  NextsInOrder(j, Script(j)) /\ NodesCovered(j, Script(j))
<1> DEFINE s == Script(j)
<1>1. PICK steps, nodes, silent, marks, m, at :
        /\ Built(j, steps, nodes, silent, marks, m)
        /\ Layout(s, at, steps, nodes, silent, marks)
  BY ScriptIsLaidOut
<1> HIDE DEF s
<1> DEFINE n == Len(steps)
<1>2. /\ n = Len(nodes) /\ n \in Nat \ {0} /\ m \in 0 .. n - 1
      /\ \A i \in 1 .. m : steps[i].op = CheckOp(j)
      /\ \A i \in m + 1 .. n : steps[i].op \in Writes
  BY <1>1 DEF Built
<1>3. NodesFit(nodes, n, EndNode(j)) /\ \A i \in silent : i - 1 \notin silent
  BY <1>1 DEF Built
<1>4. \A i \in 1 .. n : steps[i].op \in Checks \cup Writes
  <2>1. CheckOp(j) \in Checks
    BY DEF CheckOp, Checks
  <2>2. \A i \in 1 .. n : i \in 1 .. m \/ i \in m + 1 .. n
    BY <1>2
  <2> QED BY <2>1, <2>2, <1>2
<1>5. StepsAt(s, at, steps) /\ NodesAt(s, at, nodes) /\ NextsAt(s, at, nodes, n)
  BY <1>1, <1>2, <1>4, LayoutStepsAt, LayoutNodesAt, LayoutNextsAt
<1>6. Len(s) \in Nat
  BY <1>1 DEF Layout
<1>7. /\ \A i \in 1 .. n + 1 : at[i] \in Nat
      /\ \A i, k \in 1 .. n + 1 : i <= k => at[i] <= at[k]
  BY <1>1 DEF Layout
<1>8. at[1] \in {2, 3} /\ s[at[1]].op = "next" /\ s[at[1]].arg = nodes[1]
  <2>1. at[1] \in {2, 3} /\ at[1] \in 1 .. at[1]
    BY <1>1 DEF Layout, LayoutPrologue
  <2>2. \/ at[1] = at[1] - 2 /\ s[at[1]] = Do("begin", 0)
        \/ at[1] = at[1] - 1 /\ s[at[1]] = Do("current", 30)
        \/ at[1] = at[1] /\ s[at[1]] = Do("next", nodes[1])
    BY <1>1, <2>1 DEF Layout, LayoutPrologue
  <2>3. s[at[1]] = Do("next", nodes[1])
    BY <2>1, <2>2
  <2> QED BY <2>1, <2>3 DEF Do
<1>9. \A i \in 1 .. n : Announces(nodes, silent, i) => s[at[i] + 3] = Do("next", nodes[i + 1])
  BY <1>1 DEF Layout, LayoutSteps
<1>10. \A i \in 1 .. n : at[i + 1] = at[i] + BlockSize(nodes, silent, marks, i)
  BY <1>1 DEF Layout, LayoutSteps
<1> HIDE DEF n
<1>11. SUFFICES ASSUME EndNode(j) >= 30
                PROVE  NextsInOrder(j, s) /\ NodesCovered(j, s)
  BY DEF NextsInOrder, NodesCovered, s
<1>12. /\ \A i \in 1 .. n : 30 <= nodes[i] /\ nodes[i] <= 100
       /\ \A i, k \in 1 .. n : i <= k => nodes[i] <= nodes[k]
  <2>1. \A i \in 1 .. n : nodes[i] \in 0 .. 100 /\ nodes[i] >= 30
    BY <1>3, <1>11 DEF NodesFit
  <2>2. \A i, k \in 1 .. n : i <= k => nodes[i] <= nodes[k]
    BY <1>3, <1>11 DEF NodesFit
  <2>3. \A v \in 0 .. 100 : v >= 30 => 30 <= v /\ v <= 100
    OBVIOUS
  <2> QED BY <2>1, <2>2, <2>3
<1>13. ASSUME NEW p \in 1 .. Len(s), NEW q \in 1 .. Len(s), p < q,
              s[p].op = "next", s[q].op = "next"
       PROVE  s[p].arg <= s[q].arg
  <2>1. \/ p <= at[1] /\ s[p].arg = nodes[1]
        \/ \E i \in 1 .. n : /\ i + 1 \in 1 .. n /\ p = at[i] + 3 /\ p <= at[i + 1]
                             /\ s[p].arg = nodes[i + 1]
        \/ p > at[n + 1] /\ s[p].arg = 100
    BY <1>5, <1>13 DEF NextsAt
  <2>2. \/ q <= at[1] /\ s[q].arg = nodes[1]
        \/ \E i \in 1 .. n : /\ i + 1 \in 1 .. n /\ q = at[i] + 3 /\ q <= at[i + 1]
                             /\ s[q].arg = nodes[i + 1]
        \/ q > at[n + 1] /\ s[q].arg = 100
    BY <1>5, <1>13 DEF NextsAt
  <2>3. 1 \in 1 .. n + 1 /\ n + 1 \in 1 .. n + 1 /\ 1 \in 1 .. n /\ at[1] \in Nat /\ at[n + 1] \in Nat
        /\ at[1] <= at[n + 1]
    BY <1>2, <1>7
  <2>4. ASSUME NEW i \in 1 .. n
        PROVE  /\ at[i] \in Nat /\ at[i + 1] \in Nat /\ at[1] <= at[i] /\ at[i + 1] <= at[n + 1]
               /\ nodes[1] <= nodes[i]
    <3>1. i \in 1 .. n + 1 /\ i + 1 \in 1 .. n + 1 /\ 1 <= i /\ i + 1 <= n + 1
      BY <1>2
    <3> QED BY <3>1, <2>3, <1>7, <1>12
  <2>5. CASE q > at[n + 1] /\ s[q].arg = 100
    <3>1. nodes[1] <= 100
      BY <2>3, <1>12
    <3>2. \A i \in 1 .. n : i + 1 \in 1 .. n => nodes[i + 1] <= 100
      BY <1>12
    <3> QED BY <2>1, <2>5, <3>1, <3>2
  <2>6. CASE p <= at[1] /\ s[p].arg = nodes[1]
    <3>1. nodes[1] <= nodes[1]
      BY <2>3, <1>12
    <3> QED BY <2>2, <2>4, <2>5, <2>6, <3>1
  <2>7. ASSUME NEW i \in 1 .. n, i + 1 \in 1 .. n, p = at[i] + 3, p <= at[i + 1],
               s[p].arg = nodes[i + 1]
        PROVE  s[p].arg <= s[q].arg
    <3>1. at[1] <= at[i] /\ at[i] \in Nat /\ at[1] \in Nat
      BY <2>3, <2>4
    <3>2. ~(q <= at[1])
      BY <3>1, <2>7, <1>13
    <3>3. ASSUME NEW k \in 1 .. n, k + 1 \in 1 .. n, q = at[k] + 3, q <= at[k + 1],
                 s[q].arg = nodes[k + 1]
          PROVE  s[p].arg <= s[q].arg
      <4>1. ~(k < i)
        <5>1. SUFFICES ASSUME k < i PROVE FALSE
          OBVIOUS
        <5>2. k + 1 \in 1 .. n + 1 /\ i \in 1 .. n + 1 /\ k + 1 <= i
          BY <5>1, <1>2
        <5>3. at[k + 1] <= at[i]
          BY <5>2, <1>7
        <5>4. at[k + 1] \in Nat /\ at[i] \in Nat
          BY <2>4
        <5>5. p \in Int /\ q \in Int /\ p < q
          BY <1>6, <1>13
        <5>6. q <= at[k + 1] /\ p = at[i] + 3
          BY <3>3, <2>7
        <5>7. \A a, c \in Nat : \A d \in Int : c + 3 < d /\ d <= a /\ a <= c => FALSE
          OBVIOUS
        <5>8. at[i] + 3 < q
          BY <5>5, <5>6
        <5> QED BY <5>3, <5>4, <5>5, <5>6, <5>7, <5>8
      <4>2. i + 1 <= k + 1
        BY <4>1, <1>2
      <4>3. nodes[i + 1] <= nodes[k + 1]
        BY <4>2, <3>3, <2>7, <1>12
      <4> QED BY <4>3, <3>3, <2>7
    <3> QED BY <3>2, <3>3, <2>2, <2>5
  <2>8. CASE p > at[n + 1] /\ s[p].arg = 100
    <3>1. ~(q <= at[1])
      BY <2>3, <2>8, <1>13
    <3>2. \A i \in 1 .. n : ~(q <= at[i + 1])
      BY <2>3, <2>4, <2>8, <1>13
    <3> QED BY <3>1, <3>2, <2>2, <2>5
  <2> QED BY <2>1, <2>6, <2>7, <2>8
<1>14. ASSUME NEW p \in 1 .. Len(s), NEW q \in 1 .. Len(s), q < p,
              s[p].op \in Checks \cup Writes, s[q].op = "current"
       PROVE  \E r \in 1 .. p - 1 : s[r].op = "next" /\ s[q].arg <= s[r].arg
  <2>1. PICK i \in 1 .. n : p = at[i] + 1
    BY <1>5, <1>14 DEF StepsAt, n
  <2>2. /\ i \in 1 .. n + 1 /\ i + 1 \in 1 .. n + 1 /\ 1 \in 1 .. n + 1 /\ n + 1 \in 1 .. n + 1
        /\ 1 <= i /\ i <= n + 1 /\ 1 \in 1 .. n
    BY <1>2
  <2>3. /\ at[i] \in Nat /\ at[1] \in Nat /\ at[n + 1] \in Nat /\ at[1] <= at[i] /\ at[i] <= at[n + 1]
    BY <2>2, <1>7
  <2>4. at[1] \in 1 .. p - 1
    BY <2>1, <2>3, <1>8
  <2>5. CASE s[q].arg = 30
    <3>1. 30 <= nodes[1]
      BY <2>2, <1>12
    <3> QED BY <2>4, <2>5, <3>1, <1>8
  <2>6. ASSUME NEW k \in 1 .. n, q = at[k] + 2, s[q].arg = nodes[k]
        PROVE  \E r \in 1 .. p - 1 : s[r].op = "next" /\ s[q].arg <= s[r].arg
    <3>1. ~(i <= k)
      <4>1. SUFFICES ASSUME i <= k PROVE FALSE
        OBVIOUS
      <4>2. k \in 1 .. n + 1 /\ at[i] <= at[k] /\ at[k] \in Nat
        BY <4>1, <2>2, <1>2, <1>7
      <4> QED BY <4>2, <2>1, <2>3, <2>6, <1>14
    <3>2. ASSUME NEW h \in 1 .. n, h < i, Announces(nodes, silent, h), k <= h + 1, h + 1 \in 1 .. n
          PROVE  \E r \in 1 .. p - 1 : s[r].op = "next" /\ s[q].arg <= s[r].arg
      <4>1. s[at[h] + 3].op = "next" /\ s[at[h] + 3].arg = nodes[h + 1]
        <5>1. s[at[h] + 3] = Do("next", nodes[h + 1])
          BY <3>2, <1>9
        <5> QED BY <5>1 DEF Do
      <4>2. nodes[k] <= nodes[h + 1]
        BY <3>2, <1>12
      <4>3. at[h] + 3 <= at[h + 1]
        <5>1. at[h] \in Nat
          BY <3>2, <1>2, <1>7
        <5>3. at[h + 1] = at[h] + BlockSize(nodes, silent, marks, h)
          BY <1>10
        <5>2. BlockSize(nodes, silent, marks, h) \in {3, 4}
          BY <3>2 DEF BlockSize
        <5> QED BY <5>1, <5>2, <5>3
      <4>4. h \in 1 .. n + 1 /\ h + 1 \in 1 .. n + 1 /\ h + 1 <= i
        BY <3>2, <1>2
      <4>5. at[h] \in Nat /\ at[h + 1] \in Nat /\ at[h + 1] <= at[i]
        BY <4>4, <2>2, <1>7
      <4>6. at[h] + 3 \in 1 .. p - 1
        <5>1. \A a, c, d \in Nat : a + 3 <= c /\ c <= d /\ p = d + 1 => a + 3 \in 1 .. p - 1
          OBVIOUS
        <5> QED BY <5>1, <4>3, <4>5, <2>1, <2>3
      <4> QED BY <4>1, <4>2, <4>6, <2>6
    <3>3. k \in 1 .. i - 1 /\ i - 1 \in 1 .. n /\ i \in 2 .. n
      BY <3>1, <1>2
    <3>4. CASE i - 1 \notin silent
      <4>1. Announces(nodes, silent, i - 1) /\ i - 1 < i /\ k <= (i - 1) + 1 /\ (i - 1) + 1 \in 1 .. n
        BY <3>3, <3>4, <1>2 DEF Announces
      <4> QED BY <3>2, <3>3, <4>1
    <3>5. CASE i - 1 \in silent /\ i = 2
      <4>1. k = 1
        BY <3>3, <3>5
      <4>2. nodes[1] <= nodes[1]
        BY <2>2, <1>12
      <4> QED BY <2>4, <2>6, <4>1, <4>2, <1>8
    <3>6. CASE i - 1 \in silent /\ i # 2
      <4>1. (i - 1) - 1 \notin silent
        BY <3>6, <1>3
      <4>2. /\ i - 2 \in 1 .. n /\ (i - 1) - 1 = i - 2 /\ i - 2 < n /\ i - 2 < i
            /\ k <= (i - 2) + 1 /\ (i - 2) + 1 \in 1 .. n
        BY <3>3, <3>6, <1>2
      <4>3. Announces(nodes, silent, i - 2)
        BY <4>1, <4>2, <1>2 DEF Announces
      <4> QED BY <3>2, <4>2, <4>3
    <3> QED BY <3>4, <3>5, <3>6
  <2>7. ~(q > at[n + 1])
    BY <2>1, <2>3, <1>14
  <2>8. \/ q <= at[1] /\ s[q].arg = 30
        \/ \E k \in 1 .. n : q = at[k] + 2 /\ s[q].arg = nodes[k]
        \/ q > at[n + 1] /\ s[q].arg = 100
    BY <1>2, <1>5, <1>14 DEF NodesAt
  <2> QED BY <2>5, <2>6, <2>7, <2>8
<1> QED BY <1>13, <1>14 DEF NextsInOrder, NodesCovered

-----------------------------------------------------------------------------
(* avb_verify, as the script calls it.                                     *)

(* The options the script calls it with.                                   *)
LEMMA AvbParses ==
  ASSUME NEW x
  PROVE  Avb!Parse(<<Avb!Option("U", x), Avb!Option("k", "/etc/key.avb")>>) =
    [flags |-> {"no_vbmeta_partition"}, key |-> "/etc/key.avb", suffix |-> 0,
                 image |-> x, vbmeta |-> 0, info |-> FALSE, usage |-> FALSE]
<1> DEFINE opts == <<Avb!Option("U", x), Avb!Option("k", "/etc/key.avb")>>
           IsIter(g) == g = [s \in SUBSET DOMAIN opts |->
               IF s = {} THEN Avb!Params
               ELSE LET m == Avb!Max(s) IN Avb!Take(g[s \ {m}], opts[m])]
           iter == CHOOSE g : IsIter(g)
           a == Avb!Params
           b == Avb!Take(a, Avb!Option("U", x))
           c == Avb!Take(b, Avb!Option("k", "/etc/key.avb"))
           d(s) == IF s = {} THEN a ELSE IF s = {1} THEN b
                   ELSE IF s = {2} THEN Avb!Take(a, Avb!Option("k", "/etc/key.avb")) ELSE c
           f == [s \in SUBSET {1, 2} |-> d(s)]
<1>1. Avb!Parse(opts) = iter[DOMAIN opts]
  BY Zenon DEF Avb!Parse, Avb!FoldLeft, Avb!MapThenFoldSet
<1>2. DOMAIN opts = {1, 2} /\ opts[1] = Avb!Option("U", x)
      /\ opts[2] = Avb!Option("k", "/etc/key.avb")
  OBVIOUS
<1> HIDE DEF opts
<1>3. Avb!Max({1}) = 1 /\ Avb!Max({2}) = 2 /\ Avb!Max({1, 2}) = 2
  BY DEF Avb!Max
<1>4. IsIter(f)
  <2> HIDE DEF b, c
  <2>1. f[{}] = a /\ f[{1}] = b /\ f[{2}] = Avb!Take(a, opts[2]) /\ f[{1, 2}] = c
    <3>1. {1} # {} /\ {2} # {} /\ {1, 2} # {} /\ {1} # {2} /\ {1, 2} # {1} /\ {1, 2} # {2}
      OBVIOUS
    <3> QED BY <3>1, <1>2
  <2>2. ASSUME NEW s \in SUBSET {1, 2}
        PROVE  f[s] = IF s = {} THEN Avb!Params
                      ELSE LET m == Avb!Max(s) IN Avb!Take(f[s \ {m}], opts[m])
    <3> HIDE DEF f
    <3>1. s = {} \/ s = {1} \/ s = {2} \/ s = {1, 2}
      OBVIOUS
    <3>2. CASE s = {}
      BY <3>2, <2>1
    <3>3. CASE s = {1}
      <4>1. s # {} /\ s \ {1} = {}
        BY <3>3
      <4> QED BY <4>1, <3>3, <2>1, <1>2, <1>3 DEF b
    <3>4. CASE s = {2}
      <4>1. s # {} /\ s \ {2} = {}
        BY <3>4
      <4> QED BY <4>1, <3>4, <2>1, <1>2, <1>3
    <3>5. CASE s = {1, 2}
      <4>1. s # {} /\ s \ {2} = {1}
        BY <3>5
      <4> QED BY <4>1, <3>5, <2>1, <1>2, <1>3 DEF c
    <3> QED BY <3>1, <3>2, <3>3, <3>4, <3>5
  <2> QED BY <2>2, <1>2
<1>5. IsIter(iter)
  <2> HIDE DEF IsIter, f
  <2> QED BY <1>4, Zenon
<1> HIDE DEF iter
<1>6. iter[{}] = a
  BY <1>2, <1>5
<1>7. iter[{1}] = b
  <2>1. {1} # {} /\ {1} \ {1} = {} /\ {1} \in SUBSET {1, 2}
    OBVIOUS
  <2> QED BY <2>1, <1>2, <1>3, <1>5, <1>6
<1>8. iter[{1, 2}] = c
  <2>1. {1, 2} # {} /\ {1, 2} \ {2} = {1} /\ {1, 2} \in SUBSET {1, 2}
    OBVIOUS
  <2> QED BY <2>1, <1>2, <1>3, <1>5, <1>7
<1>9. b = [a EXCEPT !.image = x]
  BY DEF Avb!Take, Avb!Option, Avb!Params
<1>10. c = [b EXCEPT !.key = "/etc/key.avb"]
  BY <1>9 DEF Avb!Take, Avb!Option, Avb!Params
<1>11. c = [flags |-> {"no_vbmeta_partition"}, key |-> "/etc/key.avb", suffix |-> 0,
                 image |-> x, vbmeta |-> 0, info |-> FALSE, usage |-> FALSE]
  <2>1. b = [flags |-> {"no_vbmeta_partition"}, key |-> "/etc/key.avb", suffix |-> 0,
                 image |-> x, vbmeta |-> 0, info |-> FALSE, usage |-> FALSE]
    <3> HIDE DEF b
    <3> QED BY <1>9 DEF Avb!Params, Avb!Null
  <2> HIDE DEF b, c
  <2> QED BY <2>1, <1>10
<1>12. Avb!Parse(opts) = c
  <2> HIDE DEF c
  <2> QED BY <1>1, <1>2, <1>8
<1> QED BY <1>11, <1>12, Zenon DEF opts

(* Its exit code says whether the image is sound.                          *)
LEMMA AvbSees ==
  ASSUME Arg \in Files
  PROVE  AvbVerify = IF Arg \in unsound THEN 1 ELSE 0
<1> DEFINE p == [flags |-> {"no_vbmeta_partition"}, key |-> "/etc/key.avb", suffix |-> 0,
                 image |-> Arg, vbmeta |-> 0, info |-> FALSE, usage |-> FALSE]
           opts == <<Avb!Option("U", Arg), Avb!Option("k", "/etc/key.avb")>>
<1>1. Avb!Parse(opts) = p
  BY AvbParses
<1>2. AvbVerify = Verify(p, <<Arg>>) % 256
  BY <1>1 DEF AvbVerify, Avb!Exit
<1>3. Verify(p, <<Arg>>) = IF Arg \in unsound THEN 1 ELSE 0
  BY DEF Verify
<1> QED BY <1>2, <1>3

-----------------------------------------------------------------------------
(* Types.                                                                  *)

LEMMA JobsAreJobs ==
  ASSUME NEW j \in Jobs
  PROVE  IsJob(j)
BY JobsAssumption DEF IsJob

(* What holds of the script of a package, whatever the device does.        *)
Packaged == job \in Jobs /\ script = Script(job) /\ script # <<>>

(* The script is well made.                                                *)
LEMMA ScriptFacts ==
  ASSUME Packaged
  PROVE  WellMade(job, script) /\ ScriptTyped(script) /\ script \in Seq(Commands)
<1>1. IsJob(job)
  BY JobsAreJobs DEF Packaged
<1>2. WellMade(job, script)
  BY <1>1, ScriptIsWellMade DEF Packaged
<1> QED BY <1>2 DEF WellMade, ScriptTyped

(* The lines of a script and their arguments.                              *)
LEMMA ScriptLines ==
  ASSUME Packaged
  PROVE  /\ script \in Seq(Commands) /\ Len(script) \in Nat
         /\ \A p \in 1 .. Len(script) :
               /\ script[p].op \in Checks \cup Writes => script[p].arg \in Files
               /\ script[p].op \in {"current", "next"} => script[p].arg \in 0 .. 100
<1>1. ScriptTyped(script) /\ script \in Seq(Commands)
  BY ScriptFacts
<1>2. Len(script) \in Nat
  BY <1>1
<1> QED BY <1>1, <1>2 DEF ScriptTyped

Shape ==
  /\ Packaged
  /\ unsound \subseteq Files
  /\ phase \in Phases /\ writing \in BOOLEAN /\ precheck \in BOOLEAN
  /\ pc \in 1 .. Len(script) + 1
  /\ part \in [Files -> Contents]
  /\ current \in -1 .. 100 /\ next \in 0 .. 100
  /\ finished \in BOOLEAN /\ stale \in BOOLEAN /\ ended \in BOOLEAN
  /\ errors \in 0 .. MaxErrors /\ cuts \in 0 .. MaxCuts
  /\ writing => At(Writes)
  /\ phase = "off" => current = 0

(* Shape, when the device is switched on for the first time.               *)
LEMMA ShapeInit ==
  ASSUME Init
  PROVE  Shape
<1>1. Packaged
  BY DEF Init, Packaged
<1>2. WellMade(job, script)
  BY <1>1, ScriptFacts
<1>3. unsound \subseteq Files
  <2>1. \A f \in Payload(job) : \E p \in 1 .. Len(script) : script[p].op \in Writes /\ script[p].arg = f
    BY <1>2 DEF WellMade, WritesAll
  <2>2. \A p \in 1 .. Len(script) : script[p].op \in Writes => script[p].arg \in Files
    BY <1>2 DEF WellMade, ScriptTyped
  <2> QED BY <2>1, <2>2 DEF Init
<1>4. Len(script) \in Nat
  BY <1>1, ScriptFacts
<1>5. /\ phase \in Phases /\ writing \in BOOLEAN /\ precheck \in BOOLEAN
      /\ pc \in 1 .. Len(script) + 1
      /\ current \in -1 .. 100 /\ next \in 0 .. 100
      /\ errors \in 0 .. MaxErrors /\ cuts \in 0 .. MaxCuts
      /\ ~writing /\ current = 0
  <2>1. phase \in Phases /\ writing = FALSE /\ precheck = FALSE
    BY DEF Init, Phases
  <2>2. pc \in 1 .. Len(script) + 1
    BY <1>4 DEF Init
  <2>3. current = 0 /\ current \in -1 .. 100 /\ next \in 0 .. 100
    BY DEF Init
  <2>4. errors \in 0 .. MaxErrors /\ cuts \in 0 .. MaxCuts
    BY BoundAssumption DEF Init
  <2> QED BY <2>1, <2>2, <2>3, <2>4
<1>7. finished \in BOOLEAN /\ stale \in BOOLEAN /\ ended \in BOOLEAN
  <2>1. stale \in Marks /\ finished = stale /\ ended = FALSE
    BY Zenon DEF Init
  <2> QED BY <2>1, MarkAssumption
<1>6. part \in [Files -> Contents]
  BY DEF Init, Contents
<1> QED BY <1>1, <1>3, <1>5, <1>6, <1>7 DEF Shape

(* Shape, across every step.                                               *)
LEMMA ShapeStep ==
  ASSUME Shape, [Next]_vars
  PROVE  Shape'
<1>c. Packaged
  BY DEF Shape
<1>0. /\ script \in Seq(Commands) /\ Len(script) \in Nat
      /\ \A p \in 1 .. Len(script) : /\ script[p].op \in Checks \cup Writes => script[p].arg \in Files
                                     /\ script[p].op \in {"current", "next"} => script[p].arg \in 0 .. 100
  BY <1>c, ScriptLines
<1> USE DEF Shape
<1>1. CASE SetProp
  <2>1. pc \in 1 .. Len(script) /\ pc + 1 \in 1 .. Len(script) + 1 /\ script[pc].op \notin Writes
    BY <1>0, <1>1 DEF SetProp, At, Writes
  <2>2. script[pc].op \in {"current", "next"} => Arg \in 0 .. 100
    BY <1>0, <2>1 DEF Arg
  <2>3. current' \in -1 .. 100 /\ next' \in 0 .. 100
    <3>1. Arg \in 0 .. 100 => Arg \in -1 .. 100
      OBVIOUS
    <3>2. current' = current \/ (current' = Arg /\ script[pc].op = "current")
      BY <1>1 DEF SetProp
    <3>3. next' = next \/ (next' = Arg /\ script[pc].op = "next")
      BY <1>1 DEF SetProp
    <3>4. CASE script[pc].op \in {"current", "next"}
      BY <2>2, <3>1, <3>2, <3>3, <3>4
    <3>5. CASE script[pc].op \notin {"current", "next"}
      BY <3>2, <3>3, <3>5
    <3> QED BY <3>4, <3>5
  <2>5. finished' \in BOOLEAN
    BY <1>1 DEF SetProp
  <2>4. ~writing
    BY <2>1 DEF At
  <2> QED BY <1>1, <2>1, <2>3, <2>4, <2>5 DEF SetProp, At, package, Packaged
<1>2. CASE Check
  <2>1. pc \in 1 .. Len(script) /\ pc + 1 \in 1 .. Len(script) + 1 /\ script[pc].op \notin Writes
    BY <1>0, <1>2 DEF Check, At, Writes
  <2>2. ~writing
    BY <2>1 DEF At
  <2> QED BY <1>2, <2>1, <2>2 DEF Check, At, package, progress, Packaged
<1>a. -1 \in -1 .. 100 /\ 0 \in -1 .. 100 /\ 0 \in 0 .. 100
      /\ "failed" \in Phases /\ "off" \in Phases /\ 1 \in 1 .. Len(script) + 1
  BY <1>0 DEF Phases
<1>3. CASE CheckFails
  <2>1. current' \in -1 .. 100 /\ phase' \in Phases /\ phase' # "off" /\ ~writing'
        /\ writing' \in BOOLEAN
    BY <1>3, <1>a DEF CheckFails, GiveUp
  <2> QED BY <1>3, <2>1 DEF CheckFails, GiveUp, package, Packaged
<1>4. CASE WriteBegin
  BY <1>4 DEF WriteBegin, At, package, progress, Packaged, Contents, Writes
<1>5. CASE WriteEnd
  <2>1. pc \in 1 .. Len(script) /\ pc + 1 \in 1 .. Len(script) + 1
    BY <1>0, <1>5 DEF WriteEnd, At
  <2> QED BY <1>5, <2>1 DEF WriteEnd, package, progress, Packaged, Contents
<1>6. CASE UserScript
  <2>1. pc \in 1 .. Len(script) /\ pc + 1 \in 1 .. Len(script) + 1 /\ script[pc].op \notin Writes
    BY <1>0, <1>6 DEF UserScript, At, Writes
  <2>2. ~writing
    BY <2>1 DEF At
  <2>3. ended' \in BOOLEAN
    BY <1>6 DEF UserScript
  <2> QED BY <1>6, <2>1, <2>2, <2>3 DEF UserScript, At, package, progress, Packaged
<1>7. CASE Finish
  <2>1. ~writing
    BY <1>0, <1>7 DEF Finish, At
  <2> QED BY <1>7, <2>1 DEF Finish, package, progress, Packaged, Phases
<1>8. CASE Start
  <2>1. ~writing
    BY <1>8 DEF Start, At
  <2>2. 1 \in 1 .. Len(script) + 1
    BY <1>0
  <2> QED BY <1>8, <2>1, <2>2 DEF Start, package, progress, Packaged, Phases
<1>9. CASE WriteFails
  <2>1. errors' \in 0 .. MaxErrors
    BY <1>9, BoundAssumption DEF WriteFails
  <2>2. current' \in -1 .. 100 /\ phase' \in Phases /\ phase' # "off" /\ ~writing'
        /\ writing' \in BOOLEAN
    BY <1>9, <1>a DEF WriteFails, GiveUp
  <2> QED BY <1>9, <2>1, <2>2 DEF WriteFails, GiveUp, package, Packaged
<1>10. CASE PowerCut
  <2>1. cuts' \in 0 .. MaxCuts
    BY <1>10, BoundAssumption DEF PowerCut
  <2>2. /\ current' = 0 /\ current' \in -1 .. 100 /\ next' \in 0 .. 100
        /\ phase' \in Phases /\ ~writing' /\ writing' \in BOOLEAN /\ pc' = 1
    BY <1>10, <1>a DEF PowerCut
  <2> QED BY <1>10, <1>a, <2>1, <2>2 DEF PowerCut, package, Packaged
<1>11. CASE UNCHANGED vars
  BY <1>11 DEF vars, package, shell, progress, Packaged, At
<1> QED BY <1>1, <1>2, <1>3, <1>4, <1>5, <1>6, <1>7, <1>8, <1>9, <1>10, <1>11
     DEF Next, ScriptNext

(* Shape always holds.                                                     *)
LEMMA ShapeHolds == Spec => []Shape
<1>1. Init => Shape
  BY ShapeInit
<1>2. Shape /\ [Next]_vars => Shape'
  BY ShapeStep
<1> QED BY <1>1, <1>2, PTL DEF Spec

(* The variables have their types in every state, for every call of the    *)
(* generator and every bound on errors and power cuts.                     *)
THEOREM InstallTypeCorrect == Spec => []TypeOK
<1>1. Shape => TypeOK
  <2>1. ASSUME Shape PROVE TypeOK
    <3>1. \A i \in 1 .. Len(script) : script[i].op \in Ops
      <4>1. script \in Seq(Commands)
        BY <2>1, ScriptFacts DEF Shape
      <4>2. \A i \in 1 .. Len(script) : script[i] \in Commands
        BY <4>1
      <4> QED BY <4>2 DEF Commands
    <3> QED BY <2>1, <3>1 DEF Shape, Packaged, TypeOK
  <2> QED BY <2>1
<1> QED BY <1>1, ShapeHolds, PTL

(* The commands by what they are.                                          *)
LEMMA Commanded ==
  ASSUME Shape
  PROVE  /\ Len(script) \in Nat /\ pc \in 1 .. Len(script) + 1
         /\ WellMade(job, script)
         /\ \A p \in 1 .. Len(script) :
              script[p].op \in Checks \cup Writes => script[p].arg \in Files
<1>1. Packaged /\ pc \in 1 .. Len(script) + 1
  BY DEF Shape
<1> QED BY <1>1, ScriptFacts, ScriptLines

-----------------------------------------------------------------------------
(* A patch that was cut off is not prechecked against what it left.        *)

(* persist.ota.precheck.finished is set before a differential package      *)
(* writes; a script that prechecks was started before it was set.          *)
Recorded ==
  /\ phase = "running" => \A p \in 1 .. pc - 1 : script[p].op = "finished" => finished
  /\ (\E f \in Files : part[f] # "old") /\ job.diff => finished
  /\ (phase = "running" /\ precheck /\ \E p \in pc .. Len(script) : script[p].op \in Checks)
       => ~finished

Reasoned == phase = "failed" => unsound # {} \/ errors > 0

(* Recorded, at first.                                                     *)
LEMMA RecordedInit ==
  ASSUME Init
  PROVE  Recorded
BY DEF Init, Recorded

(* Recorded, across every step.                                            *)
LEMMA RecordedStep ==
  ASSUME Shape, Recorded, [Next]_vars
  PROVE  Recorded'
<1>0. /\ Len(script) \in Nat /\ pc \in 1 .. Len(script) + 1 /\ WellMade(job, script)
  BY Commanded
<1>1. CASE SetProp
  <2>1. /\ phase = "running" /\ phase' = phase /\ precheck' = precheck /\ script' = script
        /\ job' = job /\ part' = part /\ pc' = pc + 1 /\ pc \in 1 .. Len(script)
    BY <1>0, <1>1 DEF SetProp, package, At
  <2>2. finished' = (finished \/ script[pc].op = "finished")
    BY <1>1 DEF SetProp
  <2>3. \A p \in 1 .. pc + 1 - 1 : p \in 1 .. pc - 1 \/ p = pc
    BY <1>0
  <2>4. \A p \in 1 .. pc - 1 : script[p].op = "finished" => finished
    BY <2>1 DEF Recorded
  <2>8. (finished => finished') /\ (script[pc].op = "finished" => finished')
    BY <2>2, Zenon
  <2>5. \A p \in 1 .. pc' - 1 : script'[p].op = "finished" => finished'
    BY <2>1, <2>3, <2>4, <2>8
  <2>6. (\E f \in Files : part'[f] # "old") /\ job'.diff => finished'
    BY <2>1, <2>8 DEF Recorded
  <2>7. ASSUME precheck', NEW p \in pc + 1 .. Len(script), script[p].op \in Checks
        PROVE  ~finished'
    <3>1. p \in pc .. Len(script) /\ p \in 1 .. Len(script) /\ ~(p < pc)
      BY <1>0, <2>7
    <3>2. ~finished
      BY <2>1, <2>7, <3>1 DEF Recorded
    <3>3. script[pc].op # "finished"
      BY <1>0, <2>1, <2>7, <3>1 DEF WellMade, MarkBetween
    <3> QED BY <2>2, <3>2, <3>3
  <2> QED BY <2>1, <2>5, <2>6, <2>7 DEF Recorded
<1>2. CASE Check \/ UserScript
  <2>1. /\ phase = "running" /\ phase' = phase /\ precheck' = precheck /\ script' = script
        /\ job' = job /\ part' = part /\ pc' = pc + 1 /\ finished' = finished
        /\ script[pc].op # "finished"
    BY <1>2 DEF Check, UserScript, package, At
  <2>2. \A p \in 1 .. pc + 1 - 1 : p \in 1 .. pc - 1 \/ p = pc
    BY <1>0
  <2>3. \A p \in pc + 1 .. Len(script) : p \in pc .. Len(script)
    BY <1>0
  <2>7. \A p \in 1 .. pc - 1 : script[p].op = "finished" => finished
    BY <2>1 DEF Recorded
  <2>8. finished => finished'
    BY <2>1
  <2>9. script[pc].op # "finished"
    BY <2>1
  <2>10. \A p \in 1 .. pc + 1 - 1 : script[p].op = "finished" => finished
    BY <2>2, <2>7, <2>9
  <2>11. pc' = pc + 1 /\ script' = script
    BY <2>1
  <2>4. \A p \in 1 .. pc' - 1 : script'[p].op = "finished" => finished'
    <3>1. ASSUME NEW p \in 1 .. pc + 1 - 1, script[p].op = "finished"
          PROVE  finished'
      BY <2>10, <2>8, <3>1
    <3> QED BY <1>0, <2>11, <3>1
  <2>5. (\E f \in Files : part'[f] # "old") /\ job'.diff => finished'
    BY <2>1 DEF Recorded
  <2>6. ASSUME precheck', NEW p \in pc + 1 .. Len(script), script[p].op \in Checks
        PROVE  ~finished'
    BY <2>1, <2>3, <2>6 DEF Recorded
  <2> QED BY <2>1, <2>4, <2>5, <2>6 DEF Recorded
<1>3. CASE CheckFails \/ WriteFails \/ Finish \/ PowerCut
  BY <1>3 DEF CheckFails, WriteFails, Finish, PowerCut, GiveUp, package, Recorded
<1>4. CASE WriteBegin
  <2>1. /\ phase' = phase /\ precheck' = precheck /\ script' = script
        /\ job' = job /\ pc' = pc /\ finished' = finished
    BY <1>4 DEF WriteBegin, package
  <2>2. ASSUME job.diff PROVE finished
    <3>1. pc \in 1 .. Len(script) /\ script[pc].op \in Writes /\ phase = "running"
      BY <1>0, <1>4 DEF WriteBegin, At, Writes
    <3>2. PICK p \in 1 .. Len(script) : script[p].op = "finished" /\ p < pc
      BY <1>0, <2>2, <3>1 DEF WellMade, MarkBetween
    <3>3. p \in 1 .. pc - 1
      BY <1>0, <3>2
    <3> QED BY <3>1, <3>2, <3>3 DEF Recorded
  <2> QED BY <2>1, <2>2 DEF Recorded
<1>5. CASE WriteEnd
  <2>1. /\ phase' = phase /\ precheck' = precheck /\ script' = script
        /\ job' = job /\ pc' = pc + 1 /\ finished' = finished
    BY <1>5 DEF WriteEnd, package
  <2>2. At(Writes) /\ pc \in 1 .. Len(script) /\ script[pc].op # "finished" /\ phase = "running"
    <3>1. At(Writes)
      BY <1>5 DEF WriteEnd, Shape
    <3> QED BY <1>0, <3>1 DEF At, Writes
  <2>3. ASSUME job.diff PROVE finished
    <3>2. PICK p \in 1 .. Len(script) : script[p].op = "finished" /\ p < pc
      BY <1>0, <2>2, <2>3 DEF WellMade, MarkBetween, At
    <3>3. p \in 1 .. pc - 1
      BY <1>0, <3>2
    <3> QED BY <2>2, <3>2, <3>3 DEF Recorded
  <2>4. \A p \in 1 .. pc + 1 - 1 : p \in 1 .. pc - 1 \/ p = pc
    BY <1>0
  <2>5. \A p \in pc + 1 .. Len(script) : p \in pc .. Len(script)
    BY <1>0
  <2>6. \A p \in 1 .. pc + 1 - 1 : script[p].op = "finished" => finished
    BY <2>2, <2>4 DEF Recorded
  <2> QED BY <2>1, <2>2, <2>3, <2>5, <2>6 DEF Recorded
<1>6. CASE Start
  <2>1. /\ script' = script /\ job' = job /\ part' = part /\ pc' = 1
        /\ finished' = finished
    BY <1>6 DEF Start, package
  <2>2. precheck' => ~finished
    BY <1>6, Zenon DEF Start
  <2>3. ~\E p \in 1 .. pc' - 1 : TRUE
    BY <2>1
  <2>4. (\E f \in Files : part'[f] # "old") /\ job'.diff => finished'
    BY <2>1 DEF Recorded
  <2> QED BY <2>1, <2>2, <2>3, <2>4 DEF Recorded
<1>7. CASE UNCHANGED vars
  BY <1>7 DEF vars, package, shell, Recorded
<1> QED BY <1>1, <1>2, <1>3, <1>4, <1>5, <1>6, <1>7 DEF Next, ScriptNext

(* The check that fails: a precheck of a written partition is ruled out by *)
(* Recorded, so that the image is unsound.                                 *)
LEMMA ReasonedStep ==
  ASSUME Shape, Recorded, Reasoned, [Next]_vars
  PROVE  Reasoned'
<1>1. CASE CheckFails
  <2>0. /\ Len(script) \in Nat /\ pc \in 1 .. Len(script) + 1 /\ WellMade(job, script)
        /\ \A p \in 1 .. Len(script) :
              script[p].op \in Checks \cup Writes => script[p].arg \in Files
    BY Commanded
  <2>1. /\ phase = "running" /\ pc \in 1 .. Len(script) /\ pc \in pc .. Len(script)
        /\ script[pc].op \in Checks /\ ~Skipped /\ ~Passes /\ unsound' = unsound
    BY <1>1, <2>0 DEF CheckFails, At, Checks, package
  <2>2. Arg \in Files
    BY <2>0, <2>1 DEF Arg
  <2>3. CASE script[pc].op = "verify"
    <3>1. Arg \in unsound
      BY <2>1, <2>2, <2>3, AvbSees DEF Passes
    <3> QED BY <2>1, <3>1 DEF Reasoned
  <2>4. CASE script[pc].op # "verify"
    <3>1. script[pc].op = "precheck" /\ precheck
      BY <2>1, <2>4 DEF Checks, Skipped
    <3>2. job.diff
      BY <2>0, <2>1, <3>1 DEF WellMade, ChecksFirst, CheckOp
    <3>3. ~finished
      BY <2>1, <3>1 DEF Recorded
    <3>4. part[Arg] = "old"
      BY <2>2, <3>2, <3>3 DEF Recorded
    <3>5. Arg \in unsound
      BY <2>1, <2>4, <3>4 DEF Passes, Precheck
    <3> QED BY <2>1, <3>5 DEF Reasoned
  <2> QED BY <2>3, <2>4
<1>2. CASE WriteFails
  <2>1. errors' = errors + 1 /\ errors \in 0 .. MaxErrors
    BY <1>2 DEF WriteFails, Shape
  <2>2. errors' > 0
    BY <2>1, BoundAssumption
  <2> QED BY <2>2 DEF Reasoned
<1>3. CASE SetProp \/ Check \/ WriteBegin \/ WriteEnd \/ UserScript \/ Finish \/ Start \/ PowerCut
  <2>1. phase' # "failed" \/ (phase' = phase /\ unsound' = unsound /\ errors' = errors)
    BY <1>3 DEF SetProp, Check, WriteBegin, WriteEnd, UserScript, Finish, Start, PowerCut, package
  <2> QED BY <2>1 DEF Reasoned
<1>4. CASE UNCHANGED vars
  BY <1>4 DEF vars, package, shell, Reasoned
<1> QED BY <1>1, <1>2, <1>3, <1>4 DEF Next, ScriptNext

(* The script gives up only when an image is unsound or a write failed,    *)
(* however often the power was cut between its commands.                   *)
THEOREM FailsOnlyForAReason == Spec => []FailsForAReason
<1>1. Init => Recorded /\ Reasoned
  BY RecordedInit DEF Init, Reasoned
<1>2. Shape /\ Recorded /\ Reasoned /\ [Next]_vars => Recorded' /\ Reasoned'
  BY RecordedStep, ReasonedStep
<1>3. Reasoned => FailsForAReason
  BY DEF Reasoned, FailsForAReason
<1> QED BY <1>1, <1>2, <1>3, ShapeHolds, PTL DEF Spec

-----------------------------------------------------------------------------
(* An image that fails its check keeps every partition as it was.          *)

(* The script does not come past the check of an unsound image, so it does *)
(* not come to the command that would let the recovery system skip it.     *)
Guarded ==
  unsound \cap Checked # {} /\ ~(stale /\ job.diff) =>
    /\ \A f \in Files : part[f] = "old"
    /\ \A p \in 1 .. Len(script) : script[p].op \in Checks /\ script[p].arg \in unsound => pc <= p
    /\ job.diff => ~finished
    /\ job.diff /\ phase = "running" => precheck

(* Guarded, at first.                                                      *)
LEMMA GuardedInit ==
  ASSUME Init
  PROVE  Guarded
<1>1. \A p \in 1 .. Len(script) : pc <= p
  BY DEF Init
<1>2. \A f \in Files : part[f] = "old"
  BY DEF Init
<1>3. finished = stale /\ phase # "running"
  BY DEF Init
<1> QED BY <1>1, <1>2, <1>3 DEF Guarded

(* The check of an unsound image lies ahead of every write and of the      *)
(* record of the prechecks.                                                *)
LEMMA CheckIsAhead ==
  ASSUME Shape, Guarded, unsound \cap Checked # {}, ~(stale /\ job.diff),
         pc \in 1 .. Len(script)
  PROVE  script[pc].op \notin Writes \cup {"finished"}
<1>1. /\ Len(script) \in Nat /\ WellMade(job, script)
  BY Commanded
<1>2. Checked = ToSet(ToCheck(job))
  BY DEF Checked, ToCheck
<1>3. PICK f \in unsound : f \in ToSet(ToCheck(job))
  BY <1>2
<1>4. PICK p \in 1 .. Len(script) : script[p].op \in Checks /\ script[p].arg = f
  BY <1>1, <1>3 DEF WellMade, ChecksFirst
<1>5. pc <= p
  BY <1>3, <1>4 DEF Guarded
<1>6. ~(p < pc)
  BY <1>1, <1>5
<1>7. script[pc].op \notin Writes
  BY <1>1, <1>4, <1>6 DEF WellMade, ChecksFirst
<1>8. script[pc].op # "finished"
  BY <1>1, <1>4, <1>6 DEF WellMade, MarkBetween
<1> QED BY <1>7, <1>8

(* Guarded, across every step: it can neither write nor record.            *)
LEMMA GuardedStep ==
  ASSUME Shape, Guarded, [Next]_vars
  PROVE  Guarded'
<1> SUFFICES ASSUME unsound \cap Checked # {}, ~(stale /\ job.diff),
                    unsound' = unsound, job' = job, script' = script, stale' = stale
             PROVE  Guarded'
  <2>1. unsound' = unsound /\ job' = job /\ script' = script /\ stale' = stale
    BY DEF Next, ScriptNext, SetProp, Check, CheckFails, WriteBegin, WriteEnd, UserScript,
           Finish, Start, WriteFails, PowerCut, package, vars
  <2>2. Checked' = Checked
    BY <2>1 DEF Checked
  <2>3. CASE unsound \cap Checked # {} /\ ~(stale /\ job.diff)
    BY <2>1, <2>3
  <2>4. CASE ~(unsound \cap Checked # {})
    BY <2>1, <2>2, <2>4 DEF Guarded
  <2>5. CASE stale /\ job.diff
    <3>1. stale' /\ job'.diff
      BY <2>1, <2>5
    <3> QED BY <3>1, Zenon DEF Guarded
  <2> QED BY <2>3, <2>4, <2>5
<1>0. /\ Len(script) \in Nat /\ pc \in 1 .. Len(script) + 1 /\ WellMade(job, script)
      /\ \A p \in 1 .. Len(script) :
            script[p].op \in Checks \cup Writes => script[p].arg \in Files
  BY Commanded
<1>a. /\ \A f \in Files : part[f] = "old"
      /\ \A p \in 1 .. Len(script) : script[p].op \in Checks /\ script[p].arg \in unsound => pc <= p
      /\ job.diff => ~finished
      /\ job.diff /\ phase = "running" => precheck
  BY Zenon DEF Guarded
<1>b. ~writing
  <2>1. ASSUME writing PROVE FALSE
    <3>1. pc \in 1 .. Len(script) /\ script[pc].op \in Writes
      BY <1>0, <2>1 DEF Shape, At
    <3> QED BY <3>1, CheckIsAhead
  <2> QED BY <2>1
<1>1. CASE SetProp
  <2>1. pc \in 1 .. Len(script) /\ pc' = pc + 1 /\ part' = part
    BY <1>0, <1>1 DEF SetProp, At
  <2>2. finished' = (finished \/ script[pc].op = "finished") /\ phase' = phase /\ precheck' = precheck
    BY <1>1 DEF SetProp
  <2>3. script[pc].op # "finished" /\ script[pc].op \notin Checks
    BY <1>1, <2>1, CheckIsAhead DEF SetProp, At, Checks
  <2>4. job.diff => ~finished'
    BY <1>a, <2>2, <2>3, Zenon
  <2>5. ASSUME NEW p \in 1 .. Len(script), script[p].op \in Checks, script[p].arg \in unsound
        PROVE  pc + 1 <= p
    <3>1. pc <= p /\ p # pc
      BY <1>a, <2>3, <2>5
    <3> QED BY <1>0, <3>1
  <2> QED BY <1>a, <2>1, <2>2, <2>4, <2>5 DEF Guarded
<1>2. CASE UserScript
  <2>1. pc \in 1 .. Len(script) /\ pc' = pc + 1 /\ part' = part
    BY <1>0, <1>2 DEF UserScript, At
  <2>2. finished' = finished /\ phase' = phase /\ precheck' = precheck
    BY <1>2 DEF UserScript
  <2>3. script[pc].op \notin Checks
    BY <1>2 DEF UserScript, At, Checks
  <2>5. ASSUME NEW p \in 1 .. Len(script), script[p].op \in Checks, script[p].arg \in unsound
        PROVE  pc + 1 <= p
    <3>1. pc <= p /\ p # pc
      BY <1>a, <2>3, <2>5
    <3> QED BY <1>0, <3>1
  <2> QED BY <1>a, <2>1, <2>2, <2>5 DEF Guarded
<1>3. CASE Check
  <2>1. pc \in 1 .. Len(script) /\ pc' = pc + 1 /\ part' = part
        /\ script[pc].op \in Checks /\ phase = "running"
    BY <1>0, <1>3 DEF Check, At, Checks
  <2>2. finished' = finished /\ phase' = phase /\ precheck' = precheck
    BY <1>3 DEF Check
  <2>3. Arg \notin unsound
    <3>1. Arg \in Files
      BY <1>0, <2>1 DEF Arg
    <3>2. CASE script[pc].op = "verify"
      <4>1. Passes
        BY <1>3, <3>2 DEF Check, Skipped
      <4> QED BY <3>1, <3>2, <4>1, AvbSees DEF Passes
    <3>3. CASE script[pc].op # "verify"
      <4>1. script[pc].op = "precheck"
        BY <2>1, <3>3 DEF Checks
      <4>2. job.diff
        BY <1>0, <2>1, <4>1 DEF WellMade, ChecksFirst, CheckOp
      <4>3. precheck
        BY <1>a, <2>1, <4>2
      <4>4. Passes
        BY <1>3, <4>3 DEF Check, Skipped
      <4> QED BY <3>3, <4>4 DEF Passes, Precheck
    <3> QED BY <3>2, <3>3
  <2>5. ASSUME NEW p \in 1 .. Len(script), script[p].op \in Checks, script[p].arg \in unsound
        PROVE  pc + 1 <= p
    <3>1. pc <= p /\ p # pc
      BY <1>a, <2>3, <2>5 DEF Arg
    <3> QED BY <1>0, <3>1
  <2> QED BY <1>a, <2>1, <2>2, <2>5 DEF Guarded
<1>4. CASE WriteBegin
  <2>1. pc \in 1 .. Len(script) /\ script[pc].op \in Writes
    BY <1>0, <1>4 DEF WriteBegin, At, Writes
  <2> QED BY <2>1, CheckIsAhead
<1>5. CASE WriteEnd \/ WriteFails
  BY <1>5, <1>b DEF WriteEnd, WriteFails
<1>6. CASE CheckFails \/ Finish
  <2>1. phase' # "running" /\ pc' = pc /\ part' = part /\ finished' = finished
    BY <1>6 DEF CheckFails, Finish, GiveUp
  <2> QED BY <1>a, <2>1 DEF Guarded
<1>7. CASE Start
  <2>1. pc' = 1 /\ part' = part /\ finished' = finished /\ precheck' = ~finished
    BY <1>7 DEF Start
  <2>2. job.diff => precheck'
    BY <1>a, <2>1, Zenon
  <2>3. \A p \in 1 .. Len(script) : 1 <= p
    BY <1>0
  <2> QED BY <1>a, <2>1, <2>2, <2>3 DEF Guarded
<1>8. CASE PowerCut
  <2>1. pc' = 1 /\ part' = part /\ finished' = finished /\ phase' # "running"
    BY <1>8 DEF PowerCut
  <2>3. \A p \in 1 .. Len(script) : 1 <= p
    BY <1>0
  <2> QED BY <1>a, <2>1, <2>3 DEF Guarded
<1>9. CASE UNCHANGED vars
  <2>1. pc' = pc /\ part' = part /\ finished' = finished /\ phase' = phase /\ precheck' = precheck
    BY <1>9 DEF vars, shell
  <2> QED BY <1>a, <2>1 DEF Guarded
<1> QED BY <1>1, <1>2, <1>3, <1>4, <1>5, <1>6, <1>7, <1>8, <1>9 DEF Next, ScriptNext

(* One image that fails its check keeps every partition as it was, in a    *)
(* package of any number of images, in any order and however often the     *)
(* script is started again.                                                *)
THEOREM UnsoundStaysOut == Spec => []UnsoundIsUntouched
<1>1. Init => Guarded
  BY GuardedInit
<1>2. Shape /\ Guarded /\ [Next]_vars => Guarded'
  BY GuardedStep
<1>3. Guarded => UnsoundIsUntouched
  BY Zenon DEF Guarded, UnsoundIsUntouched
<1> QED BY <1>1, <1>2, <1>3, ShapeHolds, PTL DEF Spec

-----------------------------------------------------------------------------
(* Success is not claimed before the last image is in place.               *)

(* What this run of the script has come past is written.                   *)
Written ==
  phase = "running" =>
    \A p \in 1 .. pc - 1 : script[p].op \in Writes =>
      part[script[p].arg] = "new" \/ (writing /\ script[p].arg = Arg)

(* Behind the end script, and behind the last node, nothing is written     *)
(* until the script starts again, which takes both back.                   *)
Claimed ==
  ended \/ current = 100 =>
    /\ Complete
    /\ phase = "running" => \A q \in 1 .. Len(script) : script[q].op \in Writes => q < pc

(* Nothing is claimed at first.                                            *)
LEMMA WrittenInit ==
  ASSUME Init
  PROVE  Written /\ Claimed
BY DEF Init, Written, Claimed

(* Written, across every step.                                             *)
LEMMA WrittenStep ==
  ASSUME Shape, Written, [Next]_vars
  PROVE  Written'
<1>0. /\ Len(script) \in Nat /\ pc \in 1 .. Len(script) + 1
      /\ \A p \in 1 .. Len(script) :
            script[p].op \in Checks \cup Writes => script[p].arg \in Files
  BY Commanded
<1>1. CASE SetProp \/ Check \/ UserScript
  <2>1. /\ phase = "running" /\ script' = script /\ part' = part /\ pc' = pc + 1
        /\ writing' = writing /\ script[pc].op \notin Writes
    BY <1>1 DEF SetProp, Check, UserScript, At, package, Writes
  <2>2. ~writing
    BY <2>1 DEF Shape, At
  <2>3. \A p \in 1 .. pc + 1 - 1 : p \in 1 .. pc - 1 \/ p = pc
    BY <1>0
  <2>4. \A p \in 1 .. pc + 1 - 1 : script[p].op \in Writes => part[script[p].arg] = "new"
    BY <2>1, <2>2, <2>3 DEF Written
  <2>5. script' = script /\ pc' = pc + 1 /\ part' = part
    BY <2>1
  <2>6. \A p \in 1 .. pc' - 1 : script'[p].op \in Writes => part'[script'[p].arg] = "new"
    BY <1>0, <2>4, <2>5
  <2> QED BY <2>6 DEF Written
<1>2. CASE CheckFails \/ WriteFails \/ Finish \/ PowerCut
  <2>1. phase' # "running"
    BY <1>2 DEF CheckFails, WriteFails, Finish, PowerCut, GiveUp
  <2> QED BY <2>1 DEF Written
<1>3. CASE WriteBegin
  <2>1. /\ phase = "running" /\ script' = script /\ pc' = pc /\ ~writing /\ writing'
        /\ part' = [part EXCEPT ![Arg] = "torn"] /\ part \in [Files -> Contents]
    BY <1>3 DEF WriteBegin, At, package, Shape
  <2>2. Arg' = Arg
    BY <2>1 DEF Arg
  <2>3. ASSUME NEW p \in 1 .. pc - 1, script[p].op \in Writes
        PROVE  part'[script[p].arg] = "new" \/ script[p].arg = Arg
    <3>1. script[p].arg \in Files
      BY <1>0, <2>3
    <3>2. part[script[p].arg] = "new"
      BY <2>1, <2>3 DEF Written
    <3> QED BY <2>1, <3>1, <3>2
  <2> QED BY <2>1, <2>2, <2>3 DEF Written
<1>4. CASE WriteEnd
  <2>1. /\ phase = "running" /\ script' = script /\ pc' = pc + 1 /\ ~writing'
        /\ part' = [part EXCEPT ![Arg] = "new"] /\ part \in [Files -> Contents]
        /\ pc \in 1 .. Len(script)
    BY <1>0, <1>4 DEF WriteEnd, At, package, Shape
  <2>2. \A p \in 1 .. pc + 1 - 1 : p \in 1 .. pc - 1 \/ p = pc
    BY <1>0
  <2>3. ASSUME NEW p \in 1 .. pc + 1 - 1, script[p].op \in Writes
        PROVE  part'[script[p].arg] = "new"
    <3>1. script[p].arg \in Files
      BY <1>0, <2>1, <2>2, <2>3
    <3>2. CASE script[p].arg = Arg
      BY <2>1, <3>1, <3>2
    <3>3. CASE script[p].arg # Arg
      <4>1. p \in 1 .. pc - 1
        BY <2>2, <3>3 DEF Arg
      <4>2. part[script[p].arg] = "new"
        BY <2>1, <2>3, <3>3, <4>1 DEF Written
      <4> QED BY <2>1, <3>1, <3>3, <4>2
    <3> QED BY <3>2, <3>3
  <2> QED BY <2>1, <2>3 DEF Written
<1>5. CASE Start
  <2>1. pc' = 1
    BY <1>5 DEF Start
  <2>2. ~\E p \in 1 .. pc' - 1 : TRUE
    BY <2>1
  <2> QED BY <2>2 DEF Written
<1>6. CASE UNCHANGED vars
  <2>1. /\ phase' = phase /\ script' = script /\ pc' = pc /\ writing' = writing /\ part' = part
    BY <1>6 DEF vars, package, shell
  <2>2. Arg' = Arg
    BY <2>1 DEF Arg
  <2> QED BY <2>1, <2>2 DEF Written
<1> QED BY <1>1, <1>2, <1>3, <1>4, <1>5, <1>6 DEF Next, ScriptNext

(* Where the end script runs or the last node is set, all is written.      *)
LEMMA ClaimIsTrue ==
  ASSUME Shape, Written, phase = "running", pc \in 1 .. Len(script), Claims(script, pc)
  PROVE  Complete /\ \A q \in 1 .. Len(script) : script[q].op \in Writes => q < pc
<1>0. Len(script) \in Nat /\ WellMade(job, script)
  BY Commanded
<1>1. \A q \in 1 .. Len(script) : script[q].op \in Writes => q < pc
  BY <1>0 DEF WellMade, WritesAll
<1>2. ~writing
  BY DEF Shape, At, Claims, Writes
<1>3. ASSUME NEW f \in Payload(job)
      PROVE  part[f] = "new"
  <2>1. PICK q \in 1 .. Len(script) : script[q].op \in Writes /\ script[q].arg = f
    BY <1>0 DEF WellMade, WritesAll
  <2>2. q \in 1 .. pc - 1
    BY <1>0, <1>1, <2>1
  <2> QED BY <1>2, <2>1, <2>2 DEF Written
<1> QED BY <1>1, <1>3 DEF Complete

(* Claimed, across every step.                                             *)
LEMMA ClaimedStep ==
  ASSUME Shape, Written, Claimed, [Next]_vars
  PROVE  Claimed'
<1>0. /\ Len(script) \in Nat /\ pc \in 1 .. Len(script) + 1 /\ WellMade(job, script)
  BY Commanded
<1> DEFINE Past(n) == \A q \in 1 .. Len(script) : script[q].op \in Writes => q < n
<1>a. ASSUME part' = part, job' = job, script' = script,
             phase' # "running" \/ (phase = "running" /\ pc' \in {pc, pc + 1}),
             ended' \/ current' = 100 => ended \/ current = 100
      PROVE  Claimed'
  <2>1. Complete => Complete'
    BY <1>a DEF Complete
  <2>2. CASE ended \/ current = 100
    <3>1. Complete' /\ (phase = "running" => Past(pc))
      BY <2>1, <2>2 DEF Claimed
    <3>2. Past(pc) => Past(pc) /\ Past(pc + 1)
      BY <1>0
    <3>3. phase' = "running" => \A q \in 1 .. Len(script) : script[q].op \in Writes => q < pc'
      BY <1>a, <3>1, <3>2
    <3> QED BY <1>a, <3>1, <3>3 DEF Claimed
  <2>3. CASE ~(ended \/ current = 100)
    <3>1. ~(ended' \/ current' = 100)
      BY <1>a, <2>3
    <3> QED BY <3>1, Zenon DEF Claimed
  <2> QED BY <2>2, <2>3
<1>b. ASSUME part' = part, job' = job, script' = script, phase = "running", pc' = pc + 1,
             pc \in 1 .. Len(script), Claims(script, pc)
      PROVE  Claimed'
  <2>1. Complete /\ Past(pc)
    BY <1>b, ClaimIsTrue
  <2>2. Complete'
    BY <1>b, <2>1 DEF Complete
  <2>3. Past(pc + 1)
    BY <1>0, <2>1
  <2> QED BY <1>b, <2>2, <2>3 DEF Claimed
<1>1. CASE SetProp
  <2>1. /\ part' = part /\ job' = job /\ script' = script /\ phase = "running"
        /\ pc' = pc + 1 /\ pc \in 1 .. Len(script) /\ ended' = ended
        /\ current' = IF script[pc].op = "current" THEN Arg ELSE current
    BY <1>0, <1>1 DEF SetProp, At, package
  <2>2. CASE Claims(script, pc)
    BY <1>b, <2>1, <2>2
  <2>3. CASE ~Claims(script, pc)
    <3>1. current' = 100 => current = 100
      BY <2>1, <2>3 DEF Claims, Arg
    <3> QED BY <1>a, <2>1, <3>1
  <2> QED BY <2>2, <2>3
<1>2. CASE UserScript
  <2>1. /\ part' = part /\ job' = job /\ script' = script /\ phase = "running"
        /\ pc' = pc + 1 /\ pc \in 1 .. Len(script) /\ current' = current
    BY <1>0, <1>2 DEF UserScript, At, package, progress
  <2>2. CASE script[pc].op = "end"
    BY <1>b, <2>1, <2>2 DEF Claims
  <2>3. CASE script[pc].op # "end"
    <3>1. ended' => ended
      BY <1>2, <2>3, Zenon DEF UserScript
    <3> QED BY <1>a, <2>1, <3>1
  <2> QED BY <2>2, <2>3
<1>3. CASE Check
  <2>1. /\ part' = part /\ job' = job /\ script' = script /\ phase = "running"
        /\ pc' = pc + 1 /\ current' = current /\ ended' = ended
    BY <1>3 DEF Check, At, package, progress
  <2> QED BY <1>a, <2>1
<1>4. CASE CheckFails \/ WriteFails
  <2>1. /\ part' = part /\ job' = job /\ script' = script /\ phase' # "running"
        /\ ended' = ended /\ current' = -1
    BY <1>4 DEF CheckFails, WriteFails, GiveUp, package
  <2>2. -1 # 100
    OBVIOUS
  <2> QED BY <1>a, <2>1, <2>2
<1>5. CASE WriteBegin \/ WriteEnd
  <2>1. pc \in 1 .. Len(script) /\ script[pc].op \in Writes /\ phase = "running"
    BY <1>0, <1>5 DEF WriteBegin, WriteEnd, Shape, At, Writes
  <2>2. ~(ended \/ current = 100)
    <3>1. ~Past(pc)
      BY <1>0, <2>1
    <3> QED BY <2>1, <3>1 DEF Claimed
  <2>3. ended' = ended /\ current' = current
    BY <1>5 DEF WriteBegin, WriteEnd, progress
  <2>4. ~(ended' \/ current' = 100)
    BY <2>2, <2>3
  <2> QED BY <2>4, Zenon DEF Claimed
<1>6. CASE Finish
  <2>1. /\ part' = part /\ job' = job /\ script' = script /\ phase' # "running"
        /\ ended' = ended /\ current' = current
    BY <1>6 DEF Finish, package, progress
  <2> QED BY <1>a, <2>1
<1>7. CASE PowerCut
  <2>1. /\ part' = part /\ job' = job /\ script' = script /\ phase' # "running"
        /\ ended' = ended /\ current' # 100
    BY <1>7 DEF PowerCut, package
  <2> QED BY <1>a, <2>1
<1>8. CASE Start
  <2>1. ~ended' /\ current' = 0
    BY <1>8 DEF Start, progress, Shape
  <2>2. ~(ended' \/ current' = 100)
    BY <2>1
  <2> QED BY <2>2, Zenon DEF Claimed
<1>9. CASE UNCHANGED vars
  <2>1. /\ part' = part /\ job' = job /\ script' = script /\ phase' = phase /\ pc' = pc
        /\ ended' = ended /\ current' = current
    BY <1>9 DEF vars, package, shell, progress
  <2> QED BY <1>a, <2>1
<1> QED BY <1>1, <1>2, <1>3, <1>4, <1>5, <1>6, <1>7, <1>8, <1>9 DEF Next, ScriptNext

(* Neither the end script runs nor is the progress 100 before every image  *)
(* of the package is in place.                                             *)
THEOREM SuccessIsInstalled == Spec => []SuccessMeansInstalled
<1>1. Init => Written /\ Claimed
  BY WrittenInit
<1>2. Shape /\ Written /\ Claimed /\ [Next]_vars => Written' /\ Claimed'
  BY WrittenStep, ClaimedStep
<1>3. Claimed => SuccessMeansInstalled
  BY Zenon DEF Claimed, SuccessMeansInstalled
<1> QED BY <1>1, <1>2, <1>3, ShapeHolds, PTL DEF Spec

-----------------------------------------------------------------------------
(* Progress.                                                               *)

(* No node ahead is below the one that is reached.                         *)
Ahead ==
  phase = "running" /\ EndNode(job) >= 30 =>
    \A p \in pc .. Len(script) : script[p].op = "current" => script[p].arg >= current

(* Ahead, across every step.                                               *)
LEMMA AheadStep ==
  ASSUME Shape, Ahead, [Next]_vars
  PROVE  Ahead'
<1>0. /\ Len(script) \in Nat /\ pc \in 1 .. Len(script) + 1 /\ WellMade(job, script)
      /\ \A p \in 1 .. Len(script) : script[p].op = "current" => script[p].arg \in 0 .. 100
  <2>1. Len(script) \in Nat /\ pc \in 1 .. Len(script) + 1 /\ WellMade(job, script)
    BY Commanded
  <2> QED BY <2>1 DEF WellMade, ScriptTyped
<1>a. ASSUME phase = "running", script' = script, job' = job, pc' \in {pc, pc + 1},
             current' = current
      PROVE  Ahead'
  <2>1. \A p \in pc + 1 .. Len(script) : p \in pc .. Len(script)
    BY <1>0
  <2>2. EndNode(job') = EndNode(job)
    BY <1>a
  <2>3. ASSUME EndNode(job) >= 30, NEW p \in pc' .. Len(script), script[p].op = "current"
        PROVE  script[p].arg >= current
    <3>1. p \in pc .. Len(script)
      BY <1>a, <2>1, <2>3
    <3> QED BY <1>a, <2>3, <3>1 DEF Ahead
  <2> QED BY <1>a, <2>2, <2>3 DEF Ahead
<1>1. CASE SetProp
  <2>1. /\ phase = "running" /\ script' = script /\ job' = job /\ pc' = pc + 1
        /\ pc \in 1 .. Len(script)
    BY <1>0, <1>1 DEF SetProp, At, package
  <2>2. CASE script[pc].op = "current"
    <3>1. current' = script[pc].arg
      BY <1>1, <2>2 DEF SetProp, Arg
    <3>2. EndNode(job') = EndNode(job)
      BY <2>1
    <3>3. ASSUME EndNode(job) >= 30, NEW p \in pc + 1 .. Len(script), script[p].op = "current"
          PROVE  script[p].arg >= script[pc].arg
      <4>1. p \in 1 .. Len(script) /\ pc < p
        BY <1>0
      <4>2. script[pc].arg <= script[p].arg
        BY <1>0, <2>1, <2>2, <3>3, <4>1 DEF WellMade, NodesInOrder
      <4>3. script[pc].arg \in 0 .. 100 /\ script[p].arg \in 0 .. 100
        BY <1>0, <2>1, <2>2, <3>3, <4>1
      <4> DEFINE x == script[pc].arg
                 y == script[p].arg
      <4> SUFFICES y >= x
        OBVIOUS
      <4>4. x <= y /\ x \in 0 .. 100 /\ y \in 0 .. 100
        BY <4>2, <4>3
      <4> HIDE DEF x, y
      <4> QED BY <4>4
    <3> QED BY <2>1, <3>1, <3>2, <3>3 DEF Ahead
  <2>3. CASE script[pc].op # "current"
    <3>1. current' = current
      BY <1>1, <2>3 DEF SetProp
    <3> QED BY <1>a, <2>1, <3>1
  <2> QED BY <2>2, <2>3
<1>2. CASE Check \/ WriteBegin \/ WriteEnd \/ UserScript
  <2>1. phase = "running"
    BY <1>2 DEF Check, WriteBegin, WriteEnd, UserScript, Shape, At
  <2>2. script' = script /\ job' = job /\ pc' \in {pc, pc + 1} /\ current' = current
    BY <1>2 DEF Check, WriteBegin, WriteEnd, UserScript, package, progress
  <2> QED BY <1>a, <2>1, <2>2
<1>3. CASE CheckFails \/ WriteFails \/ Finish \/ PowerCut
  <2>1. phase' # "running"
    BY <1>3 DEF CheckFails, WriteFails, Finish, PowerCut, GiveUp
  <2> QED BY <2>1 DEF Ahead
<1>4. CASE Start
  <2>1. script' = script /\ pc' = 1 /\ current' = 0
    BY <1>4 DEF Start, package, progress, Shape
  <2>2. ASSUME NEW p \in 1 .. Len(script), script[p].op = "current"
        PROVE  script[p].arg >= 0
    <3> DEFINE x == script[p].arg
    <3> SUFFICES x >= 0
      OBVIOUS
    <3>1. x \in 0 .. 100
      BY <1>0, <2>2
    <3> HIDE DEF x
    <3> QED BY <3>1
  <2> QED BY <2>1, <2>2 DEF Ahead
<1>5. CASE UNCHANGED vars
  <2>1. phase' = phase /\ script' = script /\ job' = job /\ pc' = pc /\ current' = current
    BY <1>5 DEF vars, package, shell, progress
  <2>2. CASE phase = "running"
    BY <1>a, <2>1, <2>2
  <2>3. CASE phase # "running"
    BY <2>1, <2>3 DEF Ahead
  <2> QED BY <2>2, <2>3
<1> QED BY <1>1, <1>2, <1>3, <1>4, <1>5 DEF Next, ScriptNext

Rising == phase' = "running" /\ EndNode(job) >= 30 => current' >= current

(* A step that sets a node sets one that was ahead.                        *)
LEMMA RisingStep ==
  ASSUME Shape, Ahead, [Next]_vars
  PROVE  Rising
<1>0. current \in -1 .. 100 /\ Len(script) \in Nat /\ pc \in 1 .. Len(script) + 1
  BY Commanded DEF Shape
<1>a. ASSUME current' = current
      PROVE  Rising
  BY <1>0, <1>a DEF Rising
<1>1. CASE SetProp
  <2>1. CASE script[pc].op = "current"
    <3>1. current' = script[pc].arg /\ pc \in pc .. Len(script) /\ phase = "running"
      BY <1>0, <1>1, <2>1 DEF SetProp, Arg, At
    <3> QED BY <2>1, <3>1 DEF Ahead, Rising
  <2>2. CASE script[pc].op # "current"
    BY <1>1, <1>a, <2>2 DEF SetProp
  <2> QED BY <2>1, <2>2
<1>2. CASE Check \/ WriteBegin \/ WriteEnd \/ UserScript \/ Finish \/ Start \/ UNCHANGED vars
  <2>1. current' = current
    BY <1>2 DEF Check, WriteBegin, WriteEnd, UserScript, Finish, Start, progress, vars
  <2> QED BY <1>a, <2>1
<1>3. CASE CheckFails \/ WriteFails \/ PowerCut
  <2>1. phase' # "running"
    BY <1>3 DEF CheckFails, WriteFails, PowerCut, GiveUp
  <2> QED BY <2>1 DEF Rising
<1> QED BY <1>1, <1>2, <1>3 DEF Next, ScriptNext

(* Progress does not go back while the script runs, from checking to       *)
(* writing and from one image to the next, whatever the images weigh.      *)
THEOREM ProgressRises == Spec => NodesAscend
<1>1. Init => Ahead
  BY DEF Init, Ahead
<1>2. Shape /\ Ahead /\ [Next]_vars => Ahead'
  BY AheadStep
<1>3. Shape /\ Ahead /\ [Next]_vars =>
        [phase' = "running" /\ EndNode(job) >= 30 => current' >= current]_vars
  BY RisingStep DEF Rising
<1> QED BY <1>1, <1>2, <1>3, ShapeHolds, PTL DEF Spec, NodesAscend

(* ota.progress.next is the last node this run announced.                  *)
Said ==
  phase = "running" =>
    \A q \in 1 .. pc - 1 :
      script[q].op = "next" /\ (\A r \in q + 1 .. pc - 1 : script[r].op # "next")
        => next = script[q].arg

(* Said, across every step.                                                *)
LEMMA SaidStep ==
  ASSUME Shape, Said, [Next]_vars
  PROVE  Said'
<1>0. /\ Len(script) \in Nat /\ pc \in 1 .. Len(script) + 1
  BY Commanded
<1>a. ASSUME phase = "running", script' = script, pc' = pc + 1, pc \in 1 .. Len(script),
             script[pc].op # "next", next' = next
      PROVE  Said'
  <2>1. ASSUME NEW q \in 1 .. pc + 1 - 1, script[q].op = "next",
               \A r \in q + 1 .. pc + 1 - 1 : script[r].op # "next"
        PROVE  next = script[q].arg
    <3>1. q \in 1 .. pc - 1
      BY <1>0, <1>a, <2>1
    <3>2. \A r \in q + 1 .. pc - 1 : r \in q + 1 .. pc + 1 - 1
      BY <1>0
    <3> QED BY <1>a, <2>1, <3>1, <3>2 DEF Said
  <2> QED BY <1>a, <2>1 DEF Said
<1>1. CASE SetProp
  <2>1. phase = "running" /\ script' = script /\ pc' = pc + 1 /\ pc \in 1 .. Len(script)
    BY <1>0, <1>1 DEF SetProp, At, package
  <2>2. CASE script[pc].op = "next"
    <3>1. next' = script[pc].arg
      BY <1>1, <2>2 DEF SetProp, Arg
    <3>2. ASSUME NEW q \in 1 .. pc + 1 - 1, script[q].op = "next",
                 \A r \in q + 1 .. pc + 1 - 1 : script[r].op # "next"
          PROVE  q = pc
      <4>1. q # pc => pc \in q + 1 .. pc + 1 - 1
        BY <1>0
      <4> QED BY <2>2, <3>2, <4>1
    <3>3. ASSUME NEW q \in 1 .. pc + 1 - 1, script[q].op = "next",
                 \A r \in q + 1 .. pc + 1 - 1 : script[r].op # "next"
          PROVE  next' = script[q].arg
      <4>1. q = pc
        BY <3>2, <3>3
      <4> QED BY <3>1, <4>1
    <3> QED BY <2>1, <3>3 DEF Said
  <2>3. CASE script[pc].op # "next"
    <3>1. next' = next
      BY <1>1, <2>3 DEF SetProp
    <3> QED BY <1>a, <2>1, <2>3, <3>1
  <2> QED BY <2>2, <2>3
<1>2. CASE Check \/ WriteEnd \/ UserScript
  <2>1. /\ phase = "running" /\ pc \in 1 .. Len(script) /\ script[pc].op # "next"
    BY <1>0, <1>2 DEF Check, WriteEnd, UserScript, Shape, At, Writes
  <2>2. script' = script /\ pc' = pc + 1 /\ next' = next
    BY <1>2 DEF Check, WriteEnd, UserScript, package, progress
  <2> QED BY <1>a, <2>1, <2>2
<1>3. CASE CheckFails \/ WriteFails \/ Finish \/ PowerCut
  <2>1. phase' # "running"
    BY <1>3 DEF CheckFails, WriteFails, Finish, PowerCut, GiveUp
  <2> QED BY <2>1 DEF Said
<1>4. CASE Start
  <2>1. pc' = 1
    BY <1>4 DEF Start
  <2>2. ~\E q \in 1 .. pc' - 1 : TRUE
    BY <2>1
  <2> QED BY <2>2 DEF Said
<1>5. CASE WriteBegin \/ UNCHANGED vars
  <2>1. phase' = phase /\ script' = script /\ pc' = pc /\ next' = next
    BY <1>5 DEF WriteBegin, vars, package, shell, progress
  <2> QED BY <2>1 DEF Said
<1> QED BY <1>1, <1>2, <1>3, <1>4, <1>5 DEF Next, ScriptNext

(* While an image is written the screen knows where the step will end,     *)
(* but for the step behind the last generated image.                       *)
THEOREM StepsAreAnnounced == Spec => []StepIsAnnounced
<1>1. Init => Said
  BY DEF Init, Said
<1>2. Shape /\ Said /\ [Next]_vars => Said'
  BY SaidStep
<1>3. ASSUME Shape, Said, writing
      PROVE  next = Reaches \/ Unannounced
  <2>1. Len(script) \in Nat /\ pc \in 1 .. Len(script) + 1 /\ WellMade(job, script)
    BY <1>3, Commanded
  <2>2. phase = "running" /\ pc \in 1 .. Len(script) /\ script[pc].op \in Writes
    BY <1>3, <2>1 DEF Shape, At
  <2>3. pc + 1 \in 1 .. Len(script) /\ script[pc + 1].op = "current"
    BY <2>1, <2>2 DEF WellMade, StepsAnnounced
  <2> DEFINE Next1(i) == /\ script[i].op = "current"
                         /\ \A k \in pc .. i - 1 : script[k].op # "current"
  <2>4. Reaches = script[pc + 1].arg
    <3>1. pc + 1 \in pc .. Len(script) /\ Next1(pc + 1)
      <4>1. \A k \in pc .. pc + 1 - 1 : k = pc
        BY <2>1
      <4> QED BY <2>1, <2>2, <2>3, <4>1 DEF Writes
    <3>2. ASSUME NEW i \in pc .. Len(script), Next1(i)
          PROVE  i = pc + 1
      <4>1. i # pc
        BY <2>2, <3>2 DEF Writes
      <4>2. ~(pc + 1 \in pc .. i - 1)
        BY <2>3, <3>2
      <4> QED BY <2>1, <4>1, <4>2
    <3>3. Reaches = script[CHOOSE i \in pc .. Len(script) : Next1(i)].arg
      BY DEF Reaches
    <3> HIDE DEF Next1
    <3> QED BY <3>1, <3>2, <3>3
  <2>5. CASE Announced(script, pc, script[pc + 1].arg)
    <3>1. next = script[pc + 1].arg
      BY <1>3, <2>2, <2>5 DEF Announced, Said
    <3> QED BY <2>4, <3>1
  <2>6. CASE ~Announced(script, pc, script[pc + 1].arg)
    BY <2>1, <2>2, <2>6 DEF WellMade, StepsAnnounced, Unannounced, Arg
  <2> QED BY <2>5, <2>6
<1>4. Shape /\ Said => StepIsAnnounced
  BY <1>3 DEF StepIsAnnounced
<1> QED BY <1>1, <1>2, <1>4, ShapeHolds, PTL DEF Spec
=============================================================================
