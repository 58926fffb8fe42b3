------------------------------ MODULE Folding ------------------------------
(***************************************************************************)
(* What FoldLeft of the community modules computes: from the first value,  *)
(* one application of the operator after the other.  Op is the operator;   *)
(* a module that folds instantiates this one, once for each of its         *)
(* operators: so this module extends nothing but the numbers, and repeats  *)
(* the value that FoldLeft stands for.                                     *)
(*                                                                         *)
(* FoldLeft goes over the sets of positions, so the function it chooses    *)
(* exists by induction over the greatest position.  The induction is a     *)
(* hypothesis of FoldIs; NumbersInduct of UiPages_proofs is a proof of it  *)
(* for every number.                                                       *)
(***************************************************************************)
EXTENDS Integers

CONSTANT Op(_, _)

(* The greatest number of a set. *)
Greatest(S) == CHOOSE x \in S : \A y \in S : x >= y

(* The fold, for the modules that instantiate this one. *)
Folded(b, s) ==
  LET iter[S \in SUBSET DOMAIN s] ==
        IF S = {} THEN b ELSE LET x == Greatest(S) IN Op(iter[S \ {x}], s[x])
  IN  iter[DOMAIN s]

(* Its values, from the first one on. *)
Folds(g, b, s, n) ==
  /\ g[0] = b
  /\ \A k \in 1 .. n : g[k] = Op(g[k - 1], s[k])
  /\ g[n] = Folded(b, s)

(* The greatest number of a set that ends at a number.                     *)
LEMMA GreatestIs ==
  ASSUME NEW k \in Nat, NEW S \in SUBSET (1 .. k + 1), k + 1 \in S
  PROVE  Greatest(S) = k + 1
<1>1. \A y \in S : k + 1 >= y /\ y \in Int
  OBVIOUS
<1>2. ASSUME NEW x \in S, \A y \in S : x >= y
      PROVE  x = k + 1
  BY <1>1, <1>2
<1> QED BY <1>1, <1>2 DEF Greatest

(* FoldLeft, step by step.                                                 *)
LEMMA FoldIs ==
  ASSUME NEW b, NEW s, NEW n \in Nat, DOMAIN s = 1 .. n,
         \A T : 0 \in T /\ (\A k \in 0 .. n - 1 : k \in T => k + 1 \in T) => 0 .. n \subseteq T
  PROVE  \E g : Folds(g, b, s, n)
<1> DEFINE IsIter(h, k) == h = [S \in SUBSET (1 .. k) |->
                                  IF S = {} THEN b
                                  ELSE LET x == Greatest(S) IN Op(h[S \ {x}], s[x])]
           T == {k \in 0 .. n : \E h : IsIter(h, k)}
           iter == CHOOSE h : IsIter(h, n)
           g == [k \in 0 .. n |-> iter[1 .. k]]
<1>1. 0 \in T
  <2>1. SUBSET (1 .. 0) = {{}}
    OBVIOUS
  <2>2. IsIter([S \in SUBSET (1 .. 0) |-> b], 0)
    BY <2>1
  <2> QED BY <2>2
<1>2. ASSUME NEW k \in 0 .. n - 1, k \in T
      PROVE  k + 1 \in T
  <2>1. PICK h : IsIter(h, k)
    BY <1>2
  <2> DEFINE f == [S \in SUBSET (1 .. k + 1) |->
                     IF k + 1 \in S THEN Op(h[S \ {k + 1}], s[k + 1]) ELSE h[S]]
  <2>2. ASSUME NEW S \in SUBSET (1 .. k + 1)
        PROVE  f[S] = IF S = {} THEN b
                      ELSE LET x == Greatest(S) IN Op(f[S \ {x}], s[x])
    <3>1. CASE k + 1 \in S
      <4>1. Greatest(S) = k + 1
        BY <3>1, <1>2, GreatestIs
      <4>2. S \ {k + 1} \in SUBSET (1 .. k + 1) /\ k + 1 \notin S \ {k + 1} /\ S # {}
        BY <3>1
      <4>3. f[S \ {k + 1}] = h[S \ {k + 1}]
        BY <4>2
      <4>4. f[S] = Op(h[S \ {k + 1}], s[k + 1])
        BY <3>1
      <4> HIDE DEF f
      <4> QED BY <4>1, <4>2, <4>3, <4>4
    <3>2. CASE k + 1 \notin S
      <4>1. S \in SUBSET (1 .. k)
        BY <3>2
      <4>2. f[S] = h[S]
        BY <3>2
      <4>3. h[S] = IF S = {} THEN b ELSE LET x == Greatest(S) IN Op(h[S \ {x}], s[x])
        BY <2>1, <4>1
      <4>4. CASE S = {}
        BY <4>2, <4>3, <4>4
      <4>5. CASE S # {}
        <5>1. S \ {Greatest(S)} \in SUBSET (1 .. k + 1) /\ k + 1 \notin S \ {Greatest(S)}
          BY <3>2
        <5>2. f[S \ {Greatest(S)}] = h[S \ {Greatest(S)}]
          BY <5>1
        <5> HIDE DEF f
        <5> QED BY <4>2, <4>3, <4>5, <5>2
      <4> QED BY <4>4, <4>5
    <3> QED BY <3>1, <3>2
  <2>3. IsIter(f, k + 1)
    <3>1. f = [S \in SUBSET (1 .. k + 1) |-> f[S]]
      OBVIOUS
    <3> HIDE DEF f
    <3> QED BY <2>2, <3>1
  <2>4. k + 1 \in 0 .. n
    OBVIOUS
  <2> HIDE DEF f, IsIter
  <2> QED BY <2>3, <2>4
<1>3. n \in T
  <2> HIDE DEF T
  <2>1. 0 .. n \subseteq T
    BY <1>1, <1>2
  <2> QED BY <2>1
<1>4. IsIter(iter, n)
  <2> HIDE DEF IsIter
  <2> QED BY <1>3
<1>5. Folded(b, s) = iter[1 .. n]
  <2>1. Folded(b, s) = iter[DOMAIN s]
    BY DEF Folded
  <2> QED BY <2>1
<1> HIDE DEF iter, T
<1>6. iter[{}] = b
  BY <1>4
<1>7. ASSUME NEW k \in 1 .. n
      PROVE  iter[1 .. k] = Op(iter[1 .. k - 1], s[k])
  <2>1. 1 .. k \in SUBSET (1 .. n) /\ 1 .. k # {} /\ (1 .. k) \ {k} = 1 .. k - 1
    OBVIOUS
  <2>2. Greatest(1 .. k) = k
    <3>1. k \in 1 .. (k - 1) + 1 /\ k - 1 \in Nat /\ (k - 1) + 1 = k
      OBVIOUS
    <3> QED BY <3>1, GreatestIs
  <2>3. iter[1 .. k] = LET x == Greatest(1 .. k) IN Op(iter[(1 .. k) \ {x}], s[x])
    BY <1>4, <2>1
  <2> QED BY <2>1, <2>2, <2>3
<1>8. g[0] = b
  <2>1. 0 \in 0 .. n /\ 1 .. 0 = {}
    OBVIOUS
  <2> QED BY <2>1, <1>6
<1>9. ASSUME NEW k \in 1 .. n
      PROVE  g[k] = Op(g[k - 1], s[k])
  <2>1. k \in 0 .. n /\ k - 1 \in 0 .. n
    OBVIOUS
  <2>2. g[k] = iter[1 .. k] /\ g[k - 1] = iter[1 .. k - 1]
    BY <2>1
  <2> HIDE DEF g
  <2> QED BY <2>2, <1>7
<1>10. g[n] = iter[1 .. n]
  OBVIOUS
<1> HIDE DEF g, IsIter
<1> QED BY <1>5, <1>8, <1>9, <1>10 DEF Folds
=============================================================================
