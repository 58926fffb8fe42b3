-------------------------- MODULE UiPages_proofs ---------------------------
(***************************************************************************)
(* The upgrade screen, for every set of files with images of any widths.   *)
(*                                                                         *)
(* The parser and the widget are folds and functions, so most of this is   *)
(* about what they return.  Folding gives each fold as a function that     *)
(* goes step by step (SumsFold, ImagesFold, ...), and Induction what holds *)
(* of all its values.  Filed says what the parser has made of an object of *)
(* the file, Viewed what the screen shows of a widget since it was drawn   *)
(* last; setting and drawing keep both.  IInv says that all pages of the   *)
(* file are on the screen or none, with such widgets, and that the live    *)
(* buffers are those that removing them frees.                             *)
(***************************************************************************)
EXTENDS UiPages, TLAPS, FiniteSetTheorems, SequenceTheorems

(* The folds. *)
OnSums == INSTANCE Folding WITH Op <- Plus
OnDigits == INSTANCE Folding WITH Op <- AddDigit
OnImages == INSTANCE Folding WITH Op <- SetImageData
OnObjects == INSTANCE Folding WITH Op <- AddObject
OnPages == INSTANCE Folding WITH Op <- AddPage
OnGlyphs == INSTANCE Folding WITH Op <- AddGlyph
OnAreas == INSTANCE Folding WITH Op <- Beside

-----------------------------------------------------------------------------
(* Induction. *)

(* A set of numbers that is not empty has a least element.                 *)
LEMMA LeastNumber ==
  ASSUME NEW T \in SUBSET Nat, T # {}
  PROVE  \E m \in T : \A n \in T : m <= n
<1> DEFINE Below == {0 .. n : n \in T}
<1>1. Below \subseteq FiniteSubsetsOf(Nat)
  <2>1. \A n \in T : IsFiniteSet(0 .. n)
    BY FS_Interval
  <2> QED BY <2>1 DEF FiniteSubsetsOf
<1>2. Below # {}
  OBVIOUS
<1>3. PICK X \in Below : \A Y \in Below : <<Y, X>> \notin StrictSubsetOrdering(Nat)
  BY <1>1, <1>2, FS_StrictSubsetOrderingWellFounded, WFMin
<1>4. PICK m \in T : X = 0 .. m
  OBVIOUS
<1>5. ASSUME NEW n \in T, n < m
      PROVE  FALSE
  <2>1. 0 .. n \in SUBSET Nat /\ 0 .. m \in SUBSET Nat
    OBVIOUS
  <2>2. 0 .. n \subseteq 0 .. m /\ 0 .. n # 0 .. m
    BY <1>5
  <2>3. <<0 .. n, 0 .. m>> \in StrictSubsetOrdering(Nat)
    BY <2>1, <2>2 DEF StrictSubsetOrdering
  <2> QED BY <1>3, <1>4, <2>3
<1> QED BY <1>5

(* A set that holds 0 and, with a number, also the next, holds all numbers *)
(* up to a bound until which that is so.                                   *)
LEMMA Induction ==
  ASSUME NEW T, NEW n \in Nat, 0 \in T,
         \A k \in 0 .. n - 1 : k \in T => k + 1 \in T
  PROVE  0 .. n \subseteq T
<1> DEFINE Rest == (0 .. n) \ T
<1>1. SUFFICES ASSUME Rest # {} PROVE FALSE
  OBVIOUS
<1>2. PICK m \in Rest : \A k \in Rest : m <= k
  <2>1. Rest \in SUBSET Nat
    OBVIOUS
  <2> HIDE DEF Rest
  <2> QED BY <1>1, <2>1, LeastNumber
<1>3. m # 0 /\ m \in 0 .. n /\ m \notin T
  OBVIOUS
<1>4. m - 1 \in 0 .. n - 1 /\ m - 1 \notin Rest
  BY <1>2, <1>3
<1>5. m - 1 \in T
  BY <1>3, <1>4
<1>6. (m - 1) + 1 \in T
  BY <1>4, <1>5
<1> QED BY <1>3, <1>6

(* The same, for every set at once, as the folds ask for it.               *)
LEMMA NumbersInduct ==
  ASSUME NEW n \in Nat
  PROVE  \A T : 0 \in T /\ (\A k \in 0 .. n - 1 : k \in T => k + 1 \in T) => 0 .. n \subseteq T
BY Induction

(* What a total adds up.                                                   *)
Sums(g, s, n) ==
  /\ g[0] = 0
  /\ \A k \in 1 .. n : g[k] = Plus(g[k - 1], s[k])
  /\ Total(s) = g[n]

LEMMA SumsFold ==
  ASSUME NEW s, NEW n \in Nat, DOMAIN s = 1 .. n
  PROVE  \E g : Sums(g, s, n)
<1> DEFINE b == 0
           t == s
<1>1. PICK g : OnSums!Folds(g, b, t, n)
  <2>1. DOMAIN t = 1 .. n /\ n \in Nat
    OBVIOUS
  <2> QED BY <2>1, NumbersInduct, OnSums!FoldIs, Zenon
<1>2. OnSums!Folded(b, t) = Total(s)
  BY Zenon DEF OnSums!Folded, OnSums!Greatest, FoldLeft, MapThenFoldSet, Max, Total
<1> QED BY <1>1, <1>2, Zenon DEF OnSums!Folds, Sums

(* How digits are read.                                                    *)
Numbers(g, s, n) ==
  /\ g[0] = 0
  /\ \A k \in 1 .. n : g[k] = AddDigit(g[k - 1], s[k])
  /\ Number(s) = g[n]

LEMMA DigitsFold ==
  ASSUME NEW s, NEW n \in Nat, DOMAIN s = 1 .. n
  PROVE  \E g : Numbers(g, s, n)
<1> DEFINE b == 0
           t == s
<1>1. PICK g : OnDigits!Folds(g, b, t, n)
  <2>1. DOMAIN t = 1 .. n /\ n \in Nat
    OBVIOUS
  <2> QED BY <2>1, NumbersInduct, OnDigits!FoldIs, Zenon
<1>2. OnDigits!Folded(b, t) = Number(s)
  BY Zenon DEF OnDigits!Folded, OnDigits!Greatest, FoldLeft, MapThenFoldSet, Max, Number
<1> QED BY <1>1, <1>2, Zenon DEF OnDigits!Folds, Numbers

-----------------------------------------------------------------------------
(* Sums and least numbers. *)

(* Nothing adds up to 0.                                                   *)
LEMMA TotalEmpty ==
  ASSUME NEW s, DOMAIN s = 1 .. 0
  PROVE  Total(s) = 0
<1>1. PICK g : Sums(g, s, 0)
  <2>1. 0 \in Nat
    OBVIOUS
  <2> QED BY <2>1, SumsFold
<1> QED BY <1>1 DEF Sums

(* The sum of natural numbers is one.                                      *)
LEMMA TotalInNat ==
  ASSUME NEW n \in Nat, NEW s \in [1 .. n -> Nat]
  PROVE  Total(s) \in Nat
<1>1. PICK g : Sums(g, s, n)
  <2>1. DOMAIN s = 1 .. n
    OBVIOUS
  <2> QED BY <2>1, SumsFold
<1> DEFINE T == {k \in 0 .. n : g[k] \in Nat}
<1>2. 0 \in T
  BY <1>1 DEF Sums
<1>3. ASSUME NEW k \in 0 .. n - 1, k \in T
      PROVE  k + 1 \in T
  <2>1. k + 1 \in 1 .. n /\ (k + 1) - 1 = k
    OBVIOUS
  <2>2. g[k + 1] = g[k] + s[k + 1]
    BY <1>1, <2>1 DEF Sums, Plus
  <2>3. g[k] \in Nat /\ s[k + 1] \in Nat
    BY <1>3, <2>1
  <2> QED BY <2>1, <2>2, <2>3
<1>4. 0 .. n \subseteq T
  <2> HIDE DEF T
  <2> QED BY <1>2, <1>3, Induction
<1> QED BY <1>1, <1>4 DEF Sums

(* One number more.                                                        *)
LEMMA TotalMore ==
  ASSUME NEW n \in Nat, NEW s, NEW t, DOMAIN s = 1 .. n, DOMAIN t = 1 .. n + 1,
         \A k \in 1 .. n : t[k] = s[k]
  PROVE  Total(t) = Total(s) + t[n + 1]
<1>1. PICK g : Sums(g, s, n)
  BY SumsFold
<1>2. PICK h : Sums(h, t, n + 1)
  <2>1. n + 1 \in Nat
    OBVIOUS
  <2> QED BY <2>1, SumsFold
<1> DEFINE T == {k \in 0 .. n : h[k] = g[k]}
<1>3. 0 \in T
  BY <1>1, <1>2 DEF Sums
<1>4. ASSUME NEW k \in 0 .. n - 1, k \in T
      PROVE  k + 1 \in T
  <2>1. k + 1 \in 1 .. n /\ k + 1 \in 1 .. n + 1 /\ k + 1 \in 0 .. n /\ (k + 1) - 1 = k
    OBVIOUS
  <2>2. h[k + 1] = Plus(h[k], t[k + 1]) /\ g[k + 1] = Plus(g[k], s[k + 1])
    BY <1>1, <1>2, <2>1 DEF Sums
  <2>3. h[k] = g[k] /\ t[k + 1] = s[k + 1]
    BY <1>4, <2>1
  <2> QED BY <2>1, <2>2, <2>3
<1>5. 0 .. n \subseteq T
  <2> HIDE DEF T
  <2> QED BY <1>3, <1>4, Induction
<1>6. h[n + 1] = Plus(h[n], t[n + 1])
  <2>1. n + 1 \in 1 .. n + 1 /\ (n + 1) - 1 = n
    OBVIOUS
  <2> QED BY <1>2, <2>1 DEF Sums
<1>7. h[n] = g[n]
  BY <1>5
<1> QED BY <1>1, <1>2, <1>6, <1>7 DEF Sums, Plus

(* The least number of a set of natural numbers.                           *)
LEMMA MinIs ==
  ASSUME NEW S \in SUBSET Nat, S # {}
  PROVE  Min(S) \in S /\ \A x \in S : Min(S) <= x
BY LeastNumber DEF Min

(* The greatest number of a set of natural numbers with a bound.           *)
LEMMA MaxIs ==
  ASSUME NEW S \in SUBSET Nat, S # {}, NEW b \in Nat, \A x \in S : x <= b
  PROVE  Max(S) \in S /\ \A x \in S : Max(S) >= x
<1> DEFINE B == {c \in Nat : \A x \in S : x <= c}
<1>1. PICK m \in B : \A c \in B : m <= c
  <2>1. B \in SUBSET Nat /\ b \in B
    OBVIOUS
  <2> HIDE DEF B
  <2> QED BY <2>1, LeastNumber
<1>2. m \in Nat /\ \A x \in S : x <= m
  OBVIOUS
<1>3. m \in S
  <2>1. ASSUME m \notin S PROVE FALSE
    <3>1. ASSUME NEW x \in S
          PROVE  x <= m - 1 /\ 0 <= x
      <4>1. x \in Nat /\ x <= m /\ x # m
        BY <1>2, <2>1
      <4> QED BY <1>2, <4>1
    <3>2. m - 1 \in Nat
      <4>1. PICK x \in S : TRUE
        OBVIOUS
      <4> QED BY <1>2, <3>1, <4>1
    <3>3. m - 1 \in B
      BY <3>1, <3>2
    <3>4. m <= m - 1
      BY <1>1, <3>3
    <3> QED BY <1>2, <3>4
  <2> QED BY <2>1
<1> QED BY <1>2, <1>3 DEF Max

-----------------------------------------------------------------------------
(* The widget while its file is parsed. *)

(* What lv_upgrade_t can hold.                                             *)
WidgetRecord ==
  [type : Types, size : Nat, images : Seq(Setting), percent : BOOLEAN,
   digits : [1 .. LV_PROGRESS_DIGIT -> Int], value : Int, rate : Nat,
   src : Setting, frame : Setting, animated : BOOLEAN, width : Nat,
   buffers : Nat, blank : SUBSET (Int \cup {PercentSign}), painted : Seq(Setting)]

(* What the screen shows.                                                  *)
SameView(w, v) ==
  /\ v.digits = w.digits /\ v.value = w.value /\ v.src = w.src
  /\ v.frame = w.frame /\ v.width = w.width /\ v.painted = w.painted

(* The digits without a value. *)
NoDigits == [i \in 1 .. LV_PROGRESS_DIGIT |-> -1]

(* A widget without a value, before its images are read.                   *)
Bare(w) ==
  /\ w \in WidgetRecord
  /\ w.digits = NoDigits /\ w.value = -1
  /\ w.src = None /\ w.frame = None /\ w.width = 0 /\ w.painted = <<>>

Empty(w) ==
  /\ Bare(w) /\ w.size = 0 /\ w.images = <<>>
  /\ w.buffers = IF w.percent THEN 1 ELSE 0

LEMMA CreatedIs == Empty(Created) /\ Created.type = "number" /\ ~Created.percent /\ Created.rate = 30
<1>1. Created \in WidgetRecord
  BY WidgetAssumption DEF Created, WidgetRecord, Types, Setting, LV_PROGRESS_DIGIT
<1> QED BY <1>1 DEF Empty, Bare, Created, NoDigits

(* What no image has been put into gives up one buffer, of the sign.       *)
LEMMA EmptyIsBalanced ==
  ASSUME NEW w, Empty(w)
  PROVE  Destructor(w) = w.buffers
<1>1. {i \in 1 .. w.size : w.images[i] # None} = {}
  BY DEF Empty
<1> QED BY <1>1, FS_EmptySet DEF Destructor, Empty

(* One image more is read for the widget.                                  *)
OneRead(w, v) ==
  /\ v \in WidgetRecord /\ SameView(w, v) /\ v.buffers = w.buffers + 1
  /\ v.type = w.type /\ v.size = w.size /\ v.images = w.images
  /\ v.percent = w.percent /\ v.rate = w.rate

LEMMA ReadImageIs ==
  ASSUME NEW w \in WidgetRecord, NEW image \in Int \cup {PercentSign}, NEW readable
  PROVE  OneRead(w, ReadImage(w, image, readable))
<1> DEFINE v == ReadImage(w, image, readable)
           b == w.buffers + 1
           s == IF readable THEN w.blank ELSE w.blank \cup {image}
<1>1. b \in Nat /\ s \in SUBSET (Int \cup {PercentSign})
  BY DEF WidgetRecord
<1>2. v = [w EXCEPT !.buffers = b, !.blank = s]
  BY DEF ReadImage, WidgetRecord
<1>3. v.buffers = b => v.buffers = w.buffers + 1
  OBVIOUS
<1> HIDE DEF b, s, v
<1>4. /\ v \in WidgetRecord /\ SameView(w, v) /\ v.buffers = b
      /\ v.type = w.type /\ v.size = w.size /\ v.images = w.images
      /\ v.percent = w.percent /\ v.rate = w.rate
  BY <1>1, <1>2 DEF WidgetRecord, SameView
<1>5. OneRead(w, v)
  BY <1>3, <1>4, Zenon DEF OneRead
<1> QED BY <1>5 DEF v

LEMMA WordIs == Word \in Nat /\ Word > 80
BY DEF Word

(* A rate is 0 only where the file says so.                                *)
Paced(rate, o) ==
  /\ rate \in 0 .. Word - 1
  /\ rate = 0 => \E n \in {o.fps, o.radius} \ {None} : n % Word = 0

(* What the parser sets in front of the list of images.                    *)
LEMMA ConfiguredIs ==
  ASSUME NEW o \in UiObject, o.mode \in Types
  PROVE  LET w == Configured(o)
         IN  /\ Empty(w) /\ w.type = o.mode /\ w.percent = o.percent
             /\ Paced(w.rate, o)
<1> DEFINE Ok(w) == /\ Empty(w) /\ w.type = o.mode /\ w.percent = FALSE
                    /\ Paced(w.rate, o)
           typed == SetType(Created, o.mode)
           paced == IF o.fps = None THEN typed ELSE SetFps(typed, o.fps)
           wide == IF o.radius = None THEN paced ELSE SetRadius(paced, o.radius)
<1>1. ASSUME NEW w, Empty(w)
      PROVE  w \in WidgetRecord
  BY <1>1 DEF Empty, Bare
<1>2. ASSUME NEW w, Empty(w), NEW v \in WidgetRecord, SameView(w, v),
             v.size = w.size, v.images = w.images,
             v.percent = w.percent, v.buffers = w.buffers
      PROVE  Empty(v)
  BY <1>2, Zenon DEF Empty, Bare, SameView
<1>3. Ok(typed)
  <2>1. PICK r \in {30, 80} : typed = [Created EXCEPT !.type = o.mode, !.rate = r]
    <3>1. Created.rate = 30
      BY CreatedIs
    <3> QED BY <3>1 DEF SetType
  <2>2. Created \in WidgetRecord /\ Empty(Created) /\ Created.percent = FALSE
    BY CreatedIs, <1>1 DEF Created
  <2>3. /\ typed \in WidgetRecord /\ SameView(Created, typed)
        /\ typed.type = o.mode /\ typed.rate = r
        /\ typed.size = Created.size /\ typed.images = Created.images
        /\ typed.percent = Created.percent /\ typed.buffers = Created.buffers
    <3>1. r \in Nat
      OBVIOUS
    <3> HIDE DEF typed
    <3> QED BY <2>1, <2>2, <3>1 DEF WidgetRecord, SameView
  <2>4. Empty(typed)
    BY <2>2, <2>3, <1>2
  <2>5. Paced(r, o)
    <3>1. r \in 0 .. Word - 1 /\ r # 0
      BY WordIs
    <3> QED BY <3>1, Zenon DEF Paced
  <2> HIDE DEF typed
  <2> QED BY <2>2, <2>3, <2>4, <2>5, Zenon
<1>4. ASSUME NEW w, Ok(w), NEW n \in {o.fps, o.radius} \ {None}
      PROVE  Ok([w EXCEPT !.rate = n % Word])
  <2> DEFINE v == [w EXCEPT !.rate = n % Word]
  <2>1. n \in Int
    BY DEF UiObject, Setting
  <2>2. n % Word \in 0 .. Word - 1
    BY <2>1, WordIs
  <2>3. w \in WidgetRecord
    BY <1>4, <1>1
  <2>4. /\ v \in WidgetRecord /\ SameView(w, v) /\ v.rate = n % Word
        /\ v.type = w.type /\ v.size = w.size /\ v.images = w.images
        /\ v.percent = w.percent /\ v.buffers = w.buffers
    <3> DEFINE r == n % Word
    <3>1. r \in Nat
      BY <2>2
    <3>2. v = [w EXCEPT !.rate = r]
      OBVIOUS
    <3>3. v.rate = r => v.rate = n % Word
      OBVIOUS
    <3> HIDE DEF r, v
    <3> QED BY <2>3, <3>1, <3>2, <3>3 DEF WidgetRecord, SameView
  <2>5. Empty(v)
    BY <1>4, <2>4, <1>2
  <2>6. Paced(n % Word, o)
    BY <2>2, Zenon DEF Paced
  <2> HIDE DEF v
  <2>7. Ok(v)
    BY <1>4, <2>4, <2>5, <2>6, Zenon
  <2> QED BY <2>7 DEF v
<1>5. Ok(paced)
  BY <1>3, <1>4, Zenon DEF SetFps
<1>6. Ok(wide)
  <2>1. CASE o.radius = None
    BY <1>5, <2>1, Zenon
  <2>2. CASE o.radius # None
    <3>1. wide = IF UseArc THEN [paced EXCEPT !.rate = o.radius % Word] ELSE paced
      BY <2>2, Zenon DEF SetRadius
    <3> HIDE DEF paced, wide
    <3> QED BY <1>4, <1>5, <2>2, <3>1, Zenon
  <2> QED BY <2>1, <2>2
<1>7. Configured(o) = IF o.percent THEN SetPercentSign(wide, PercentSign \notin o.unread) ELSE wide
  BY Zenon DEF Configured
<1> HIDE DEF wide, paced, typed
<1>8. CASE ~o.percent
  BY <1>6, <1>7, <1>8 DEF UiObject
<1>9. CASE o.percent
  <2> DEFINE signed == [wide EXCEPT !.percent = TRUE]
             v == Configured(o)
             readable == PercentSign \notin o.unread
  <2>1. /\ signed \in WidgetRecord /\ SameView(wide, signed) /\ signed.percent = TRUE
        /\ signed.type = wide.type /\ signed.size = wide.size
        /\ signed.images = wide.images
        /\ signed.rate = wide.rate /\ signed.buffers = wide.buffers
    <3>1. wide \in WidgetRecord
      BY <1>1, <1>6
    <3> QED BY <3>1 DEF WidgetRecord, SameView
  <2>2. v = ReadImage(signed, PercentSign, readable)
    BY <1>7, <1>9, Zenon DEF SetPercentSign
  <2> HIDE DEF signed, v, readable
  <2>3. OneRead(signed, v)
    <3>1. PercentSign \in Int \cup {PercentSign} /\ signed \in WidgetRecord
      BY <2>1
    <3> QED BY <2>2, <3>1, ReadImageIs, Zenon
  <2>4. wide.buffers = 0
    BY <1>6 DEF Empty
  <2>5. Empty(v)
    BY <1>6, <2>1, <2>3, <2>4 DEF Empty, Bare, SameView, OneRead
  <2>6. o.percent = TRUE
    BY <1>9 DEF UiObject
  <2>7. v.type = o.mode /\ v.percent = o.percent
    BY <1>6, <2>1, <2>3, <2>6 DEF OneRead
  <2>8. v.rate = wide.rate
    BY <2>1, <2>3 DEF OneRead
  <2>9. v = Configured(o)
    BY DEF v
  <2> QED BY <1>6, <2>5, <2>7, <2>8, <2>9
<1> QED BY <1>8, <1>9 DEF UiObject

(* The number of keys that are read.                                       *)
LEMMA KeysReadIs ==
  ASSUME NEW o \in UiObject
  PROVE  /\ Len(KeysRead(o)) \in 0 .. Len(o.keys)
         /\ o.mode = "number" => \A i \in 1 .. Len(KeysRead(o)) : o.keys[i] = i - 1
         /\ o.mode # "number" => Len(KeysRead(o)) = Len(o.keys)
<1> DEFINE n == Len(o.keys)
<1>1. o.keys \in Seq(Int) /\ n \in Nat
  BY LenProperties DEF UiObject
<1>2. CASE o.mode # "number"
  <2>1. KeysRead(o) = o.keys
    BY <1>2, Zenon DEF KeysRead
  <2> QED BY <1>1, <1>2, <2>1
<1>3. CASE o.mode = "number"
  <2> DEFINE S == {i \in 1 .. n : o.keys[i] # i - 1} \cup {n + 1}
             m == Min(S)
  <2>1. S \in SUBSET Nat /\ n + 1 \in S
    BY <1>1
  <2>2. m \in S /\ \A x \in S : m <= x
    <3> HIDE DEF S
    <3> QED BY <2>1, MinIs
  <2>3. m \in 1 .. n + 1
    BY <1>1, <2>2
  <2>4. \A i \in 1 .. m - 1 : o.keys[i] = i - 1
    <3>1. SUFFICES ASSUME NEW i \in 1 .. m - 1, o.keys[i] # i - 1
                   PROVE  FALSE
      OBVIOUS
    <3>2. i \in S
      BY <1>1, <2>3, <3>1
    <3>3. m <= i
      BY <2>2, <3>2
    <3> QED BY <2>3, <3>3
  <2>5. KeysRead(o) = SubSeq(o.keys, 1, m - 1)
    BY <1>3 DEF KeysRead
  <2>6. Len(KeysRead(o)) = m - 1
    <3> HIDE DEF m, S
    <3>1. m - 1 \in 0 .. n /\ m - 1 \in Int
      BY <1>1, <2>3
    <3>2. Len(SubSeq(o.keys, 1, m - 1)) = m - 1
      BY <1>1, <3>1, SubSeqProperties
    <3> QED BY <2>5, <3>2
  <2> HIDE DEF m, S
  <2> QED BY <1>1, <1>3, <2>3, <2>4, <2>6
<1> QED BY <1>2, <1>3

(* Eight bits of a number.                                                 *)
LEMMA FullIs ==
  ASSUME NEW n \in Nat
  PROVE  n % Full \in 0 .. Full - 1 /\ n % Full <= n /\ n % Full \in Nat
<1>1. Full \in Nat /\ Full > 1
  BY WidgetAssumption
<1>2. n % Full \in 0 .. Full - 1
  BY <1>1
<1>3. CASE n < Full
  <2>1. n % Full = n
    BY <1>1, <1>3
  <2> QED BY <1>2, <2>1
<1>4. CASE n >= Full
  BY <1>1, <1>2, <1>4
<1> QED BY <1>1, <1>2, <1>3, <1>4

(* The first m positions hold the first m keys.                            *)
Filled(images, keys, m) ==
  /\ images \in Seq(Setting) /\ Len(images) = Len(keys)
  /\ \A i \in 1 .. Len(keys) : images[i] = IF i <= m THEN keys[i] ELSE None

(* The widget with its table, in which there are m images.                 *)
Table(w, o, m) ==
  /\ w \in WidgetRecord
  /\ w.type = o.mode /\ w.percent = o.percent /\ Paced(w.rate, o)
  /\ w.size = Len(o.keys) % Full
  /\ m \in 0 .. w.size /\ Filled(w.images, o.keys, m)
  /\ w.buffers = IF o.percent THEN m + 1 ELSE m

(* The free position is behind the images.                                 *)
LEMMA PositionIs ==
  ASSUME NEW o \in UiObject, NEW w, NEW m, Table(w, o, m), NEW k \in Nat,
         k + 1 \in 1 .. Len(KeysRead(o)),
         m = k \/ (m = w.size /\ m <= k)
  PROVE  LET i == Position(w, o.keys[k + 1])
         IN  i \in Nat /\ (i < w.size => i = m) /\ (m < w.size => i = m)
<1>1. /\ w.size \in Nat /\ m \in Nat /\ m <= w.size /\ w.size <= Len(o.keys)
      /\ Len(o.keys) \in Nat
  <2> DEFINE n == Len(o.keys)
  <2>1. n \in Nat
    BY LenProperties DEF UiObject
  <2>2. w.size = Len(o.keys) % Full /\ m \in 0 .. w.size
    BY DEF Table
  <2>3. n % Full \in Nat /\ n % Full <= n
    <3> HIDE DEF n
    <3> QED BY <2>1, FullIs
  <2> QED BY <2>1, <2>2, <2>3
<1>2. CASE o.mode = "number"
  <2>1. Position(w, o.keys[k + 1]) = o.keys[k + 1]
    BY <1>2 DEF Position, Table
  <2>2. o.keys[k + 1] = (k + 1) - 1
    BY <1>2, KeysReadIs
  <2> QED BY <1>1, <2>1, <2>2
<1>3. CASE o.mode # "number"
  <2> DEFINE S == {i \in 0 .. w.size : i = w.size \/ w.images[i + 1] = None}
             p == Min(S)
  <2>1. Position(w, o.keys[k + 1]) = p
    BY <1>3 DEF Position, Table
  <2>2. S \in SUBSET Nat /\ w.size \in S
    BY <1>1
  <2>3. p \in S /\ \A x \in S : p <= x
    <3> HIDE DEF S
    <3> QED BY <2>2, MinIs
  <2>4. p \in 0 .. w.size
    BY <2>3
  <2>5. m \in S
    <3>1. CASE m = w.size
      BY <2>2, <3>1
    <3>2. CASE m < w.size
      <4>1. m + 1 \in 1 .. Len(o.keys) /\ ~(m + 1 <= m)
        BY <1>1, <3>2
      <4>2. w.images[m + 1] = None
        BY <4>1 DEF Table, Filled
      <4> QED BY <1>1, <3>2, <4>2
    <3> QED BY <1>1, <3>1, <3>2
  <2>6. ASSUME p < m PROVE FALSE
    <3>1. p + 1 \in 1 .. Len(o.keys) /\ p + 1 <= m
      BY <1>1, <2>4, <2>6
    <3>2. w.images[p + 1] = o.keys[p + 1]
      BY <3>1 DEF Table, Filled
    <3>3. o.keys[p + 1] \in Int
      BY <3>1, ElementOfSeq DEF UiObject
    <3>4. p = w.size \/ w.images[p + 1] = None
      BY <2>3
    <3> QED BY <1>1, <2>4, <2>6, <3>2, <3>3, <3>4, WidgetAssumption
  <2>7. p <= m
    BY <2>3, <2>5
  <2> HIDE DEF p
  <2> QED BY <1>1, <2>1, <2>4, <2>6, <2>7
<1> QED BY <1>2, <1>3

(* The table of a configured widget is empty.                              *)
LEMMA TableStart ==
  ASSUME NEW o \in UiObject, o.mode \in Types
  PROVE  LET w == SetArraySize(Configured(o), Len(o.keys))
         IN  Table(w, o, 0) /\ Bare(w)
<1> DEFINE c == Configured(o)
           n == Len(o.keys)
           w == SetArraySize(c, n)
<1>1. Empty(c) /\ c.type = o.mode /\ c.percent = o.percent /\ Paced(c.rate, o)
  BY ConfiguredIs
<1>2. c \in WidgetRecord /\ Bare(c) /\ c.size = 0 /\ c.images = <<>>
      /\ c.buffers = IF o.percent THEN 1 ELSE 0
  BY <1>1 DEF Empty, Bare
<1>3. n \in Nat /\ n % Full \in Nat /\ n % Full <= n
  <2>1. n \in Nat
    BY LenProperties DEF UiObject
  <2> HIDE DEF n
  <2> QED BY <2>1, FullIs
<1> HIDE DEF c
<1>4. CASE n = 0
  <2>1. w = c
    BY <1>2, <1>4 DEF SetArraySize
  <2>2. n % Full = 0
    BY <1>3, <1>4
  <2>3. Filled(c.images, o.keys, 0)
    BY <1>2, <1>4 DEF Filled
  <2> HIDE DEF w, n
  <2>4. c.size = n % Full /\ 0 \in 0 .. c.size
    BY <1>2, <2>2
  <2>5. c.buffers = IF o.percent THEN 0 + 1 ELSE 0
    BY <1>2
  <2>6. c.size = Len(o.keys) % Full
    BY <2>4 DEF n
  <2>7. Table(c, o, 0)
    BY <1>1, <1>2, <2>3, <2>4, <2>5, <2>6, Zenon DEF Table
  <2>8. w = SetArraySize(Configured(o), Len(o.keys))
    BY DEF w, c, n
  <2> QED BY <1>2, <2>1, <2>7, <2>8
<1>5. CASE n # 0
  <2> DEFINE size == n % Full
             images == [i \in 1 .. n |-> None]
  <2>1. w = [c EXCEPT !.size = size, !.images = images]
    BY <1>2, <1>3, <1>5 DEF SetArraySize
  <2>2. images \in Seq(Setting) /\ Len(images) = n
        /\ \A i \in 1 .. n : images[i] = None
    BY <1>3 DEF Setting
  <2>3. size \in Nat /\ 0 \in 0 .. size
    BY <1>3
  <2>4. size = Len(o.keys) % Full /\ n = Len(o.keys)
    OBVIOUS
  <2>5. w = SetArraySize(Configured(o), Len(o.keys))
    BY DEF c
  <2> HIDE DEF size, images, w, n
  <2>6. /\ w \in WidgetRecord /\ SameView(c, w)
        /\ w.type = c.type /\ w.size = size /\ w.images = images
        /\ w.percent = c.percent /\ w.rate = c.rate /\ w.buffers = c.buffers
    BY <1>2, <2>1, <2>2, <2>3 DEF WidgetRecord, SameView
  <2>7. Filled(w.images, o.keys, 0)
    <3>1. \A i \in 1 .. Len(o.keys) : ~(i <= 0)
      BY <1>3, <2>4
    <3> QED BY <2>2, <2>4, <2>6, <3>1 DEF Filled
  <2>8. w.buffers = IF o.percent THEN 0 + 1 ELSE 0
    BY <1>2, <2>6
  <2>9. Bare(w)
    BY <1>2, <2>6, Zenon DEF Bare, SameView
  <2>10. w.size = Len(o.keys) % Full /\ 0 \in 0 .. w.size
    BY <2>3, <2>4, <2>6
  <2>11. Table(w, o, 0)
    <3>1. w.type = o.mode /\ w.percent = o.percent /\ Paced(w.rate, o)
      BY <1>1, <2>6
    <3> QED BY <2>6, <2>7, <2>8, <2>10, <3>1, Zenon DEF Table
  <2> QED BY <2>5, <2>9, <2>11
<1> QED BY <1>4, <1>5

(* Another image goes to the free position, or nowhere.                    *)
LEMMA TableStep ==
  ASSUME NEW o \in UiObject, NEW w, NEW m, Table(w, o, m), Bare(w), NEW k \in Nat,
         k + 1 \in 1 .. Len(KeysRead(o)),
         m = k \/ (m = w.size /\ m <= k), NEW readable
  PROVE  LET v == SetImageData(w, [key |-> o.keys[k + 1], readable |-> readable])
             n == IF m < w.size THEN k + 1 ELSE m
         IN  Table(v, o, n) /\ Bare(v)
<1> DEFINE key == o.keys[k + 1]
           i == Position(w, key)
           v == SetImageData(w, [key |-> key, readable |-> readable])
           placed == [w EXCEPT !.images[i + 1] = key]
<1>1. i \in Nat /\ (i < w.size => i = m) /\ (m < w.size => i = m)
  BY PositionIs
<1>2. v = IF i >= w.size THEN w ELSE ReadImage(placed, key, readable)
  BY Zenon DEF SetImageData
<1>3. w.size \in Nat /\ m \in Nat /\ m <= w.size /\ w.size <= Len(o.keys)
      /\ Len(o.keys) \in Nat /\ w \in WidgetRecord
  <2> DEFINE n == Len(o.keys)
  <2>1. n \in Nat
    BY LenProperties DEF UiObject
  <2>2. w.size = n % Full /\ m \in 0 .. w.size /\ w \in WidgetRecord
    BY DEF Table
  <2>3. n % Full \in Nat /\ n % Full <= n
    <3> HIDE DEF n
    <3> QED BY <2>1, FullIs
  <2> QED BY <2>1, <2>2, <2>3
<1>4. v = SetImageData(w, [key |-> o.keys[k + 1], readable |-> readable])
  OBVIOUS
<1> HIDE DEF i, v
<1>5. CASE m = w.size
  <2>1. i >= w.size
    BY <1>1, <1>3, <1>5
  <2>2. v = w /\ ~(m < w.size)
    BY <1>2, <1>3, <1>5, <2>1
  <2> QED BY <1>4, <2>2
<1>6. CASE m < w.size
  <2>1. i = m /\ m = k /\ ~(i >= w.size)
    BY <1>1, <1>3, <1>6
  <2>2. v = ReadImage(placed, key, readable)
    BY <1>2, <2>1
  <2>3. key \in Int /\ k + 1 \in 1 .. Len(o.keys)
    <3>1. k + 1 \in 1 .. Len(o.keys)
      BY <1>3, <1>6, <2>1
    <3> QED BY <3>1, ElementOfSeq DEF UiObject
  <2> DEFINE images == [w.images EXCEPT ![k + 1] = key]
  <2>4. Filled(images, o.keys, k + 1)
    <3>1. Filled(w.images, o.keys, k)
      BY <2>1 DEF Table
    <3>2. w.images \in Seq(Setting) /\ Len(w.images) = Len(o.keys) /\ key \in Setting
      BY <2>3, <3>1 DEF Filled, Setting
    <3>3. images \in Seq(Setting) /\ Len(images) = Len(o.keys)
      BY <2>3, <3>2, ExceptSeq
    <3>4. \A j \in 1 .. Len(o.keys) : images[j] = IF j = k + 1 THEN key ELSE w.images[j]
      BY <1>3, <3>2
    <3>5. \A j \in 1 .. Len(o.keys) : w.images[j] = IF j <= k THEN o.keys[j] ELSE None
      BY <3>1 DEF Filled
    <3> HIDE DEF images
    <3>6. ASSUME NEW j \in 1 .. Len(o.keys)
          PROVE  images[j] = IF j <= k + 1 THEN o.keys[j] ELSE None
      <4>1. CASE j = k + 1
        BY <3>4, <4>1
      <4>2. CASE j # k + 1
        <5>1. j <= k <=> j <= k + 1
          BY <1>3, <4>2
        <5> QED BY <3>4, <3>5, <4>2, <5>1
      <4> QED BY <4>1, <4>2
    <3> QED BY <3>3, <3>6 DEF Filled
  <2>5. placed = [w EXCEPT !.images = images]
    BY <2>1, <1>3 DEF WidgetRecord
  <2>6. images \in Seq(Setting)
    BY <2>4 DEF Filled
  <2> HIDE DEF placed, images
  <2>7. /\ placed \in WidgetRecord /\ SameView(w, placed)
        /\ placed.type = w.type /\ placed.size = w.size /\ placed.images = images
        /\ placed.percent = w.percent /\ placed.rate = w.rate
        /\ placed.buffers = w.buffers
    BY <1>3, <2>5, <2>6 DEF WidgetRecord, SameView
  <2>8. OneRead(placed, v)
    <3>1. key \in Int \cup {PercentSign} /\ placed \in WidgetRecord
      BY <2>3, <2>7
    <3> HIDE DEF key
    <3> QED BY <2>2, <3>1, ReadImageIs, Zenon
  <2>9. v \in WidgetRecord /\ SameView(placed, v) /\ v.buffers = w.buffers + 1
        /\ v.type = w.type /\ v.size = w.size /\ v.images = images
        /\ v.percent = w.percent /\ v.rate = w.rate
    BY <2>7, <2>8 DEF OneRead
  <2>10. Bare(v)
    BY <2>7, <2>9, Zenon DEF Bare, SameView
  <2>11. Table(v, o, k + 1)
    <3>1. v.type = o.mode /\ v.percent = o.percent /\ Paced(v.rate, o)
          /\ v.size = Len(o.keys) % Full
      BY <2>9 DEF Table
    <3>2. k + 1 \in 0 .. v.size
      BY <1>3, <1>6, <2>1, <2>9
    <3>3. v.buffers = IF o.percent THEN (k + 1) + 1 ELSE k + 1
      BY <2>1, <2>9 DEF Table
    <3>4. Filled(v.images, o.keys, k + 1)
      BY <2>4, <2>9
    <3> QED BY <2>9, <3>1, <3>2, <3>3, <3>4, Zenon DEF Table
  <2> QED BY <1>4, <1>6, <2>10, <2>11
<1> QED BY <1>3, <1>5, <1>6

(* How the images are read.                                                *)
ImagesRead(g, o, n) ==
  /\ g[0] = SetArraySize(Configured(o), Len(o.keys))
  /\ \A k \in 1 .. n :
       g[k] = SetImageData(g[k - 1], [key |-> o.keys[k], readable |-> o.keys[k] \notin o.unread])
  /\ WithImages(o) = g[n]

LEMMA ImagesFold ==
  ASSUME NEW o \in UiObject
  PROVE  \E g : ImagesRead(g, o, Len(KeysRead(o)))
<1> DEFINE n == Len(KeysRead(o))
           b == SetArraySize(Configured(o), Len(o.keys))
           t == [k \in 1 .. Len(KeysRead(o)) |->
                   [key |-> o.keys[k], readable |-> o.keys[k] \notin o.unread]]
<1>1. n \in Nat /\ DOMAIN t = 1 .. n
  <2>1. n \in 0 .. Len(o.keys) /\ Len(o.keys) \in Nat
    BY KeysReadIs, LenProperties DEF UiObject
  <2> QED BY <2>1
<1>2. PICK g : OnImages!Folds(g, b, t, n)
  <2> HIDE DEF b, t, n
  <2> QED BY <1>1, NumbersInduct, OnImages!FoldIs, Zenon
<1>3. OnImages!Folded(b, t) = WithImages(o)
  BY Zenon DEF OnImages!Folded, OnImages!Greatest, FoldLeft, MapThenFoldSet, Max, WithImages
<1>4. \A k \in 1 .. n : t[k] = [key |-> o.keys[k], readable |-> o.keys[k] \notin o.unread]
  BY Zenon
<1> QED BY <1>2, <1>3, <1>4, Zenon DEF OnImages!Folds, ImagesRead

(* A widget as the parser leaves it: the first m keys have their images,   *)
(* outside number mode as many as the table has positions.                 *)
Filed(w, o) ==
  \E m \in Nat : Table(w, o, m) /\ (o.mode # "number" => m = w.size)

LEMMA WithImagesIs ==
  ASSUME NEW o \in UiObject, o.mode \in Types
  PROVE  Filed(WithImages(o), o) /\ Bare(WithImages(o))
<1> DEFINE n == Len(KeysRead(o))
<1>1. n \in Nat /\ n <= Len(o.keys) /\ Len(o.keys) \in Nat
      /\ (o.mode # "number" => n = Len(o.keys))
  <2>1. n \in 0 .. Len(o.keys) /\ Len(o.keys) \in Nat
        /\ (o.mode # "number" => n = Len(o.keys))
    BY KeysReadIs, LenProperties DEF UiObject
  <2> QED BY <2>1
<1>2. PICK g : ImagesRead(g, o, n)
  BY ImagesFold
<1> DEFINE At(k, m) == /\ Table(g[k], o, m) /\ Bare(g[k])
                       /\ m = k \/ (m = g[k].size /\ m <= k)
           T == {k \in 0 .. n : \E m \in Nat : At(k, m)}
<1>3. 0 \in T
  <2>1. Table(g[0], o, 0) /\ Bare(g[0])
    BY <1>2, TableStart, Zenon DEF ImagesRead
  <2>2. At(0, 0)
    BY <2>1
  <2>3. 0 \in 0 .. n /\ 0 \in Nat
    BY <1>1
  <2> HIDE DEF At
  <2> QED BY <2>2, <2>3
<1>4. ASSUME NEW k \in 0 .. n - 1, k \in T
      PROVE  k + 1 \in T
  <2>1. PICK m \in Nat : At(k, m)
    <3> HIDE DEF At
    <3> QED BY <1>4
  <2> DEFINE w == g[k]
             v == g[k + 1]
             l == IF m < w.size THEN k + 1 ELSE m
             readable == o.keys[k + 1] \notin o.unread
  <2>2. k \in Nat /\ k + 1 \in 1 .. n /\ (k + 1) - 1 = k /\ k + 1 \in 0 .. n
    BY <1>1
  <2>3. v = SetImageData(w, [key |-> o.keys[k + 1], readable |-> readable])
    <3>1. v = SetImageData(g[(k + 1) - 1],
                           [key |-> o.keys[k + 1], readable |-> readable])
      BY <1>2, <2>2, Zenon DEF ImagesRead
    <3> QED BY <2>2, <3>1
  <2>4. Table(w, o, m) /\ Bare(w) /\ (m = k \/ (m = w.size /\ m <= k))
    BY <2>1
  <2>5. Table(v, o, l) /\ Bare(v)
    <3>1. k + 1 \in 1 .. Len(KeysRead(o))
      BY <2>2
    <3> HIDE DEF w, v, readable
    <3> QED BY <2>2, <2>3, <2>4, <3>1, TableStep, Zenon
  <2>6. v.size = w.size
    BY <2>4, <2>5 DEF Table
  <2>7. w.size \in Nat /\ m \in 0 .. w.size
    BY <2>4 DEF Table, WidgetRecord
  <2>8. l \in Nat /\ (l = k + 1 \/ (l = v.size /\ l <= k + 1))
    <3> HIDE DEF v, w
    <3> QED BY <2>2, <2>4, <2>6, <2>7
  <2>9. At(k + 1, l)
    <3> HIDE DEF l
    <3> QED BY <2>5, <2>8
  <2> HIDE DEF At, l
  <2> QED BY <2>2, <2>8, <2>9
<1>5. n \in T
  <2> HIDE DEF T
  <2>1. 0 .. n \subseteq T
    BY <1>1, <1>3, <1>4, Induction
  <2> QED BY <1>1, <2>1
<1>6. PICK m \in Nat : At(n, m)
  <2> HIDE DEF At
  <2> QED BY <1>5
<1>7. WithImages(o) = g[n]
  BY <1>2 DEF ImagesRead
<1>8. o.mode # "number" => m = g[n].size
  <2>1. g[n].size = Len(o.keys) % Full /\ m \in 0 .. g[n].size
    BY <1>6 DEF Table
  <2> DEFINE c == Len(o.keys)
  <2>2. c % Full \in Nat /\ c % Full <= c
    <3>1. c \in Nat
      BY <1>1
    <3> HIDE DEF c
    <3> QED BY <3>1, FullIs
  <2>3. m = n \/ m = g[n].size
    BY <1>6
  <2> QED BY <1>1, <2>1, <2>2, <2>3
<1>9. Filed(g[n], o)
  BY <1>6, <1>8, Zenon DEF Filed
<1> QED BY <1>6, <1>7, <1>9

(* Each image read is freed: the table holds as many as there are buffers. *)
LEMMA TableIsBalanced ==
  ASSUME NEW o \in UiObject, NEW w, NEW m \in Nat, Table(w, o, m)
  PROVE  Destructor(w) = w.buffers
<1>1. /\ w.size \in Nat /\ m <= w.size /\ w.size <= Len(o.keys)
      /\ Len(o.keys) \in Nat
  <2> DEFINE n == Len(o.keys)
  <2>1. n \in Nat
    BY LenProperties DEF UiObject
  <2>2. w.size = n % Full /\ m \in 0 .. w.size
    BY DEF Table
  <2>3. n % Full \in Nat /\ n % Full <= n
    <3> HIDE DEF n
    <3> QED BY <2>1, FullIs
  <2> QED BY <2>1, <2>2, <2>3
<1>2. {i \in 1 .. w.size : w.images[i] # None} = 1 .. m
  <2>1. ASSUME NEW i \in 1 .. w.size
        PROVE  w.images[i] # None <=> i \in 1 .. m
    <3>1. i \in 1 .. Len(o.keys)
      BY <1>1
    <3>2. w.images[i] = IF i <= m THEN o.keys[i] ELSE None
      BY <3>1 DEF Table, Filled
    <3>3. o.keys[i] # None
      <4>1. o.keys[i] \in Int
        BY <3>1, ElementOfSeq DEF UiObject
      <4> QED BY <4>1, WidgetAssumption
    <3> QED BY <1>1, <3>2, <3>3
  <2> QED BY <1>1, <2>1
<1>3. Cardinality(1 .. m) = m
  BY FS_Interval
<1>4. w.percent = o.percent /\ w.buffers = IF o.percent THEN m + 1 ELSE m
  BY DEF Table
<1>5. Destructor(w) = m + IF w.percent THEN 1 ELSE 0
  BY <1>2, <1>3, Zenon DEF Destructor
<1> QED BY <1>4, <1>5

-----------------------------------------------------------------------------
(* The value and its digits. *)

(* The number of digits of a percentage.                                   *)
Digits(v) == IF v < 10 THEN 1 ELSE IF v < 100 THEN 2 ELSE 3

LEMMA DigitsAre ==
  ASSUME NEW v \in 0 .. 100
  PROVE  LET d == DigitsOf(v)
         IN  /\ DOMAIN d = 1 .. 3
             /\ d[1] = v % 10
             /\ d[2] = IF v < 10 THEN -1 ELSE (v \div 10) % 10
             /\ d[3] = IF v < 100 THEN -1 ELSE 1
             /\ \A i \in 1 .. 3 : d[i] \in -1 .. 9
             /\ \A i \in 1 .. 3 : i <= Digits(v) <=> d[i] >= 0
<1> DEFINE d == DigitsOf(v)
<1>1. v \div 1 = v /\ (v \div 10 > 0 <=> v >= 10) /\ (v \div 100 > 0 <=> v >= 100)
      /\ (v = 100 => (v \div 100) % 10 = 1)
      /\ v % 10 \in 0 .. 9 /\ (v \div 10) % 10 \in 0 .. 9
  OBVIOUS
<1>2. Unit[1] = 1 /\ Unit[2] = 10 /\ Unit[3] = 100 /\ LV_PROGRESS_DIGIT = 3
  BY DEF Unit, LV_PROGRESS_DIGIT
<1>3. d = [i \in 1 .. 3 |-> IF i = 1 \/ v \div Unit[i] > 0 THEN (v \div Unit[i]) % 10 ELSE -1]
  BY <1>2, Zenon DEF DigitsOf
<1> HIDE DEF d
<1>4. DOMAIN d = 1 .. 3
  BY <1>3
<1>5. d[1] = v % 10
  BY <1>1, <1>2, <1>3
<1>6. d[2] = IF v < 10 THEN -1 ELSE (v \div 10) % 10
  BY <1>1, <1>2, <1>3
<1>7. d[3] = IF v < 100 THEN -1 ELSE 1
  <2>1. d[3] = IF v \div 100 > 0 THEN (v \div 100) % 10 ELSE -1
    BY <1>2, <1>3
  <2>2. v < 100 \/ v = 100
    OBVIOUS
  <2> QED BY <1>1, <2>1, <2>2
<1>8. \A i \in 1 .. 3 : i = 1 \/ i = 2 \/ i = 3
  OBVIOUS
<1>9. \A i \in 1 .. 3 : d[i] \in -1 .. 9
  BY <1>1, <1>5, <1>6, <1>7, <1>8
<1>10. \A i \in 1 .. 3 : i <= Digits(v) <=> d[i] >= 0
  BY <1>1, <1>5, <1>6, <1>7, <1>8 DEF Digits
<1> QED BY <1>4, <1>5, <1>6, <1>7, <1>9, <1>10 DEF d

(* The digits of a value in front of the first -1.                         *)
LEMMA UsedIs ==
  ASSUME NEW v \in 0 .. 100, NEW w, w.digits = DigitsOf(v)
  PROVE  /\ UsedDigits(w) \in Seq(0 .. 9) /\ Len(UsedDigits(w)) = Digits(v)
         /\ \A i \in 1 .. Digits(v) : UsedDigits(w)[i] = DigitsOf(v)[i]
<1> DEFINE d == DigitsOf(v)
           n == Digits(v)
           S == {i \in 0 .. 3 : i = 3 \/ d[i + 1] < 0}
           u == UsedDigits(w)
<1>1. /\ DOMAIN d = 1 .. 3 /\ \A i \in 1 .. 3 : d[i] \in -1 .. 9
      /\ \A i \in 1 .. 3 : i <= n <=> d[i] >= 0
  BY DigitsAre
<1>2. n \in 1 .. 3
  BY DEF Digits
<1>3. u = SubSeq(d, 1, Min(S))
  BY Zenon DEF UsedDigits, LV_PROGRESS_DIGIT
<1>4. d = [i \in 1 .. 3 |-> d[i]]
  BY DEF DigitsOf, LV_PROGRESS_DIGIT
<1> HIDE DEF d, n, u
<1>5. d \in Seq(-1 .. 9) /\ Len(d) = 3
  BY <1>1, <1>4
<1>6. Min(S) = n
  <2>1. S \in SUBSET Nat /\ n \in S
    <3>1. n < 3 => d[n + 1] < 0
      <4>1. SUFFICES ASSUME n < 3 PROVE d[n + 1] < 0
        OBVIOUS
      <4>2. n + 1 \in 1 .. 3 /\ ~(n + 1 <= n)
        BY <1>2, <4>1
      <4> QED BY <1>1, <4>2
    <3> QED BY <1>2, <3>1
  <2>2. Min(S) \in S /\ Min(S) <= n
    <3> HIDE DEF S
    <3> QED BY <2>1, MinIs
  <2>3. ASSUME NEW i \in S, i < n
        PROVE  FALSE
    <3>1. i + 1 \in 1 .. 3 /\ i + 1 <= n /\ i # 3 /\ d[i + 1] < 0
      BY <1>2, <2>3
    <3> QED BY <1>1, <3>1
  <2>4. Min(S) \in 0 .. 3
    BY <2>2
  <2> HIDE DEF S
  <2> QED BY <1>2, <2>2, <2>3, <2>4
<1> HIDE DEF S
<1>7. u = SubSeq(d, 1, n)
  BY <1>3, <1>6
<1>8. Len(u) = n /\ \A i \in 1 .. n : u[i] = d[i]
  BY <1>2, <1>5, <1>7
<1>9. u \in Seq(0 .. 9)
  <2>1. u = [i \in 1 .. n |-> d[i]]
    BY <1>2, <1>5, <1>7
  <2>2. \A i \in 1 .. n : d[i] \in 0 .. 9
    BY <1>1, <1>2
  <2> QED BY <1>2, <2>1, <2>2
<1> QED BY <1>8, <1>9 DEF d, n, u

(* The digits of a value, read from the front, are the value, and begin    *)
(* with 0 for 0 only.                                                      *)
LEMMA ValueIsRead ==
  ASSUME NEW v \in 0 .. 100, NEW s, DOMAIN s = 1 .. Digits(v),
         \A i \in 1 .. Digits(v) : s[i] = DigitsOf(v)[Digits(v) - i + 1]
  PROVE  Number(s) = v /\ (s[1] = 0 => v = 0)
<1> DEFINE d == DigitsOf(v)
           n == Digits(v)
<1>1. /\ d[1] = v % 10
      /\ d[2] = IF v < 10 THEN -1 ELSE (v \div 10) % 10
      /\ d[3] = IF v < 100 THEN -1 ELSE 1
      /\ \A i \in 1 .. 3 : d[i] \in -1 .. 9
  BY DigitsAre
<1> HIDE DEF d
<1>2. n \in 1 .. 3
  BY DEF Digits
<1>3. PICK g : Numbers(g, s, n)
  <2> HIDE DEF n
  <2>1. n \in Nat /\ DOMAIN s = 1 .. n
    BY <1>2 DEF n
  <2> QED BY <2>1, DigitsFold
<1>4. \A k \in 1 .. n : g[k] = 10 * g[k - 1] + d[n - k + 1]
  <2>1. \A k \in 1 .. n : g[k] = 10 * g[k - 1] + s[k]
    BY <1>3 DEF Numbers, AddDigit
  <2> QED BY <2>1 DEF d
<1>5. g[0] = 0 /\ Number(s) = g[n]
  BY <1>3 DEF Numbers
<1>6. s[1] = d[n]
  BY <1>2 DEF d
<1>7. CASE v < 10
  <2>1. n = 1 /\ d[1] = v
    BY <1>1, <1>7 DEF Digits
  <2>2. g[1] = 10 * g[0] + d[1]
    <3>1. 1 \in 1 .. n /\ n - 1 + 1 = 1 /\ 1 - 1 = 0
      BY <2>1
    <3> QED BY <1>4, <3>1, <2>1
  <2> HIDE DEF n
  <2> QED BY <1>5, <1>6, <2>1, <2>2
<1>8. CASE v >= 10 /\ v < 100
  <2>1. n = 2 /\ d[1] = v % 10 /\ d[2] = (v \div 10) % 10
    BY <1>1, <1>8 DEF Digits
  <2>2. d[2] = v \div 10 /\ v = 10 * d[2] + d[1] /\ d[2] # 0
    BY <1>8, <2>1
  <2>3. g[1] = 10 * g[0] + d[2] /\ g[2] = 10 * g[1] + d[1]
    <3>1. 1 \in 1 .. n /\ 2 \in 1 .. n /\ n - 1 + 1 = 2 /\ 1 - 1 = 0 /\ 2 - 1 = 1
          /\ n - 2 + 1 = 1
      BY <2>1
    <3> QED BY <1>4, <3>1
  <2>4. d[1] \in Int /\ d[2] \in Int
    BY <1>1
  <2>5. g[1] = d[2]
    <3>1. \A a, b, c : a = 10 * b + c /\ b = 0 /\ c \in Int => a = c
      OBVIOUS
    <3> QED BY <1>5, <2>3, <2>4, <3>1
  <2>6. g[2] = v
    BY <2>2, <2>3, <2>5, Zenon
  <2> HIDE DEF n
  <2> QED BY <1>5, <1>6, <2>1, <2>2, <2>6
<1>9. CASE v = 100
  <2>1. n = 3 /\ d[1] = 0 /\ d[2] = 0 /\ d[3] = 1
    BY <1>1, <1>9 DEF Digits
  <2>2. g[1] = 10 * g[0] + d[3] /\ g[2] = 10 * g[1] + d[2] /\ g[3] = 10 * g[2] + d[1]
    <3>1. /\ 1 \in 1 .. n /\ 2 \in 1 .. n /\ 3 \in 1 .. n
          /\ n - 1 + 1 = 3 /\ n - 2 + 1 = 2 /\ n - 3 + 1 = 1
          /\ 1 - 1 = 0 /\ 2 - 1 = 1 /\ 3 - 1 = 2
      BY <2>1
    <3> QED BY <1>4, <3>1
  <2>3. g[1] = 1
    BY <1>5, <2>1, <2>2
  <2>4. g[2] = 10
    BY <2>1, <2>2, <2>3
  <2>5. g[3] = 100
    BY <2>1, <2>2, <2>4
  <2> HIDE DEF n
  <2> QED BY <1>5, <1>6, <1>9, <2>1, <2>5
<1> QED BY <1>7, <1>8, <1>9

(* lv_upgrade_get_value gives back the value that was set.                 *)
LEMMA GetValueIs ==
  ASSUME NEW v \in 0 .. 100, NEW w, w.digits = DigitsOf(v)
  PROVE  GetValue(w) = v
<1> DEFINE u == UsedDigits(w)
           n == Digits(v)
           s == Reverse(u)
<1>1. u \in Seq(0 .. 9) /\ Len(u) = n /\ \A i \in 1 .. n : u[i] = DigitsOf(v)[i]
  BY UsedIs
<1>2. n \in 1 .. 3
  BY DEF Digits
<1>3. s = [i \in 1 .. Len(u) |-> u[(Len(u) - i) + 1]]
  BY DEF Reverse
<1> HIDE DEF u, s, n
<1>4. DOMAIN s = 1 .. n
  BY <1>1, <1>3
<1>5. \A i \in 1 .. n : s[i] = DigitsOf(v)[n - i + 1]
  <2>1. SUFFICES ASSUME NEW i \in 1 .. n PROVE s[i] = DigitsOf(v)[n - i + 1]
    OBVIOUS
  <2>2. n - i + 1 \in 1 .. n
    BY <1>2
  <2>3. s[i] = u[n - i + 1]
    BY <1>1, <1>3
  <2> QED BY <1>1, <2>2, <2>3
<1>6. Number(s) = v
  BY <1>4, <1>5, ValueIsRead DEF n
<1> QED BY <1>6 DEF GetValue, s, u

-----------------------------------------------------------------------------
(* The image of a bar. *)

(* A table full of keys.                                                   *)
Keyed(w) ==
  /\ w.size \in Nat /\ w.size < Full
  /\ \A i \in 1 .. w.size : w.images[i] \in Int

(* How far a value is from a key. *)
Off(v, key) == IF v >= key THEN v - key ELSE key - v

LEMMA OffIs ==
  ASSUME NEW v \in Int, NEW key \in Int
  PROVE  Max({v - key, key - v}) = Off(v, key) /\ Off(v, key) \in Nat
<1> DEFINE S == {v - key, key - v}
<1>1. Off(v, key) \in S /\ Off(v, key) \in Nat /\ \A y \in S : Off(v, key) >= y
  BY DEF Off
<1>2. ASSUME NEW x \in S, \A y \in S : x >= y
      PROVE  x = Off(v, key)
  BY <1>1, <1>2
<1>3. Max(S) = CHOOSE x \in S : \A y \in S : x >= y
  BY Zenon DEF Max
<1> HIDE DEF S
<1>4. Max(S) = Off(v, key)
  BY <1>1, <1>2, <1>3
<1> QED BY <1>1, <1>4 DEF S

LEMMA DistanceIs ==
  ASSUME NEW w, Keyed(w), NEW v \in Int, NEW i \in 0 .. w.size - 1
  PROVE  /\ w.images[i + 1] \in Int
         /\ Distance(w, v, i) = Off(v, w.images[i + 1])
         /\ Distance(w, v, i) \in Nat
<1>1. i + 1 \in 1 .. w.size
  BY DEF Keyed
<1>2. w.images[i + 1] \in Int
  BY <1>1 DEF Keyed
<1> DEFINE key == w.images[i + 1]
<1>3. Distance(w, v, i) = Max({v - key, key - v})
  BY DEF Distance
<1> HIDE DEF key
<1>4. key \in Int
  BY <1>2 DEF key
<1>5. Distance(w, v, i) = Off(v, key) /\ Off(v, key) \in Nat
  BY <1>3, <1>4, OffIs
<1> QED BY <1>4, <1>5 DEF key

(* The first of the closest positions.                                     *)
LEMMA NearestIs ==
  ASSUME NEW w, Keyed(w), w.size > 0, NEW v \in Int
  PROVE  LET best == Nearest(w, v)
         IN  /\ best \in 0 .. w.size - 1
             /\ \A j \in 0 .. w.size - 1 : Distance(w, v, best) <= Distance(w, v, j)
             /\ \A j \in 0 .. w.size - 1 :
                  j < best => Distance(w, v, best) < Distance(w, v, j)
<1> DEFINE n == w.size
           At(i) == Distance(w, v, i)
           T == {At(i) : i \in 0 .. n - 1}
           S == {i \in 0 .. n - 1 : \A j \in 0 .. n - 1 : At(i) <= At(j)}
           best == Nearest(w, v)
<1>1. n \in Nat /\ n > 0
  BY DEF Keyed
<1>2. \A i \in 0 .. n - 1 : At(i) \in Nat
  BY DistanceIs
<1>3. best = Min(S)
  BY DEF Nearest
<1> HIDE DEF At, n, best
<1>4. T \in SUBSET Nat /\ T # {}
  <2>1. 0 \in 0 .. n - 1
    BY <1>1
  <2> QED BY <1>2, <2>1
<1>5. PICK least \in T : \A d \in T : least <= d
  <2> HIDE DEF T
  <2> QED BY <1>4, LeastNumber
<1>6. S \in SUBSET Nat /\ S # {}
  BY <1>1, <1>5
<1>7. best \in S /\ \A i \in S : best <= i
  <2> HIDE DEF S
  <2> QED BY <1>3, <1>6, MinIs
<1>8. best \in 0 .. n - 1 /\ \A j \in 0 .. n - 1 : At(best) <= At(j)
  BY <1>7
<1>9. ASSUME NEW j \in 0 .. n - 1, j < best
      PROVE  At(best) < At(j)
  <2>1. j \notin S
    BY <1>1, <1>7, <1>8, <1>9
  <2>2. PICK k \in 0 .. n - 1 : ~(At(j) <= At(k))
    BY <2>1
  <2>3. At(best) <= At(k)
    BY <1>8
  <2>4. At(best) \in Nat /\ At(j) \in Nat /\ At(k) \in Nat
    BY <1>2, <1>8
  <2> QED BY <2>2, <2>3, <2>4
<1> QED BY <1>8, <1>9 DEF At, n, best

(* The position that is drawn: the closest, or the one before the last.    *)
LEMMA ClosestIs ==
  ASSUME NEW w, Keyed(w), w.size > 0, NEW v \in Int
  PROVE  LET best == Nearest(w, v)
             drawn == Closest(w, v)
         IN  /\ drawn \in Nat
             /\ w.size >= 2 =>
                  IF Distance(w, v, best) # 0 /\ best = w.size - 1
                    THEN drawn = w.size - 2 ELSE drawn = best
             /\ w.size >= 2 => InTable(w, v)
<1> DEFINE best == Nearest(w, v)
           drawn == Closest(w, v)
<1>1. best \in 0 .. w.size - 1 /\ w.size \in Nat /\ w.size < Full
  BY NearestIs DEF Keyed
<1>2. drawn = IF Distance(w, v, best) # 0 /\ best = w.size - 1
                THEN (best - 1) % Full ELSE best
  BY Zenon DEF Closest
<1>3. InTable(w, v) <=> drawn < w.size
  BY DEF InTable
<1>4. Full \in Nat /\ Full > 1
  BY WidgetAssumption
<1>5. best - 1 \in Int /\ (best - 1) % Full \in Nat
  <2> HIDE DEF best
  <2>1. best - 1 \in Int
    BY <1>1
  <2>2. (best - 1) % Full \in 0 .. Full - 1
    BY <1>4, <2>1
  <2> QED BY <1>4, <2>1, <2>2
<1>6. best >= 1 => (best - 1) % Full = best - 1
  <2> HIDE DEF best
  <2>1. SUFFICES ASSUME best >= 1 PROVE (best - 1) % Full = best - 1
    OBVIOUS
  <2> DEFINE b == best - 1
  <2>2. b \in Nat /\ b < Full
    BY <1>1, <1>4, <2>1
  <2> HIDE DEF b
  <2>3. b % Full = b
    BY <1>4, <2>2
  <2> QED BY <2>3 DEF b
<1> HIDE DEF best, drawn
<1>7. drawn \in Nat
  BY <1>1, <1>2, <1>5
<1>8. w.size >= 2 => IF Distance(w, v, best) # 0 /\ best = w.size - 1
                       THEN drawn = w.size - 2 ELSE drawn = best
  BY <1>1, <1>2, <1>6
<1>9. w.size >= 2 => drawn < w.size
  BY <1>1, <1>8
<1> QED BY <1>3, <1>7, <1>8, <1>9 DEF best, drawn

(* An image that is drawn is one of the table.                             *)
LEMMA BarImageIs ==
  ASSUME NEW w, Keyed(w), NEW v \in Int, InTable(w, v)
  PROVE  Closest(w, v) + 1 \in 1 .. w.size /\ BarImage(w, v) \in Int
<1>1. w.size > 0 /\ Closest(w, v) < w.size
  BY DEF InTable
<1>2. Closest(w, v) \in Nat
  BY <1>1, ClosestIs
<1>3. Closest(w, v) + 1 \in 1 .. w.size
  BY <1>1, <1>2 DEF Keyed
<1> QED BY <1>3 DEF BarImage, Keyed

(* A list that ascends at every step ascends as a whole.                   *)
LEMMA AscendingIs ==
  ASSUME NEW w, Keyed(w), Ascending(w), NEW i \in 1 .. w.size, NEW j \in 1 .. w.size, i < j
  PROVE  w.images[i] < w.images[j]
<1> DEFINE n == w.size - i
           T == {k \in 0 .. n : k = 0 \/ w.images[i] < w.images[i + k]}
<1>1. n \in Nat /\ w.size \in Nat
  BY DEF Keyed
<1>2. 0 \in T
  BY <1>1
<1>3. ASSUME NEW k \in 0 .. n - 1, k \in T
      PROVE  k + 1 \in T
  <2>1. i + k \in 1 .. w.size /\ i + k \in 1 .. w.size - 1 /\ i + (k + 1) \in 1 .. w.size
        /\ i + (k + 1) = (i + k) + 1 /\ k + 1 \in 0 .. n
    BY <1>1
  <2>2. w.images[i + k] < w.images[(i + k) + 1]
    BY <2>1 DEF Ascending
  <2>3. w.images[i] \in Int /\ w.images[i + k] \in Int /\ w.images[i + (k + 1)] \in Int
    BY <2>1 DEF Keyed
  <2>4. w.images[i + k] < w.images[i + (k + 1)]
    BY <2>1, <2>2
  <2>5. w.images[i] < w.images[i + (k + 1)]
    <3>1. CASE k = 0
      <4>1. i + k = i
        BY <3>1
      <4> QED BY <2>4, <4>1
    <3>2. CASE k # 0
      <4>1. w.images[i] < w.images[i + k]
        BY <1>3, <3>2
      <4> QED BY <2>3, <2>4, <4>1
    <3> QED BY <3>1, <3>2
  <2> QED BY <2>1, <2>5
<1>4. 0 .. n \subseteq T
  <2> HIDE DEF T, n
  <2> QED BY <1>1, <1>2, <1>3, Induction
<1>5. j - i \in 0 .. n /\ j - i # 0 /\ i + (j - i) = j
  BY <1>1
<1>6. j - i \in T
  <2> HIDE DEF T, n
  <2> QED BY <1>4, <1>5
<1> QED BY <1>5, <1>6

(* With a list that ascends, the last image is drawn for its key only, and *)
(* otherwise the closest of the others.                                    *)
LEMMA ClosestIsShown ==
  ASSUME NEW w, Keyed(w), Ascending(w), NEW v \in Int
  PROVE  LET keys == {w.images[i] : i \in 1 .. w.size}
             full == w.images[w.size]
             drawn == BarImage(w, v)
         IN  /\ drawn \in Int
             /\ IF v = full THEN drawn = full
                ELSE /\ drawn \in keys \ {full}
                     /\ \A key \in keys \ {full} : Off(v, drawn) <= Off(v, key)
<1> DEFINE n == w.size
           best == Nearest(w, v)
           at == Closest(w, v) + 1
           drawn == BarImage(w, v)
           full == w.images[w.size]
           keys == {w.images[i] : i \in 1 .. w.size}
           img(i) == w.images[i]
<1>1. n \in Nat /\ n >= 2 /\ \A i \in 1 .. n : img(i) \in Int
  BY DEF Keyed, Ascending
<1>2. \A i, j \in 1 .. n : i < j => img(i) < img(j)
  BY AscendingIs
<1>3. best \in 0 .. n - 1 /\ \A j \in 0 .. n - 1 : Distance(w, v, best) <= Distance(w, v, j)
      /\ (j < best => Distance(w, v, best) < Distance(w, v, j))
  BY <1>1, NearestIs
<1>4. \A j \in 0 .. n - 1 : Distance(w, v, j) = Off(v, img(j + 1))
  BY DistanceIs
<1>5. IF Distance(w, v, best) # 0 /\ best = n - 1 THEN at = n - 1 ELSE at = best + 1
  <2>1. IF Distance(w, v, best) # 0 /\ best = w.size - 1
          THEN Closest(w, v) = w.size - 2 ELSE Closest(w, v) = best
    BY <1>1, ClosestIs
  <2> HIDE DEF best
  <2> QED BY <1>1, <1>3, <2>1
<1>6. drawn = img(at) /\ full = img(n)
  BY DEF BarImage
<1>7. keys = {img(i) : i \in 1 .. n}
  OBVIOUS
<1>8. /\ drawn = BarImage(w, v) /\ full = w.images[w.size]
      /\ keys = {w.images[i] : i \in 1 .. w.size}
  OBVIOUS
<1> HIDE DEF best, at, drawn, full, keys, img, n
<1> DEFINE off(i) == Off(v, img(i))
<1>9. \A i \in 1 .. n : off(i) = (IF v >= img(i) THEN v - img(i) ELSE img(i) - v)
  BY DEF Off
<1>10. best + 1 \in 1 .. n /\ Distance(w, v, best) = off(best + 1)
  BY <1>1, <1>3, <1>4
<1>11. ASSUME NEW i \in 1 .. n
       PROVE  off(best + 1) <= off(i) /\ (i < best + 1 => off(best + 1) < off(i))
  <2>1. i - 1 \in 0 .. n - 1 /\ (i - 1) + 1 = i /\ (i < best + 1 => i - 1 < best)
    BY <1>1, <1>3
  <2>2. Distance(w, v, i - 1) = off(i)
    BY <1>4, <2>1
  <2> QED BY <1>3, <1>10, <2>1, <2>2
<1>12. at \in 1 .. n /\ drawn \in Int
  <2>1. at \in 1 .. n
    BY <1>1, <1>3, <1>5
  <2> QED BY <1>1, <1>6, <2>1
<1>13. CASE v = full
  <2>1. n \in 1 .. n
    BY <1>1
  <2>2. off(n) = 0
    BY <1>1, <1>6, <1>9, <1>13, <2>1
  <2>3. off(best + 1) <= 0
    BY <1>11, <2>1, <2>2
  <2>4. img(best + 1) = v
    BY <1>1, <1>9, <1>10, <2>3
  <2>5. off(best + 1) = 0
    BY <1>9, <1>10, <2>4
  <2>6. at = best + 1
    BY <1>5, <1>10, <2>5
  <2>7. drawn = full
    BY <1>6, <1>13, <2>4, <2>6
  <2> QED BY <1>8, <1>12, <1>13, <2>7
<1>14. CASE v # full
  <2>1. n \in 1 .. n /\ n - 1 \in 1 .. n /\ n - 1 < n
    BY <1>1
  <2>2. at # n
    <3>1. CASE best = n - 1
      <4>1. best + 1 = n
        BY <1>1, <3>1
      <4>2. off(n) # 0
        BY <1>1, <1>6, <1>9, <1>14, <2>1
      <4> QED BY <1>1, <1>5, <1>10, <3>1, <4>1, <4>2
    <3>2. CASE best # n - 1
      BY <1>1, <1>3, <1>5, <3>2
    <3> QED BY <3>1, <3>2
  <2>3. drawn # full
    <3>1. at < n
      BY <1>1, <1>12, <2>2
    <3>2. img(at) < img(n)
      BY <1>2, <1>12, <2>1, <3>1
    <3> QED BY <1>1, <1>6, <1>12, <2>1, <3>2
  <2>4. drawn \in keys \ {full}
    BY <1>6, <1>7, <1>12, <2>3
  <2>5. ASSUME NEW i \in 1 .. n, img(i) # full
        PROVE  off(at) <= off(i)
    <3>1. i < n
      BY <1>1, <1>6, <2>5
    <3>2. CASE at = best + 1
      BY <1>11, <3>2
    <3>3. CASE at # best + 1
      <4>1. at = n - 1 /\ best + 1 = n
        BY <1>1, <1>5, <3>3
      <4>2. off(n) < off(n - 1)
        BY <1>11, <2>1, <4>1
      <4>3. img(n - 1) < img(n) /\ img(n - 1) \in Int /\ img(n) \in Int /\ img(i) \in Int
        BY <1>1, <1>2, <2>1
      <4>4. v >= img(n - 1)
        <5>1. /\ off(n) = (IF v >= img(n) THEN v - img(n) ELSE img(n) - v)
              /\ off(n - 1) = (IF v >= img(n - 1) THEN v - img(n - 1) ELSE img(n - 1) - v)
          BY <1>9, <2>1
        <5> HIDE DEF off
        <5> QED BY <4>2, <4>3, <5>1
      <4>5. img(i) <= img(n - 1)
        <5>1. i = n - 1 \/ i < n - 1
          BY <1>1, <3>1
        <5>2. i < n - 1 => img(i) < img(n - 1)
          BY <1>2, <2>1
        <5> QED BY <4>3, <5>1, <5>2
      <4>6. off(i) = v - img(i) /\ off(n - 1) = v - img(n - 1)
        <5>1. v >= img(i)
          BY <4>3, <4>4, <4>5
        <5> QED BY <1>9, <2>1, <4>4, <5>1
      <4> HIDE DEF off
      <4> QED BY <4>1, <4>3, <4>5, <4>6
    <3> QED BY <3>2, <3>3
  <2>6. \A key \in keys \ {full} : Off(v, drawn) <= Off(v, key)
    BY <1>6, <1>7, <2>5
  <2> QED BY <1>8, <1>12, <1>14, <2>4, <2>6
<1> QED BY <1>13, <1>14

-----------------------------------------------------------------------------
(* Widths. *)

(* Every image of the table has a width.                                   *)
Measured(w) ==
  /\ w.size \in Nat /\ w.images \in Seq(Setting) /\ w.size <= Len(w.images)
  /\ Width(PercentSign) \in Nat
  /\ \A i \in 1 .. w.size : w.images[i] # None => Width(w.images[i]) \in Nat

LEMMA WidthOfIs ==
  ASSUME NEW w, NEW image, Width(image) \in Nat
  PROVE  WidthOf(w, image) \in Nat
<1>1. CASE image \in w.blank
  BY <1>1 DEF WidthOf
<1>2. CASE image \notin w.blank
  <2>1. WidthOf(w, image) = Width(image)
    BY <1>2, Zenon DEF WidthOf
  <2> QED BY <2>1, Zenon
<1> QED BY <1>1, <1>2

LEMMA AnimWidthIs ==
  ASSUME NEW w, Measured(w)
  PROVE  AnimWidth(w) \in Nat
<1> DEFINE n == w.size
           of(i) == WidthOf(w, w.images[i])
           I == {i \in 1 .. n : w.images[i] # None}
           S == {0} \cup {of(i) : i \in I}
           T == {k \in 0 .. n : \E b \in Nat : \A i \in I : i <= k => of(i) <= b}
<1>1. n \in Nat /\ w.images \in Seq(Setting) /\ n <= Len(w.images)
  BY DEF Measured
<1>2. \A i \in I : of(i) \in Nat
  <2>1. SUFFICES ASSUME NEW i \in I PROVE of(i) \in Nat
    OBVIOUS
  <2>2. Width(w.images[i]) \in Nat
    BY <2>1 DEF Measured
  <2> QED BY <2>2, WidthOfIs
<1>3. AnimWidth(w) = Max(S)
  <2>1. ToSet(SubSeq(w.images, 1, n)) = {w.images[i] : i \in 1 .. n}
    <3> DEFINE u == SubSeq(w.images, 1, n)
    <3>1. DOMAIN u = 1 .. n /\ \A i \in 1 .. n : u[i] = w.images[i]
      BY <1>1
    <3> HIDE DEF u
    <3>2. ToSet(u) = {w.images[i] : i \in 1 .. n}
      BY <3>1 DEF ToSet
    <3> QED BY <3>2 DEF u
  <2>2. {WidthOf(w, image) : image \in ToSet(SubSeq(w.images, 1, n)) \ {None}}
          = {of(i) : i \in I}
    BY <2>1
  <2> HIDE DEF of, I
  <2> QED BY <2>2, Zenon DEF AnimWidth
<1> HIDE DEF of
<1>4. I \subseteq 1 .. n
  OBVIOUS
<1> HIDE DEF I, n
<1>5. 0 \in T
  BY <1>1, <1>4
<1>6. ASSUME NEW k \in 0 .. n - 1, k \in T
      PROVE  k + 1 \in T
  <2>1. PICK b \in Nat : \A i \in I : i <= k => of(i) <= b
    BY <1>6
  <2>2. k + 1 \in 0 .. n
    BY <1>1
  <2>3. CASE k + 1 \notin I
    <3>1. \A i \in I : i <= k + 1 => i <= k
      BY <1>1, <1>4, <2>3
    <3> QED BY <2>1, <2>2, <3>1
  <2>4. CASE k + 1 \in I
    <3>1. of(k + 1) \in Nat
      BY <1>2, <2>4
    <3>2. b + of(k + 1) \in Nat
      BY <3>1
    <3>3. ASSUME NEW i \in I, i <= k + 1
          PROVE  of(i) <= b + of(k + 1)
      <4>1. of(i) \in Nat
        BY <1>2
      <4>2. i \in Nat /\ (i = k + 1 \/ i <= k)
        BY <1>1, <1>4, <3>3
      <4> QED BY <2>1, <3>1, <4>1, <4>2
    <3> QED BY <2>2, <3>2, <3>3
  <2> QED BY <2>3, <2>4
<1>7. n \in T
  <2> HIDE DEF T
  <2>1. 0 .. n \subseteq T
    BY <1>1, <1>5, <1>6, Induction
  <2> QED BY <1>1, <2>1
<1>8. PICK b \in Nat : \A i \in I : i <= n => of(i) <= b
  BY <1>7
<1>9. \A x \in S : x \in Nat /\ x <= b
  <2>1. \A i \in I : i <= n
    BY <1>1, <1>4
  <2> QED BY <1>2, <1>8, <2>1
<1>10. S # {}
  OBVIOUS
<1> HIDE DEF S, T
<1>11. S \in SUBSET Nat /\ \A x \in S : x <= b
  BY <1>9
<1>12. Max(S) \in S
  BY <1>10, <1>11, MaxIs
<1> QED BY <1>3, <1>11, <1>12

-----------------------------------------------------------------------------
(* The images of a number. *)

(* Where the loop over the digits stops.                                   *)
Stop(w) ==
  Min({i \in 0 .. Len(UsedDigits(w)) :
         i = Len(UsedDigits(w)) \/ UsedDigits(w)[i + 1] >= w.size})

(* How the images of a number are put together.                            *)
Glyphing(g, w, n) ==
  /\ g[0] = IF w.percent THEN <<PercentSign>> ELSE <<>>
  /\ \A k \in 1 .. n : g[k] = AddGlyph(g[k - 1], w.images[UsedDigits(w)[k] + 1])
  /\ Glyphs(w) = g[n]

LEMMA GlyphsFold ==
  ASSUME NEW w, Stop(w) \in Nat
  PROVE  \E g : Glyphing(g, w, Stop(w))
<1> DEFINE n == Stop(w)
           b == IF w.percent THEN <<PercentSign>> ELSE <<>>
           t == [i \in 1 .. Stop(w) |-> w.images[UsedDigits(w)[i] + 1]]
<1>1. n \in Nat /\ DOMAIN t = 1 .. n
  OBVIOUS
<1>2. PICK g : OnGlyphs!Folds(g, b, t, n)
  <2> HIDE DEF b, t, n
  <2> QED BY <1>1, NumbersInduct, OnGlyphs!FoldIs, Zenon
<1>3. OnGlyphs!Folded(b, t) = Glyphs(w)
  BY Zenon DEF OnGlyphs!Folded, OnGlyphs!Greatest, FoldLeft, MapThenFoldSet, Max, Glyphs, Stop
<1>4. \A k \in 1 .. n : t[k] = w.images[UsedDigits(w)[k] + 1]
  BY Zenon
<1> QED BY <1>2, <1>3, <1>4, Zenon DEF OnGlyphs!Folds, Glyphing

(* The digits in front of the stop are in the table.                       *)
LEMMA StopIs ==
  ASSUME NEW v \in 0 .. 100, NEW w, w.digits = DigitsOf(v), w.size \in Nat
  PROVE  /\ Stop(w) \in 0 .. Digits(v)
         /\ \A k \in 1 .. Stop(w) : UsedDigits(w)[k] \in 0 .. 9 /\ UsedDigits(w)[k] < w.size
         /\ Stop(w) = Digits(v) \/ UsedDigits(w)[Stop(w) + 1] >= w.size
<1> DEFINE u == UsedDigits(w)
           n == Digits(v)
           S == {i \in 0 .. n : i = n \/ u[i + 1] >= w.size}
<1>1. u \in Seq(0 .. 9) /\ Len(u) = n
  BY UsedIs
<1>2. n \in 1 .. 3
  BY DEF Digits
<1>3. Stop(w) = Min(S)
  <2> HIDE DEF n
  <2> QED BY <1>1, Zenon DEF Stop
<1> HIDE DEF u, n
<1>4. S \in SUBSET Nat /\ n \in S
  BY <1>2
<1>5. Min(S) \in S /\ \A x \in S : Min(S) <= x
  <2> HIDE DEF S
  <2> QED BY <1>4, MinIs
<1>6. Min(S) \in 0 .. n /\ (Min(S) = n \/ u[Min(S) + 1] >= w.size)
  BY <1>5
<1>7. ASSUME NEW k \in 1 .. Min(S)
      PROVE  u[k] \in 0 .. 9 /\ u[k] < w.size
  <2>1. k - 1 \in 0 .. n /\ k - 1 # n /\ k \in 1 .. n /\ ~(Min(S) <= k - 1) /\ (k - 1) + 1 = k
    BY <1>2, <1>6
  <2>2. k - 1 \notin S
    BY <1>5, <2>1
  <2>3. u[k] \in 0 .. 9
    BY <1>1, <2>1
  <2> QED BY <2>1, <2>2, <2>3
<1> QED BY <1>3, <1>6, <1>7 DEF u, n

(* Every image of a number is the sign or one of the table, and has a      *)
(* width.                                                                  *)
GlyphsOf(w) ==
  {image \in {w.images[i] : i \in 1 .. w.size} \cup {PercentSign} :
     image # None /\ Width(image) \in Nat}

LEMMA GlyphsAre ==
  ASSUME NEW v \in 0 .. 100, NEW w, w.digits = DigitsOf(v), Measured(w)
  PROVE  Glyphs(w) \in Seq(GlyphsOf(w))
<1> DEFINE n == Stop(w)
           u == UsedDigits(w)
           G == GlyphsOf(w)
<1>1. w.size \in Nat
  BY DEF Measured
<1>2. /\ n \in 0 .. Digits(v)
      /\ \A k \in 1 .. n : u[k] \in 0 .. 9 /\ u[k] < w.size
  BY <1>1, StopIs
<1>3. n \in Nat
  BY <1>2 DEF Digits
<1>4. PICK g : Glyphing(g, w, n)
  BY <1>3, GlyphsFold
<1>5. PercentSign \in G
  BY WidgetAssumption DEF GlyphsOf, Measured
<1>6. \A i \in 1 .. w.size : w.images[i] # None => w.images[i] \in G
  BY DEF GlyphsOf, Measured
<1> HIDE DEF G, n
<1> DEFINE T == {k \in 0 .. n : g[k] \in Seq(G)}
<1>7. 0 \in T
  <2>1. g[0] = IF w.percent THEN <<PercentSign>> ELSE <<>>
    BY <1>4 DEF Glyphing
  <2>2. <<PercentSign>> \in Seq(G) /\ <<>> \in Seq(G)
    BY <1>5
  <2>3. g[0] \in Seq(G)
    BY <2>1, <2>2, Zenon
  <2> QED BY <1>3, <2>3
<1>8. ASSUME NEW k \in 0 .. n - 1, k \in T
      PROVE  k + 1 \in T
  <2> DEFINE image == w.images[u[k + 1] + 1]
  <2>1. k + 1 \in 1 .. n /\ (k + 1) - 1 = k /\ k + 1 \in 0 .. n
    BY <1>3
  <2>2. g[k + 1] = AddGlyph(g[(k + 1) - 1], image)
    BY <1>4, <2>1 DEF Glyphing
  <2>3. g[k + 1] = IF image = None THEN g[k] ELSE Append(g[k], image)
    BY <2>1, <2>2 DEF AddGlyph
  <2>4. image # None => image \in G
    <3>1. u[k + 1] \in 0 .. 9 /\ u[k + 1] < w.size
      BY <1>2, <2>1
    <3>2. u[k + 1] + 1 \in 1 .. w.size
      BY <1>1, <3>1
    <3> QED BY <1>6, <3>2
  <2>5. g[k] \in Seq(G)
    BY <1>8
  <2> HIDE DEF image
  <2>6. g[k + 1] \in Seq(G)
    BY <2>3, <2>4, <2>5
  <2> QED BY <2>1, <2>6
<1>9. n \in T
  <2> HIDE DEF T
  <2>1. 0 .. n \subseteq T
    BY <1>3, <1>7, <1>8, Induction
  <2> QED BY <1>3, <2>1
<1> QED BY <1>4, <1>9 DEF Glyphing, G

(* The widths of the images of a number.                                   *)
Widths(w) == [i \in 1 .. Len(Glyphs(w)) |-> WidthOf(w, Glyphs(w)[i])]

LEMMA WidthsAre ==
  ASSUME NEW v \in 0 .. 100, NEW w, w.digits = DigitsOf(v), Measured(w)
  PROVE  /\ Len(Glyphs(w)) \in Nat
         /\ Widths(w) \in [1 .. Len(Glyphs(w)) -> Nat]
         /\ NumberWidth(w) = Total(Widths(w)) /\ NumberWidth(w) \in Nat
<1>1. Glyphs(w) \in Seq(GlyphsOf(w))
  BY GlyphsAre
<1> DEFINE n == Len(Glyphs(w))
<1>2. n \in Nat
  BY <1>1
<1>3. \A i \in 1 .. n : WidthOf(w, Glyphs(w)[i]) \in Nat
  <2>1. SUFFICES ASSUME NEW i \in 1 .. n PROVE WidthOf(w, Glyphs(w)[i]) \in Nat
    OBVIOUS
  <2>2. Glyphs(w)[i] \in GlyphsOf(w)
    BY <1>1, <2>1, ElementOfSeq
  <2>3. Width(Glyphs(w)[i]) \in Nat
    BY <2>2, Zenon DEF GlyphsOf
  <2> QED BY <2>3, WidthOfIs
<1>4. Widths(w) \in [1 .. n -> Nat]
  BY <1>3 DEF Widths
<1>5. NumberWidth(w) = Total(Widths(w))
  BY Zenon DEF NumberWidth, Widths
<1> HIDE DEF n
<1>6. Total(Widths(w)) \in Nat
  BY <1>2, <1>4, TotalInNat
<1> QED BY <1>2, <1>4, <1>5, <1>6 DEF n

(* A number whose digits all have images is made of the sign and of them.  *)
LEMMA FullGlyphs ==
  ASSUME NEW v \in 0 .. 100, NEW w, w.digits = DigitsOf(v), Measured(w),
         w.percent \in BOOLEAN,
         \A i \in 1 .. Digits(v) :
           UsedDigits(w)[i] < w.size /\ w.images[UsedDigits(w)[i] + 1] = UsedDigits(w)[i]
  PROVE  LET sign == IF w.percent THEN 1 ELSE 0
         IN  /\ Len(Glyphs(w)) = sign + Digits(v)
             /\ w.percent => Glyphs(w)[1] = PercentSign
             /\ \A i \in 1 .. Digits(v) : Glyphs(w)[sign + i] = UsedDigits(w)[i]
<1> DEFINE n == Digits(v)
           u == UsedDigits(w)
           sign == IF w.percent THEN 1 ELSE 0
           G == Int \cup {PercentSign}
<1>1. n \in 1 .. 3
  BY DEF Digits
<1>2. u \in Seq(0 .. 9) /\ Len(u) = n
  BY UsedIs
<1>3. Stop(w) = n
  <2>1. w.size \in Nat
    BY DEF Measured
  <2>2. Stop(w) \in 0 .. n /\ (Stop(w) = n \/ u[Stop(w) + 1] >= w.size)
    BY <2>1, StopIs
  <2> HIDE DEF n, u
  <2>3. ASSUME Stop(w) # n PROVE FALSE
    <3>1. Stop(w) + 1 \in 1 .. n
      BY <1>1, <2>2, <2>3
    <3>2. u[Stop(w) + 1] < w.size
      BY <3>1 DEF n, u
    <3>3. u[Stop(w) + 1] \in 0 .. 9
      BY <1>2, <3>1
    <3> QED BY <2>1, <2>2, <2>3, <3>2, <3>3
  <2> QED BY <2>3
<1>4. PICK g : Glyphing(g, w, n)
  <2>1. Stop(w) \in Nat
    BY <1>1, <1>3
  <2> QED BY <1>3, <2>1, GlyphsFold
<1>5. \A i \in 1 .. n : w.images[u[i] + 1] = u[i]
  OBVIOUS
<1>6. None \notin Int
  BY WidgetAssumption
<1>7. sign \in {0, 1} /\ (w.percent => sign = 1) /\ (~w.percent => sign = 0)
  OBVIOUS
<1> HIDE DEF n, u, sign
<1> DEFINE At(k) == /\ g[k] \in Seq(G) /\ Len(g[k]) = sign + k
                    /\ w.percent => g[k][1] = PercentSign
                    /\ \A i \in 1 .. k : g[k][sign + i] = u[i]
           T == {k \in 0 .. n : At(k)}
<1>8. 0 \in T
  <2> DEFINE s == <<PercentSign>>
             e == <<>>
  <2>1. s \in Seq(G) /\ Len(s) = 1 /\ s[1] = PercentSign /\ e \in Seq(G) /\ Len(e) = 0
    OBVIOUS
  <2>2. g[0] = IF w.percent THEN s ELSE e
    BY <1>4 DEF Glyphing
  <2>3. sign + 0 = sign /\ 1 .. 0 = {}
    BY <1>7
  <2> HIDE DEF s, e, G
  <2>4. g[0] \in Seq(G) /\ Len(g[0]) = sign + 0 /\ (w.percent => g[0][1] = PercentSign)
    BY <1>7, <2>1, <2>2, <2>3
  <2>5. \A i \in 1 .. 0 : g[0][sign + i] = u[i]
    BY <2>3
  <2>6. At(0)
    BY <2>4, <2>5
  <2>7. 0 \in 0 .. n
    BY <1>1
  <2> HIDE DEF At
  <2> QED BY <2>6, <2>7
<1>9. ASSUME NEW k \in 0 .. n - 1, k \in T
      PROVE  k + 1 \in T
  <2>1. k + 1 \in 1 .. n /\ (k + 1) - 1 = k /\ k + 1 \in 0 .. n
    BY <1>1
  <2>2. g[k + 1] = AddGlyph(g[(k + 1) - 1], w.images[u[k + 1] + 1])
    BY <1>4, <2>1 DEF Glyphing, u
  <2>3. u[k + 1] \in Int /\ u[k + 1] # None
    <3>1. u[k + 1] \in 0 .. 9
      BY <1>2, <2>1
    <3> QED BY <1>6, <3>1
  <2>4. g[k + 1] = Append(g[k], u[k + 1])
    <3>1. w.images[u[k + 1] + 1] = u[k + 1]
      BY <1>5, <2>1
    <3> QED BY <2>1, <2>2, <2>3, <3>1 DEF AddGlyph
  <2>5. At(k)
    <3> HIDE DEF At
    <3> QED BY <1>9
  <2> DEFINE s == g[k]
             e == u[k + 1]
             t == g[k + 1]
  <2>6. s \in Seq(G) /\ e \in G /\ t = Append(s, e) /\ Len(s) = sign + k
    BY <2>3, <2>4, <2>5
  <2>7. t \in Seq(G) /\ Len(t) = Len(s) + 1 /\ t[Len(s) + 1] = e
        /\ \A i \in 1 .. Len(s) : t[i] = s[i]
    <3> HIDE DEF s, e, t
    <3> QED BY <2>6
  <2>8. Len(t) = sign + (k + 1)
    BY <1>7, <2>6, <2>7
  <2>9. w.percent => t[1] = PercentSign
    <3>1. SUFFICES ASSUME w.percent PROVE t[1] = PercentSign
      OBVIOUS
    <3>2. 1 \in 1 .. Len(s)
      BY <1>7, <2>6, <3>1
    <3> QED BY <2>5, <2>7, <3>1, <3>2
  <2>10. \A i \in 1 .. k + 1 : t[sign + i] = u[i]
    <3>1. SUFFICES ASSUME NEW i \in 1 .. k + 1 PROVE t[sign + i] = u[i]
      OBVIOUS
    <3>2. CASE i = k + 1
      <4>1. sign + i = Len(s) + 1
        BY <1>7, <2>6, <3>2
      <4> QED BY <2>7, <3>2, <4>1
    <3>3. CASE i # k + 1
      <4>1. i \in 1 .. k /\ sign + i \in 1 .. Len(s)
        BY <1>7, <2>6, <3>3
      <4> QED BY <2>5, <2>7, <4>1
    <3> QED BY <3>2, <3>3
  <2>11. At(k + 1)
    BY <2>7, <2>8, <2>9, <2>10
  <2> HIDE DEF At
  <2> QED BY <2>1, <2>11
<1>10. n \in T
  <2> HIDE DEF T
  <2>1. 0 .. n \subseteq T
    BY <1>1, <1>8, <1>9, Induction
  <2> QED BY <1>1, <2>1
<1>11. g[n] = Glyphs(w)
  BY <1>4 DEF Glyphing
<1> QED BY <1>10, <1>11 DEF n, u, sign

-----------------------------------------------------------------------------
(* The areas of a number. *)

(* An image with its width, as it is laid out. *)
Glyph(w, i) == [image |-> Glyphs(w)[i], width |-> WidthOf(w, Glyphs(w)[i])]

(* How the areas are laid out.                                             *)
Laying(g, w, n) ==
  /\ g[0] = [edge |-> w.width - 1, areas |-> <<>>]
  /\ \A k \in 1 .. n : g[k] = Beside(g[k - 1], Glyph(w, k))
  /\ LaidOut(w) = g[n].areas

LEMMA LayingFold ==
  ASSUME NEW w, Len(Glyphs(w)) \in Nat
  PROVE  \E g : Laying(g, w, Len(Glyphs(w)))
<1> DEFINE n == Len(Glyphs(w))
           b == [edge |-> w.width - 1, areas |-> <<>>]
           t == [i \in 1 .. Len(Glyphs(w)) |->
                   [image |-> Glyphs(w)[i], width |-> WidthOf(w, Glyphs(w)[i])]]
<1>1. n \in Nat /\ DOMAIN t = 1 .. n
  OBVIOUS
<1>2. PICK g : OnAreas!Folds(g, b, t, n)
  <2> HIDE DEF b, t, n
  <2> QED BY <1>1, NumbersInduct, OnAreas!FoldIs, Zenon
<1>3. OnAreas!Folded(b, t) = FoldLeft(Beside, b, t)
  <2> HIDE DEF b, t
  <2> QED BY Zenon DEF OnAreas!Folded, OnAreas!Greatest, FoldLeft, MapThenFoldSet, Max
<1>4. LaidOut(w) = FoldLeft(Beside, b, t).areas
  BY Zenon DEF LaidOut
<1>5. \A k \in 1 .. n : t[k] = Glyph(w, k)
  BY Zenon DEF Glyph
<1>6. LaidOut(w) = g[n].areas
  <2> HIDE DEF b, t, n
  <2> QED BY <1>2, <1>3, <1>4, Zenon DEF OnAreas!Folds
<1> QED BY <1>2, <1>5, <1>6, Zenon DEF OnAreas!Folds, Laying

(* The areas of a number abut, begin one pixel to the left of the object's *)
(* last column but one, and are as wide as the images.                     *)
LEMMA LaidOutIs ==
  ASSUME NEW v \in 0 .. 100, NEW w, w.digits = DigitsOf(v), Measured(w), w.width \in Nat
  PROVE  LET n == Len(Glyphs(w))
             laid == LaidOut(w)
         IN  /\ n \in Nat /\ Len(laid) = n /\ DOMAIN laid = 1 .. n
             /\ \A i \in 1 .. n : laid[i].image = Glyphs(w)[i]
             /\ \A i \in 1 .. n - 1 : laid[i].left = laid[i + 1].right + 1
             /\ n > 0 => /\ laid[1].right = w.width - 2
                         /\ laid[n].left = (w.width - 1) - NumberWidth(w)
<1> DEFINE n == Len(Glyphs(w))
           G == GlyphsOf(w)
           Area == [image : G, left : Int, right : Int, top : Int]
           wide == Widths(w)
<1>1. Glyphs(w) \in Seq(G) /\ n \in Nat /\ wide \in [1 .. n -> Nat]
      /\ NumberWidth(w) = Total(wide)
  BY GlyphsAre, WidthsAre
<1>2. PICK g : Laying(g, w, n)
  BY <1>1, LayingFold
<1>3. PICK h : Sums(h, wide, n)
  <2>1. DOMAIN wide = 1 .. n
    BY <1>1
  <2> HIDE DEF wide, n
  <2> QED BY <1>1, <2>1, SumsFold
<1>4. \A k \in 1 .. n : wide[k] = WidthOf(w, Glyphs(w)[k]) /\ wide[k] \in Nat
                        /\ Glyphs(w)[k] \in G
  <2>1. \A k \in 1 .. n : Glyphs(w)[k] \in G
    <3> HIDE DEF G
    <3> QED BY <1>1, ElementOfSeq
  <2> HIDE DEF G
  <2> QED BY <1>1, <2>1 DEF Widths
<1> DEFINE a(k) == g[k].areas
           At(k) == /\ a(k) \in Seq(Area) /\ Len(a(k)) = k
                    /\ g[k].edge \in Int /\ h[k] \in Nat
                    /\ g[k].edge = (w.width - 1) - h[k]
                    /\ \A i \in 1 .. k : a(k)[i].image = Glyphs(w)[i]
                    /\ \A i \in 1 .. k - 1 : a(k)[i].left = a(k)[i + 1].right + 1
                    /\ k > 0 => /\ a(k)[1].right = w.width - 2
                                /\ a(k)[k].left = g[k].edge
           T == {k \in 0 .. n : At(k)}
<1> HIDE DEF n, G, wide
<1>5. 0 \in T
  <2>1. g[0] = [edge |-> w.width - 1, areas |-> <<>>] /\ h[0] = 0
    BY <1>2, <1>3 DEF Laying, Sums
  <2>2. g[0].edge = w.width - 1 /\ a(0) = <<>>
    BY <2>1
  <2>3. a(0) \in Seq(Area) /\ Len(a(0)) = 0
    BY <2>2
  <2>4. At(0)
    <3> HIDE DEF Area
    <3>1. g[0].edge \in Int /\ h[0] \in Nat /\ g[0].edge = (w.width - 1) - h[0]
      BY <2>1, <2>2
    <3>2. 1 .. 0 = {} /\ 1 .. 0 - 1 = {} /\ ~(0 > 0)
      OBVIOUS
    <3> HIDE DEF a
    <3> QED BY <2>3, <3>1, <3>2
  <2> HIDE DEF At
  <2> QED BY <1>1, <2>4
<1>6. ASSUME NEW k \in 0 .. n - 1, k \in T
      PROVE  k + 1 \in T
  <2>1. k \in Nat /\ k + 1 \in 1 .. n /\ (k + 1) - 1 = k /\ k + 1 \in 0 .. n
    BY <1>1
  <2>2. At(k)
    <3> HIDE DEF At
    <3> QED BY <1>6
  <2> DEFINE e == g[k].edge
             x == wide[k + 1]
             image == Glyphs(w)[k + 1]
             s == a(k)
             t == a(k + 1)
             new == [image |-> image, left |-> e - x, right |-> e - 1, top |-> - Len(s) - 1]
  <2>3. /\ e \in Int /\ h[k] \in Nat /\ x \in Nat /\ image \in G
        /\ e = (w.width - 1) - h[k] /\ s \in Seq(Area) /\ Len(s) = k
    BY <1>4, <2>1, <2>2
  <2>4. g[k + 1] = Beside(g[k], Glyph(w, k + 1))
    <3>1. g[k + 1] = Beside(g[(k + 1) - 1], Glyph(w, k + 1))
      BY <1>2, <2>1 DEF Laying
    <3> QED BY <2>1, <3>1
  <2>5. Glyph(w, k + 1).image = image /\ Glyph(w, k + 1).width = x
    BY <1>4, <2>1 DEF Glyph
  <2>6. g[k + 1].edge = e - x
    <3>1. Beside(g[k], Glyph(w, k + 1)).edge = g[k].edge - Glyph(w, k + 1).width
      BY DEF Beside
    <3> QED BY <2>4, <2>5, <3>1
  <2>15. t = Append(s, new)
    <3> DEFINE gl == Glyph(w, k + 1)
    <3>1. Beside(g[k], gl).areas =
            Append(g[k].areas, [image |-> gl.image, left |-> g[k].edge - gl.width,
                                right |-> g[k].edge - 1, top |-> - Len(g[k].areas) - 1])
      <4> HIDE DEF gl
      <4> QED BY DEF Beside
    <3>2. gl.image = image /\ gl.width = x
      BY <2>5
    <3> HIDE DEF gl, x, image
    <3>3. Beside(g[k], gl).areas = Append(s, new)
      BY <3>1, <3>2, Zenon
    <3>4. t = Beside(g[k], gl).areas
      BY <2>4 DEF gl
    <3> QED BY <3>3, <3>4
  <2>7. h[k + 1] = h[k] + x
    BY <1>3, <2>1 DEF Sums, Plus
  <2>8. new \in Area /\ new.image = image /\ new.left = e - x /\ new.right = e - 1
    <3>1. - Len(s) - 1 \in Int /\ e - x \in Int /\ e - 1 \in Int
      BY <2>1, <2>3
    <3> HIDE DEF e, x, image, s
    <3> QED BY <2>3, <3>1
  <2> HIDE DEF new, Area
  <2>9. t \in Seq(Area) /\ Len(t) = k + 1 /\ t[k + 1] = new /\ \A i \in 1 .. k : t[i] = s[i]
    <3>1. new \in Area
      BY <2>8
    <3> HIDE DEF s, t, a
    <3> QED BY <2>1, <2>3, <2>15, <3>1
  <2>10. g[k + 1].edge \in Int /\ h[k + 1] \in Nat /\ g[k + 1].edge = (w.width - 1) - h[k + 1]
    <3> DEFINE b == g[k + 1].edge
               c == h[k + 1]
               d == h[k]
               z == w.width
    <3>1. b = e - x /\ c = d + x /\ e = (z - 1) - d /\ z \in Nat
          /\ e \in Int /\ d \in Nat /\ x \in Nat
      BY <2>3, <2>6, <2>7
    <3>2. b \in Int /\ c \in Nat /\ b = (z - 1) - c
      <4> HIDE DEF b, c, d, e, x, z
      <4> QED BY <3>1
    <3> QED BY <3>2
  <2>11. \A i \in 1 .. k + 1 : t[i].image = Glyphs(w)[i]
    <3>1. SUFFICES ASSUME NEW i \in 1 .. k + 1 PROVE t[i].image = Glyphs(w)[i]
      OBVIOUS
    <3>2. CASE i = k + 1
      BY <2>8, <2>9, <3>2
    <3>3. CASE i # k + 1
      <4>1. i \in 1 .. k
        BY <2>1, <3>3
      <4>2. s[i].image = Glyphs(w)[i]
        BY <2>2, <4>1
      <4> QED BY <2>9, <4>1, <4>2
    <3> QED BY <3>2, <3>3
  <2>12. \A i \in 1 .. (k + 1) - 1 : t[i].left = t[i + 1].right + 1
    <3>1. SUFFICES ASSUME NEW i \in 1 .. k PROVE t[i].left = t[i + 1].right + 1
      BY <2>1
    <3>2. CASE i = k
      <4>1. t[i + 1].right + 1 = e
        <5>1. t[i + 1].right = e - 1
          BY <2>8, <2>9, <3>2
        <5> QED BY <2>3, <5>1
      <4>2. s[k].left = e
        BY <2>2, <3>2
      <4>3. t[k] = s[k]
        BY <2>9, <3>2
      <4> QED BY <3>2, <4>1, <4>2, <4>3
    <3>3. CASE i # k
      <4>1. i \in 1 .. k - 1 /\ i + 1 \in 1 .. k
        BY <2>1, <3>3
      <4>2. s[i].left = s[i + 1].right + 1
        BY <2>2, <4>1
      <4>3. t[i] = s[i] /\ t[i + 1] = s[i + 1]
        BY <2>9, <4>1
      <4> QED BY <4>2, <4>3
    <3> QED BY <3>2, <3>3
  <2>13. t[1].right = w.width - 2 /\ t[k + 1].left = g[k + 1].edge
    <3>1. t[k + 1].left = g[k + 1].edge
      BY <2>6, <2>8, <2>9
    <3>2. CASE k = 0
      <4>1. h[0] = 0
        BY <1>3 DEF Sums
      <4>2. t[1].right = e - 1
        BY <2>8, <2>9, <3>2
      <4> QED BY <2>3, <3>1, <3>2, <4>1, <4>2
    <3>3. CASE k > 0
      <4>1. 1 \in 1 .. k
        BY <2>1, <3>3
      <4>2. s[1].right = w.width - 2
        BY <2>2, <3>3
      <4>3. t[1] = s[1]
        BY <2>9, <4>1
      <4> QED BY <3>1, <4>2, <4>3
    <3> QED BY <2>1, <3>2, <3>3
  <2>14. At(k + 1)
    BY <2>9, <2>10, <2>11, <2>12, <2>13
  <2> HIDE DEF At
  <2> QED BY <2>1, <2>14
<1>7. At(n)
  <2> HIDE DEF At
  <2>1. n \in T
    <3> HIDE DEF T
    <3>1. 0 .. n \subseteq T
      BY <1>1, <1>5, <1>6, Induction
    <3> QED BY <1>1, <3>1
  <2> QED BY <2>1
<1>8. LaidOut(w) = a(n) /\ h[n] = NumberWidth(w)
  BY <1>1, <1>2, <1>3 DEF Laying, Sums
<1>9. DOMAIN a(n) = 1 .. n
  <2>1. a(n) \in Seq(Area) /\ Len(a(n)) = n
    BY <1>7
  <2> HIDE DEF a, Area
  <2> QED BY <2>1
<1> HIDE DEF Area
<1> QED BY <1>1, <1>7, <1>8, <1>9 DEF n

(* The digits of which HasDigits speaks are those of the value.            *)
LEMMA HasDigitsIs ==
  ASSUME NEW v \in 0 .. 100, NEW w, w.value = v, w.digits = DigitsOf(v), HasDigits(w)
  PROVE  \A i \in 1 .. Digits(v) :
           /\ UsedDigits(w)[i] < w.size
           /\ w.images[UsedDigits(w)[i] + 1] = UsedDigits(w)[i]
<1> DEFINE top == Max({1, v})
           d == DigitsOf(v)
           Has(x) == x < w.size /\ w.images[x + 1] = x
<1>1. top >= 1 /\ top >= v /\ top \in Nat
  <2> DEFINE S == {1, v}
  <2>1. S \in SUBSET Nat /\ S # {} /\ \A x \in S : x <= 101
    OBVIOUS
  <2>2. 1 \in S /\ v \in S /\ 101 \in Nat
    OBVIOUS
  <2> HIDE DEF S
  <2>3. Max(S) \in S /\ \A x \in S : Max(S) >= x
    BY <2>1, <2>2, MaxIs
  <2> QED BY <2>1, <2>2, <2>3 DEF S
<1> HIDE DEF top
<1>2. \A n \in {1, 10, 100} : n <= top => Has((v \div n) % 10)
  BY DEF HasDigits, top
<1>3. d[1] = v % 10 /\ d[2] = (IF v < 10 THEN -1 ELSE (v \div 10) % 10)
      /\ d[3] = IF v < 100 THEN -1 ELSE 1
  BY DigitsAre
<1>4. \A i \in 1 .. Digits(v) : UsedDigits(w)[i] = d[i]
  BY UsedIs
<1> HIDE DEF Has, d
<1>5. Has(d[1])
  <2>1. Has((v \div 1) % 10)
    BY <1>1, <1>2
  <2>2. v \div 1 = v
    OBVIOUS
  <2> QED BY <1>3, <2>1, <2>2
<1>6. v >= 10 => Has(d[2])
  BY <1>1, <1>2, <1>3
<1>7. v >= 100 => Has(d[3])
  <2>1. SUFFICES ASSUME v >= 100 PROVE Has(d[3])
    OBVIOUS
  <2>2. Has((v \div 100) % 10)
    BY <1>1, <1>2, <2>1
  <2>3. (v \div 100) % 10 = 1
    <3>1. v = 100
      BY <2>1
    <3> QED BY <3>1
  <2> QED BY <1>3, <2>1, <2>2, <2>3
<1>8. ASSUME NEW i \in 1 .. Digits(v)
      PROVE  Has(d[i])
  <2>1. i = 1 \/ (i = 2 /\ v >= 10) \/ (i = 3 /\ v >= 100)
    BY DEF Digits
  <2> QED BY <1>5, <1>6, <1>7, <2>1
<1>9. \A i \in 1 .. Digits(v) : Has(UsedDigits(w)[i])
  BY <1>4, <1>8
<1> QED BY <1>9 DEF Has

(* What the areas say, read from the left.                                 *)
ReadsAs(w) ==
  LET laid == Reverse(LaidOut(w))
      n == Len(laid)
      digits == [i \in 1 .. (IF w.percent THEN n - 1 ELSE n) |-> laid[i].image]
  IN  /\ Number(digits) = w.value
      /\ digits[1] = 0 => w.value = 0
      /\ \A i \in 1 .. n - 1 : laid[i + 1].left = laid[i].right + 1
      /\ w.percent => laid[n].image = PercentSign
      /\ laid[1].left = -1 /\ laid[n].right = w.width - 2

LEMMA NumberIsRead ==
  ASSUME NEW v \in 0 .. 100, NEW w, w.value = v, w.digits = DigitsOf(v), Measured(w),
         w.percent \in BOOLEAN, HasDigits(w), w.width \in Nat, w.width = NumberWidth(w)
  PROVE  ReadsAs(w)
<1> DEFINE out == LaidOut(w)
           laid == Reverse(out)
           m == Digits(v)
           n == Len(Glyphs(w))
           sign == IF w.percent THEN 1 ELSE 0
           digits == [i \in 1 .. (IF w.percent THEN Len(laid) - 1 ELSE Len(laid))
                        |-> laid[i].image]
<1>1. /\ n = sign + m /\ (w.percent => Glyphs(w)[1] = PercentSign)
      /\ \A i \in 1 .. m : Glyphs(w)[sign + i] = UsedDigits(w)[i]
  <2>1. \A i \in 1 .. Digits(v) :
           /\ UsedDigits(w)[i] < w.size
           /\ w.images[UsedDigits(w)[i] + 1] = UsedDigits(w)[i]
    BY HasDigitsIs
  <2> QED BY <2>1, FullGlyphs
<1>2. /\ n \in Nat /\ Len(out) = n /\ DOMAIN out = 1 .. n
      /\ \A i \in 1 .. n : out[i].image = Glyphs(w)[i]
      /\ \A i \in 1 .. n - 1 : out[i].left = out[i + 1].right + 1
      /\ n > 0 => /\ out[1].right = w.width - 2
                  /\ out[n].left = (w.width - 1) - NumberWidth(w)
  BY LaidOutIs
<1>3. \A i \in 1 .. m : UsedDigits(w)[i] = DigitsOf(v)[i]
  BY UsedIs
<1>4. m \in 1 .. 3
  BY DEF Digits
<1>5. sign \in {0, 1} /\ (w.percent => sign = 1) /\ (~w.percent => sign = 0)
  OBVIOUS
<1>6. laid = [i \in 1 .. Len(out) |-> out[(Len(out) - i) + 1]]
  BY DEF Reverse
<1> HIDE DEF out, laid, m, n, sign
<1>7. Len(laid) = n /\ \A i \in 1 .. n : laid[i] = out[(n - i) + 1]
  BY <1>2, <1>6
<1>8. n >= 1 /\ n = sign + m
  BY <1>1, <1>4, <1>5
<1>9. DOMAIN digits = 1 .. m /\ \A i \in 1 .. m : digits[i] = laid[i].image
  <2>1. (IF w.percent THEN Len(laid) - 1 ELSE Len(laid)) = m
    BY <1>4, <1>5, <1>7, <1>8
  <2> QED BY <2>1
<1>10. \A i \in 1 .. m : digits[i] = DigitsOf(v)[m - i + 1]
  <2>1. SUFFICES ASSUME NEW i \in 1 .. m PROVE digits[i] = DigitsOf(v)[m - i + 1]
    OBVIOUS
  <2>2. i \in 1 .. n /\ (n - i) + 1 \in 1 .. n /\ m - i + 1 \in 1 .. m
        /\ (n - i) + 1 = sign + (m - i + 1)
    BY <1>4, <1>5, <1>8
  <2>3. digits[i] = out[(n - i) + 1].image
    BY <1>7, <1>9, <2>2
  <2>4. out[(n - i) + 1].image = Glyphs(w)[sign + (m - i + 1)]
    BY <1>2, <2>2
  <2>5. Glyphs(w)[sign + (m - i + 1)] = UsedDigits(w)[m - i + 1]
    BY <1>1, <2>2
  <2> QED BY <1>3, <2>2, <2>3, <2>4, <2>5
<1>11. Number(digits) = w.value /\ (digits[1] = 0 => w.value = 0)
  <2> HIDE DEF digits
  <2> QED BY <1>9, <1>10, ValueIsRead DEF m
<1> HIDE DEF digits
<1>12. \A i \in 1 .. n - 1 : laid[i + 1].left = laid[i].right + 1
  <2>1. SUFFICES ASSUME NEW i \in 1 .. n - 1 PROVE laid[i + 1].left = laid[i].right + 1
    OBVIOUS
  <2>2. i \in 1 .. n /\ i + 1 \in 1 .. n /\ n - i \in 1 .. n - 1 /\ (n - (i + 1)) + 1 = n - i
        /\ (n - i) + 1 \in 1 .. n
    BY <1>2
  <2>3. laid[i + 1] = out[n - i] /\ laid[i] = out[(n - i) + 1]
    BY <1>7, <2>2
  <2>4. out[n - i].left = out[(n - i) + 1].right + 1
    BY <1>2, <2>2
  <2> QED BY <2>3, <2>4
<1>13. laid[1] = out[n] /\ laid[n] = out[1]
  <2>1. 1 \in 1 .. n /\ n \in 1 .. n /\ (n - 1) + 1 = n /\ (n - n) + 1 = 1
    BY <1>2, <1>8
  <2> QED BY <1>7, <2>1
<1>14. w.percent => laid[n].image = PercentSign
  <2>1. 1 \in 1 .. n
    BY <1>2, <1>8
  <2> QED BY <1>1, <1>2, <1>13, <2>1
<1>15. laid[1].left = -1 /\ laid[n].right = w.width - 2
  <2>1. n > 0
    BY <1>2, <1>8
  <2>2. laid[1].left = (w.width - 1) - NumberWidth(w) /\ laid[n].right = w.width - 2
    BY <1>2, <1>13, <2>1
  <2>3. (w.width - 1) - NumberWidth(w) = -1
    OBVIOUS
  <2> QED BY <2>2, <2>3
<1> DEFINE Right(s) == LET l == Len(s)
                           ds == [i \in 1 .. (IF w.percent THEN l - 1 ELSE l) |-> s[i].image]
                       IN  /\ Number(ds) = w.value
                           /\ ds[1] = 0 => w.value = 0
                           /\ \A i \in 1 .. l - 1 : s[i + 1].left = s[i].right + 1
                           /\ w.percent => s[l].image = PercentSign
                           /\ s[1].left = -1 /\ s[l].right = w.width - 2
<1>16. Right(laid)
  BY <1>7, <1>11, <1>12, <1>14, <1>15, Zenon DEF digits
<1>17. laid = Reverse(LaidOut(w))
  BY DEF laid, out
<1> QED BY <1>16, <1>17, Zenon DEF ReadsAs

-----------------------------------------------------------------------------
(* The widget on the screen. *)

(* What the file determines.                                               *)
SameFile(w, v) ==
  /\ v.type = w.type /\ v.size = w.size /\ v.images = w.images
  /\ v.percent = w.percent /\ v.rate = w.rate /\ v.buffers = w.buffers
  /\ v.blank = w.blank

(* What is drawn of it. *)
SameFrame(w, v) ==
  /\ v.digits = w.digits /\ v.value = w.value /\ v.width = w.width
  /\ v.frame = w.frame

(* The images of an object have widths.                                    *)
MeasuredKeys(o) ==
  /\ Width(PercentSign) \in Nat
  /\ \A i \in 1 .. Len(o.keys) : Width(o.keys[i]) \in Nat

(* What the parser says of a widget.                                       *)
LEMMA FiledIs ==
  ASSUME NEW o \in UiObject, o.mode \in Types, MeasuredKeys(o), NEW w, Filed(w, o)
  PROVE  /\ w \in WidgetRecord /\ Measured(w)
         /\ w.type = o.mode /\ w.percent = o.percent /\ Paced(w.rate, o)
         /\ w.size = Len(o.keys) % Full /\ w.size < Full /\ w.size \in Nat
         /\ w.type # "number" => Keyed(w)
         /\ Destructor(w) = w.buffers
<1>1. PICK m \in Nat : Table(w, o, m) /\ (o.mode # "number" => m = w.size)
  BY DEF Filed
<1>2. w \in WidgetRecord /\ w.type = o.mode /\ w.percent = o.percent /\ Paced(w.rate, o)
      /\ w.size = Len(o.keys) % Full
  BY <1>1 DEF Table
<1>3. w.size \in Nat /\ w.size < Full /\ w.size <= Len(o.keys) /\ Len(o.keys) \in Nat
  <2> DEFINE n == Len(o.keys)
  <2>1. n \in Nat
    BY LenProperties DEF UiObject
  <2>2. n % Full \in Nat /\ n % Full <= n /\ n % Full \in 0 .. Full - 1
    <3> HIDE DEF n
    <3> QED BY <2>1, FullIs
  <2>3. n % Full < Full
    <3>1. \A r \in 0 .. Full - 1 : r < Full
      BY WidgetAssumption
    <3> HIDE DEF n
    <3> QED BY <2>2, <3>1, Zenon
  <2> QED BY <1>2, <2>1, <2>2, <2>3
<1>4. w.images \in Seq(Setting) /\ Len(w.images) = Len(o.keys)
      /\ \A i \in 1 .. Len(o.keys) : w.images[i] = IF i <= m THEN o.keys[i] ELSE None
  BY <1>1 DEF Table, Filled
<1>5. Measured(w)
  <2>1. Width(PercentSign) \in Nat
    BY DEF MeasuredKeys
  <2>2. ASSUME NEW i \in 1 .. w.size, w.images[i] # None
        PROVE  Width(w.images[i]) \in Nat
    <3>1. i \in 1 .. Len(o.keys)
      BY <1>3
    <3>2. w.images[i] = o.keys[i]
      BY <1>4, <2>2, <3>1
    <3>3. Width(o.keys[i]) \in Nat
      BY <3>1 DEF MeasuredKeys
    <3> QED BY <3>2, <3>3
  <2> QED BY <1>3, <1>4, <2>1, <2>2 DEF Measured
<1>6. ASSUME w.type # "number"
      PROVE  Keyed(w)
  <2>1. ASSUME NEW i \in 1 .. w.size
        PROVE  w.images[i] \in Int
    <3>1. i \in 1 .. Len(o.keys) /\ i <= m
      BY <1>1, <1>2, <1>3, <1>6
    <3>2. w.images[i] = o.keys[i]
      BY <1>4, <3>1
    <3> QED BY <3>1, <3>2, ElementOfSeq DEF UiObject
  <2> QED BY <1>3, <2>1 DEF Keyed
<1>7. Destructor(w) = w.buffers
  BY <1>1, TableIsBalanced
<1> QED BY <1>2, <1>3, <1>5, <1>6, <1>7

(* What follows from the file stays with the file.                         *)
LEMMA FiledStays ==
  ASSUME NEW o, NEW w, NEW v \in WidgetRecord, Filed(w, o), SameFile(w, v)
  PROVE  Filed(v, o)
<1>1. PICK m \in Nat : Table(w, o, m) /\ (o.mode # "number" => m = w.size)
  BY DEF Filed
<1>2. Table(v, o, m)
  BY <1>1, Zenon DEF Table, SameFile
<1>3. v.size = w.size
  BY DEF SameFile
<1> QED BY <1>1, <1>2, <1>3 DEF Filed

(* So do the images of a value.                                            *)
LEMMA BarStays ==
  ASSUME NEW w, NEW v, SameFile(w, v), NEW x
  PROVE  /\ Nearest(v, x) = Nearest(w, x) /\ BarImage(v, x) = BarImage(w, x)
         /\ InTable(v, x) = InTable(w, x)
         /\ \A image : WidthOf(v, image) = WidthOf(w, image)
<1>1. v.size = w.size /\ v.images = w.images /\ v.blank = w.blank
  BY DEF SameFile
<1>2. \A i : Distance(v, x, i) = Distance(w, x, i)
  BY <1>1, Zenon DEF Distance
<1>3. Nearest(v, x) = Nearest(w, x)
  <2>1. {i \in 0 .. v.size - 1 :
           \A j \in 0 .. v.size - 1 : Distance(v, x, i) <= Distance(v, x, j)}
        = {i \in 0 .. w.size - 1 :
             \A j \in 0 .. w.size - 1 : Distance(w, x, i) <= Distance(w, x, j)}
    BY <1>1, <1>2
  <2> QED BY <2>1, Zenon DEF Nearest
<1>4. Closest(v, x) = Closest(w, x)
  BY <1>1, <1>2, <1>3, Zenon DEF Closest
<1>5. BarImage(v, x) = BarImage(w, x)
  BY <1>1, <1>4, Zenon DEF BarImage
<1>6. InTable(v, x) = InTable(w, x)
  BY <1>1, <1>4, Zenon DEF InTable
<1>7. \A image : WidthOf(v, image) = WidthOf(w, image)
  BY <1>1, Zenon DEF WidthOf
<1> QED BY <1>3, <1>5, <1>6, <1>7

LEMMA NumberStays ==
  ASSUME NEW w, NEW v, SameFile(w, v), v.digits = w.digits
  PROVE  NumberWidth(v) = NumberWidth(w) /\ Glyphs(v) = Glyphs(w)
<1>1. v.size = w.size /\ v.images = w.images /\ v.percent = w.percent /\ v.blank = w.blank
  BY DEF SameFile
<1>2. UsedDigits(v) = UsedDigits(w)
  BY Zenon DEF UsedDigits
<1>3. Glyphs(v) = Glyphs(w)
  BY <1>1, <1>2, Zenon DEF Glyphs
<1>4. \A image : WidthOf(v, image) = WidthOf(w, image)
  BY <1>1, Zenon DEF WidthOf
<1>5. Widths(v) = Widths(w)
  BY <1>3, <1>4, Zenon DEF Widths
<1> QED BY <1>3, <1>5, Zenon DEF NumberWidth, Widths

(* What a draw event does to a widget with a value.                        *)
Drawn(w, v) ==
  /\ v \in WidgetRecord /\ SameFile(w, v) /\ SameFrame(w, v)
  /\ v.src \in {None, w.src} \cup {w.images[i] : i \in 1 .. w.size}
  /\ w.type = "bar" /\ InTable(w, w.value) => v.painted = <<BarImage(w, w.value)>>

(* lv_draw_image changes what is painted, and nothing else.                *)
Painted(w, v, calls) ==
  /\ v \in WidgetRecord /\ SameFile(w, v) /\ SameFrame(w, v)
  /\ v.src = w.src
  /\ v.painted = IF w.src = None THEN <<>> ELSE [i \in 1 .. calls |-> w.src]

LEMMA PaintIs ==
  ASSUME NEW w \in WidgetRecord, NEW calls \in Nat
  PROVE  Painted(w, Paint(w, calls), calls)
<1> DEFINE p == IF w.src = None THEN <<>> ELSE [i \in 1 .. calls |-> w.src]
           v == Paint(w, calls)
<1>1. p \in Seq(Setting)
  <2>1. w.src \in Setting
    BY DEF WidgetRecord
  <2>2. [i \in 1 .. calls |-> w.src] \in Seq(Setting)
    BY <2>1
  <2>3. <<>> \in Seq(Setting)
    OBVIOUS
  <2> QED BY <2>2, <2>3, Zenon
<1>2. v = [w EXCEPT !.painted = p]
  BY DEF Paint
<1>3. v.painted = p => v.painted = IF w.src = None THEN <<>> ELSE [i \in 1 .. calls |-> w.src]
  OBVIOUS
<1> HIDE DEF p, v
<1>4. /\ v \in WidgetRecord /\ SameFile(w, v) /\ SameFrame(w, v)
      /\ v.src = w.src /\ v.painted = p
  BY <1>1, <1>2 DEF WidgetRecord, SameFile, SameFrame
<1>5. Painted(w, v, calls)
  BY <1>3, <1>4, Zenon DEF Painted
<1> QED BY <1>5 DEF v

(* lv_upgrade_event.                                                       *)
LEMMA DrawIs ==
  ASSUME NEW w \in WidgetRecord, NEW x \in 0 .. 100, w.value = x, w.digits = DigitsOf(x),
         Measured(w), w.type = "bar" => Keyed(w)
  PROVE  Drawn(w, Draw(w))
<1> DEFINE v == Draw(w)
<1>1. w.type \in Types
  BY DEF WidgetRecord
<1>2. CASE w.type = "number"
  <2> DEFINE calls == Len(LaidOut(w))
  <2>1. v = Paint(w, calls)
    BY <1>2, Zenon DEF Draw, RenderNumber
  <2>2. calls \in Nat
    <3>1. w.width \in Nat
      BY DEF WidgetRecord
    <3> QED BY <3>1, LaidOutIs
  <2> HIDE DEF calls, v
  <2>3. Painted(w, v, calls)
    BY <2>1, <2>2, PaintIs
  <2>4. Drawn(w, v)
    BY <1>2, <2>3 DEF Painted, Drawn
  <2> QED BY <2>4 DEF v
<1>3. CASE w.type = "bar"
  <2>1. GetValue(w) = x
    BY GetValueIs
  <2>2. v = IF InTable(w, x) THEN Paint([w EXCEPT !.src = BarImage(w, x)], 1) ELSE w
    BY <1>3, <2>1, Zenon DEF Draw, RenderBar
  <2>3. CASE ~InTable(w, x)
    <3>1. v = w
      BY <2>2, <2>3
    <3> HIDE DEF v
    <3>2. Drawn(w, v)
      BY <2>3, <3>1, Zenon DEF Drawn, SameFile, SameFrame
    <3> QED BY <3>2 DEF v
  <2>4. CASE InTable(w, x)
    <3> DEFINE image == BarImage(w, x)
               s == [w EXCEPT !.src = image]
    <3>1. image \in Int /\ Closest(w, x) + 1 \in 1 .. w.size
      BY <1>3, <2>4, BarImageIs
    <3>2. image = w.images[Closest(w, x) + 1]
      BY DEF BarImage
    <3>3. image \in Setting /\ image # None
      BY <3>1, WidgetAssumption DEF Setting
    <3>4. v = Paint(s, 1)
      BY <2>2, <2>4
    <3>5. image = BarImage(w, w.value)
      OBVIOUS
    <3> HIDE DEF image
    <3>6. s \in WidgetRecord /\ SameFile(w, s) /\ SameFrame(w, s) /\ s.src = image
      BY <3>3 DEF WidgetRecord, SameFile, SameFrame
    <3> HIDE DEF s, v
    <3>7. Painted(s, v, 1)
      BY <3>4, <3>6, PaintIs
    <3>8. v.painted = <<image>>
      <4>1. v.painted = [i \in 1 .. 1 |-> image]
        BY <3>3, <3>6, <3>7 DEF Painted
      <4>2. [i \in 1 .. 1 |-> image] = <<image>>
        OBVIOUS
      <4> QED BY <4>1, <4>2
    <3>9. v \in WidgetRecord /\ SameFile(w, v) /\ SameFrame(w, v) /\ v.src = image
      BY <3>6, <3>7, Zenon DEF Painted, SameFile, SameFrame
    <3>10. image \in {w.images[i] : i \in 1 .. w.size}
      BY <3>1, <3>2
    <3>11. Drawn(w, v)
      BY <3>5, <3>8, <3>9, <3>10, Zenon DEF Drawn
    <3> QED BY <3>11 DEF v
  <2> QED BY <2>3, <2>4
<1>4. CASE w.type \in {"circle", "anim"}
  <2>1. v = RenderAnim(w)
    BY <1>4 DEF Draw
  <2>2. CASE w.animated
    <3>1. v = Paint(w, 1)
      BY <2>1, <2>2, Zenon DEF RenderAnim
    <3> HIDE DEF v
    <3>2. Painted(w, v, 1)
      BY <3>1, PaintIs
    <3>3. Drawn(w, v)
      BY <1>4, <3>2 DEF Painted, Drawn
    <3> QED BY <3>3 DEF v
  <2>3. CASE ~w.animated
    <3>1. v = [w EXCEPT !.animated = TRUE, !.painted = <<>>]
      BY <2>1, <2>3 DEF RenderAnim
    <3> DEFINE a == TRUE
               p == <<>>
    <3>2. v = [w EXCEPT !.animated = a, !.painted = p] /\ a \in BOOLEAN /\ p \in Seq(Setting)
      BY <3>1
    <3> HIDE DEF v, a, p
    <3>3. v \in WidgetRecord /\ SameFile(w, v) /\ SameFrame(w, v) /\ v.src = w.src
      BY <3>2 DEF WidgetRecord, SameFile, SameFrame
    <3>4. Drawn(w, v)
      BY <1>4, <3>3 DEF Drawn
    <3> QED BY <3>4 DEF v
  <2> QED BY <2>2, <2>3
<1>5. CASE w.type = "custom_anim"
  <2>1. v = [w EXCEPT !.animated = UseArc]
    BY <1>5 DEF Draw
  <2>2. UseArc \in BOOLEAN
    BY WidgetAssumption
  <2> HIDE DEF v
  <2>3. v \in WidgetRecord /\ SameFile(w, v) /\ SameFrame(w, v) /\ v.src = w.src
    BY <2>1, <2>2 DEF WidgetRecord, SameFile, SameFrame
  <2>4. Drawn(w, v)
    BY <1>5, <2>3 DEF Drawn
  <2> QED BY <2>4 DEF v
<1> QED BY <1>1, <1>2, <1>3, <1>4, <1>5 DEF Types

(* lv_calc_number_mode_size and the other ones.                            *)
LEMMA ObjectWidthIs ==
  ASSUME NEW w \in WidgetRecord, NEW x \in 0 .. 100, w.digits = DigitsOf(x),
         Measured(w), w.type = "bar" => Keyed(w)
  PROVE  ObjectWidth(w, x) \in Nat
<1>1. CASE w.type = "number"
  <2>1. ObjectWidth(w, x) = NumberWidth(w)
    BY <1>1 DEF ObjectWidth
  <2> QED BY <2>1, WidthsAre
<1>2. CASE w.type = "bar"
  <2>1. ObjectWidth(w, x) = IF InTable(w, x) THEN WidthOf(w, BarImage(w, x)) ELSE 0
    BY <1>2, Zenon DEF ObjectWidth, BarWidth
  <2>2. ASSUME InTable(w, x)
        PROVE  WidthOf(w, BarImage(w, x)) \in Nat
    <3>1. Closest(w, x) + 1 \in 1 .. w.size /\ BarImage(w, x) \in Int
      BY <1>2, <2>2, BarImageIs
    <3>2. BarImage(w, x) = w.images[Closest(w, x) + 1] /\ BarImage(w, x) # None
      BY <3>1, WidgetAssumption DEF BarImage
    <3>3. Width(BarImage(w, x)) \in Nat
      BY <3>1, <3>2 DEF Measured
    <3> QED BY <3>3, WidthOfIs
  <2> QED BY <2>1, <2>2
<1>3. CASE w.type \in {"circle", "anim"}
  <2>1. ObjectWidth(w, x) = AnimWidth(w)
    BY <1>3 DEF ObjectWidth
  <2> QED BY <2>1, AnimWidthIs
<1>4. CASE w.type = "custom_anim"
  <2>1. ObjectWidth(w, x) = IF UseArc THEN w.rate ELSE 0
    BY <1>4 DEF ObjectWidth
  <2>2. w.rate \in Nat
    BY DEF WidgetRecord
  <2> QED BY <2>1, <2>2
<1> QED BY <1>1, <1>2, <1>3, <1>4 DEF WidgetRecord, Types

(* What the screen shows of a widget.                                      *)
Viewed(w) ==
  /\ \/ w.value = -1 /\ w.digits = NoDigits
     \/ w.value \in 0 .. 100 /\ w.digits = DigitsOf(w.value)
  /\ {w.src, w.frame} \subseteq {None} \cup ToSet(w.images)
  /\ w.type = "bar" /\ w.value \in 0 .. 100 /\ w.size >= 2 =>
       /\ w.painted = <<BarImage(w, w.value)>>
       /\ w.width = WidthOf(w, BarImage(w, w.value))
  /\ w.type = "number" /\ w.value \in 0 .. 100 => w.width = NumberWidth(w)

(* A widget of an object of the file, whatever happened to it.             *)
Good(w, o) == Filed(w, o) /\ Viewed(w)

LEMMA BareIsViewed ==
  ASSUME NEW w, Bare(w)
  PROVE  Viewed(w)
<1>1. w.value = -1 /\ w.digits = NoDigits /\ w.src = None /\ w.frame = None
  BY DEF Bare
<1>2. w.value \notin 0 .. 100
  BY <1>1
<1> QED BY <1>1, <1>2 DEF Viewed

LEMMA TableHolds ==
  ASSUME NEW w, Measured(w), NEW i \in 1 .. w.size
  PROVE  w.images[i] \in ToSet(w.images)
<1>1. i \in DOMAIN w.images
  BY DEF Measured
<1> QED BY <1>1 DEF ToSet

(* lv_upgrade_set_progress.                                                *)
LEMMA SetProgressIs ==
  ASSUME NEW o \in UiObject, o.mode \in Types, MeasuredKeys(o),
         NEW w, Good(w, o), NEW x \in 0 .. 100
  PROVE  LET v == SetProgress(w, x)
         IN  Good(v, o) /\ SameFile(w, v) /\ v.value = x
<1>1. /\ w \in WidgetRecord /\ Measured(w) /\ w.type = o.mode
      /\ w.size \in Nat /\ (w.type # "number" => Keyed(w))
  BY FiledIs DEF Good
<1>2. Viewed(w) /\ Filed(w, o)
  BY DEF Good
<1>3. CASE w.value = x
  <2>1. SetProgress(w, x) = w
    BY <1>3 DEF SetProgress
  <2>2. SameFile(w, w)
    BY DEF SameFile
  <2> QED BY <1>3, <2>1, <2>2
<1>4. CASE w.value # x
  <2> DEFINE d == DigitsOf(x)
             set == [w EXCEPT !.digits = d, !.value = x]
             width == ObjectWidth(set, x)
             sized == [set EXCEPT !.width = width]
             v == Draw(sized)
  <2>1. SetProgress(w, x) = v
    BY <1>4 DEF SetProgress
  <2>2. d \in [1 .. LV_PROGRESS_DIGIT -> Int] /\ d = DigitsOf(x)
    <3>1. DOMAIN d = 1 .. 3 /\ \A i \in 1 .. 3 : d[i] \in -1 .. 9
      BY DigitsAre
    <3>2. LV_PROGRESS_DIGIT = 3
      BY DEF LV_PROGRESS_DIGIT
    <3>3. d = [i \in 1 .. LV_PROGRESS_DIGIT |-> d[i]]
      BY Zenon DEF DigitsOf
    <3>4. \A i \in 1 .. 3 : d[i] \in Int
      BY <3>1
    <3> HIDE DEF d
    <3>5. d \in [1 .. LV_PROGRESS_DIGIT -> Int]
      BY <3>2, <3>3, <3>4, Zenon
    <3> QED BY <3>5 DEF d
  <2> HIDE DEF d
  <2>3. /\ set \in WidgetRecord /\ SameFile(w, set)
        /\ set.digits = d /\ set.value = x /\ set.src = w.src /\ set.frame = w.frame
    <3>1. set = [w EXCEPT !.digits = d, !.value = x] /\ x \in Int
      OBVIOUS
    <3>2. d \in [1 .. LV_PROGRESS_DIGIT -> Int] /\ w \in WidgetRecord
      BY <1>1, <2>2
    <3> HIDE DEF set
    <3> QED BY <3>1, <3>2 DEF WidgetRecord, SameFile
  <2> HIDE DEF set
  <2>4. Measured(set) /\ (set.type = "bar" => Keyed(set))
    BY <1>1, <2>3, Zenon DEF SameFile, Measured, Keyed
  <2>5. width \in Nat
    BY <2>2, <2>3, <2>4, ObjectWidthIs
  <2>6. width = ObjectWidth(set, x)
    OBVIOUS
  <2> HIDE DEF width
  <2>7. /\ sized \in WidgetRecord /\ SameFile(set, sized)
        /\ sized.digits = set.digits /\ sized.value = set.value
        /\ sized.src = set.src /\ sized.frame = set.frame /\ sized.width = width
    BY <2>3, <2>5 DEF WidgetRecord, SameFile
  <2> HIDE DEF sized
  <2>8. Measured(sized) /\ (sized.type = "bar" => Keyed(sized))
    BY <2>4, <2>7, Zenon DEF SameFile, Measured, Keyed
  <2>9. Drawn(sized, v)
    <3>1. sized.value = x /\ sized.digits = DigitsOf(x)
      BY <2>2, <2>3, <2>7
    <3> QED BY <2>7, <2>8, <3>1, DrawIs
  <2> HIDE DEF v
  <2>10. v \in WidgetRecord /\ SameFile(w, v) /\ SameFile(set, v) /\ SameFile(sized, v)
    BY <2>3, <2>7, <2>9, Zenon DEF Drawn, SameFile
  <2>11. /\ v.digits = d /\ v.value = x /\ v.width = width /\ v.frame = w.frame
         /\ v.src \in {None, w.src} \cup {w.images[i] : i \in 1 .. w.size}
    <3>1. sized.images = w.images /\ sized.size = w.size /\ sized.src = w.src
      BY <2>3, <2>7, Zenon DEF SameFile
    <3>2. /\ v.digits = sized.digits /\ v.value = sized.value /\ v.width = sized.width
          /\ v.frame = sized.frame
          /\ v.src \in {None, sized.src} \cup {sized.images[i] : i \in 1 .. sized.size}
      BY <2>9 DEF Drawn, SameFrame
    <3> QED BY <2>3, <2>7, <3>1, <3>2
  <2>12. Filed(v, o)
    BY <1>2, <2>10, FiledStays
  <2>13. v.type = w.type /\ v.size = w.size /\ v.images = w.images
    BY <2>10, Zenon DEF SameFile
  <2>14. {v.src, v.frame} \subseteq {None} \cup ToSet(v.images)
    <3>1. \A i \in 1 .. w.size : w.images[i] \in ToSet(w.images)
      BY <1>1, TableHolds
    <3>2. {w.src, w.frame} \subseteq {None} \cup ToSet(w.images)
      BY <1>2 DEF Viewed
    <3> QED BY <2>11, <2>13, <3>1, <3>2
  <2>15. ASSUME v.type = "bar", v.size >= 2
         PROVE  /\ v.painted = <<BarImage(v, x)>>
                /\ v.width = WidthOf(v, BarImage(v, x))
    <3>1. set.type = "bar" /\ set.size >= 2 /\ sized.type = "bar" /\ sized.size >= 2
      BY <2>10, <2>15, Zenon DEF SameFile
    <3>2. InTable(set, x) /\ InTable(sized, x)
      <4>1. set.size \in Nat /\ sized.size \in Nat
        BY <2>3, <2>7 DEF WidgetRecord
      <4>2. set.size > 0 /\ sized.size > 0 /\ x \in Int
        BY <3>1, <4>1
      <4> QED BY <2>4, <2>8, <3>1, <4>2, ClosestIs
    <3>3. v.painted = <<BarImage(sized, x)>>
      <4>1. sized.value = x
        BY <2>3, <2>7
      <4> QED BY <2>9, <3>1, <3>2, <4>1 DEF Drawn
    <3>4. width = WidthOf(set, BarImage(set, x))
      <4>1. ObjectWidth(set, x) = BarWidth(set, x)
        BY <3>1 DEF ObjectWidth
      <4> QED BY <2>6, <3>2, <4>1 DEF BarWidth
    <3>5. BarImage(v, x) = BarImage(sized, x) /\ BarImage(v, x) = BarImage(set, x)
          /\ \A image : WidthOf(v, image) = WidthOf(set, image)
      BY <2>10, BarStays
    <3> QED BY <2>11, <3>3, <3>4, <3>5
  <2>16. ASSUME v.type = "number"
         PROVE  v.width = NumberWidth(v)
    <3>1. set.type = "number"
      BY <2>10, <2>16, Zenon DEF SameFile
    <3>2. width = NumberWidth(set)
      BY <2>6, <3>1 DEF ObjectWidth
    <3>3. NumberWidth(v) = NumberWidth(set)
      <4>1. v.digits = set.digits
        BY <2>3, <2>11
      <4> QED BY <2>10, <4>1, NumberStays
    <3> QED BY <2>11, <3>2, <3>3
  <2>17. Viewed(v)
    BY <2>2, <2>11, <2>14, <2>15, <2>16 DEF Viewed
  <2> QED BY <2>1, <2>10, <2>11, <2>12, <2>17 DEF Good
<1> QED BY <1>3, <1>4

(* A step of the animation.                                                *)
LEMMA TimerIs ==
  ASSUME NEW o \in UiObject, o.mode \in Types, MeasuredKeys(o),
         NEW w, Good(w, o), w.type \in {"circle", "anim"}, w.animated, w.size > 0,
         NEW index \in 0 .. w.size
  PROVE  LET v == Draw(ChangeIndex(w, index))
         IN  Good(v, o) /\ SameFile(w, v)
<1>1. /\ w \in WidgetRecord /\ Measured(w) /\ w.size \in Nat
  BY FiledIs DEF Good
<1>2. Viewed(w) /\ Filed(w, o)
  BY DEF Good
<1> DEFINE i == (index % w.size) + 1
           image == w.images[i]
           c == ChangeIndex(w, index)
           v == Draw(c)
<1>3. i \in 1 .. w.size
  <2> DEFINE n == w.size
  <2>1. index \in Nat /\ n \in Nat /\ n > 0
    BY <1>1
  <2> HIDE DEF n
  <2>2. index % n \in 0 .. n - 1
    BY <2>1
  <2>3. (index % n) + 1 \in 1 .. n
    BY <2>1, <2>2
  <2> QED BY <2>3 DEF n
<1> HIDE DEF i
<1>4. image \in Setting /\ image \in ToSet(w.images)
  <2>1. i \in 1 .. Len(w.images) /\ w.images \in Seq(Setting)
    BY <1>1, <1>3 DEF Measured
  <2>2. image \in Setting
    BY <2>1, ElementOfSeq
  <2> QED BY <1>1, <1>3, <2>2, TableHolds
<1>5. c = IF image = None THEN w ELSE [w EXCEPT !.frame = image]
  BY Zenon DEF ChangeIndex, i
<1> HIDE DEF image, c
<1>6. /\ c \in WidgetRecord /\ SameFile(w, c) /\ c.src = w.src /\ c.animated
      /\ c.digits = w.digits /\ c.value = w.value /\ c.frame \in {w.frame, image}
  <2>1. CASE image = None
    <3>1. c = w
      BY <1>5, <2>1
    <3> QED BY <1>1, <3>1, Zenon DEF SameFile
  <2>2. CASE image # None
    <3>1. c = [w EXCEPT !.frame = image]
      BY <1>5, <2>2
    <3> QED BY <1>1, <1>4, <3>1 DEF WidgetRecord, SameFile
  <2> QED BY <2>1, <2>2
<1>7. v = Paint(c, 1)
  <2>1. c.type \in {"circle", "anim"}
    BY <1>6 DEF SameFile
  <2>2. v = RenderAnim(c)
    BY <2>1 DEF Draw
  <2> QED BY <1>6, <2>2 DEF RenderAnim
<1> HIDE DEF v
<1>8. Painted(c, v, 1)
  BY <1>6, <1>7, PaintIs
<1>9. v \in WidgetRecord /\ SameFile(w, v)
  BY <1>6, <1>8, Zenon DEF Painted, SameFile
<1>10. Filed(v, o)
  BY <1>2, <1>9, FiledStays
<1>11. v.digits = w.digits /\ v.value = w.value /\ v.src = w.src
       /\ v.frame \in {w.frame, image} /\ v.type = w.type /\ v.images = w.images
  BY <1>6, <1>8, <1>9 DEF Painted, SameFrame, SameFile
<1>12. v.type # "bar" /\ v.type # "number"
  BY <1>11
<1>13. Viewed(v)
  BY <1>2, <1>4, <1>11, <1>12 DEF Viewed
<1> QED BY <1>9, <1>10, <1>13 DEF Good, v, c

(* A widget that reads outside its table or divides by zero comes from a   *)
(* list that is unfit.                                                     *)
LEMMA UnsafeIs ==
  ASSUME NEW o \in UiObject, o.mode \in Types, MeasuredKeys(o),
         NEW w, Good(w, o), w.type = "bar" => w.value \in 0 .. 100, Unsafe(w)
  PROVE  Unfit(o)
<1>1. /\ w.type = o.mode /\ Paced(w.rate, o)
      /\ w.size = Len(o.keys) % Full /\ w.size \in Nat
      /\ w.type # "number" => Keyed(w)
  BY FiledIs DEF Good
<1>2. CASE w.type = "bar" /\ ~InTable(w, GetValue(w))
  <2> DEFINE x == w.value
  <2>1. x \in 0 .. 100 /\ w.digits = DigitsOf(x)
    <3>1. x \in 0 .. 100 /\ x # -1
      BY <1>2
    <3> QED BY <3>1 DEF Good, Viewed
  <2>2. GetValue(w) = x
    <3> HIDE DEF x
    <3> QED BY <2>1, GetValueIs
  <2>3. ~(w.size >= 2)
    <3>1. x \in Int
      BY <2>1
    <3>2. Keyed(w) /\ ~InTable(w, x)
      BY <1>1, <1>2, <2>2
    <3>3. w.size >= 2 => w.size > 0
      BY <1>1
    <3> HIDE DEF x
    <3> QED BY <3>1, <3>2, <3>3, ClosestIs
  <2>4. w.size \in {0, 1}
    BY <1>1, <2>3
  <2>5. o.mode = "bar" /\ Len(o.keys) % Full \in {0, 1}
    BY <1>1, <1>2, <2>4
  <2> QED BY <2>5, Zenon DEF Unfit
<1>3. CASE w.type \in {"circle", "anim"} /\ w.size = 0
  <2>1. o.mode \in {"circle", "anim"} /\ Len(o.keys) % Full = 0
    BY <1>1, <1>3
  <2> QED BY <2>1, Zenon DEF Unfit
<1>4. CASE w.type \in {"circle", "anim"} /\ w.rate = 0
  <2>1. o.mode \in {"circle", "anim"}
    BY <1>1, <1>4
  <2>2. \E n \in {o.fps, o.radius} \ {None} : n % Word = 0
    BY <1>1, <1>4, Zenon DEF Paced
  <2> QED BY <2>1, <2>2, Zenon DEF Unfit
<1> QED BY <1>2, <1>3, <1>4, Zenon DEF Unsafe

-----------------------------------------------------------------------------
(* The objects of a page. *)

(* What the parser makes of an object. *)
UiThing ==
  [kind : {"label"}, buffers : Nat] \cup [kind : {"progress"}, widget : WidgetRecord]

(* Those of which each image buffer is freed.                              *)
Things == {x \in UiThing : Freed(x) = Buffers(x)}

LEMMA LabelIs ==
  ASSUME NEW b \in Nat
  PROVE  Label(b) \in Things
<1>1. Label(b) \in UiThing
  BY DEF Label, UiThing
<1>2. Freed(Label(b)) = Buffers(Label(b))
  BY Zenon DEF Freed, Buffers, Label
<1> QED BY <1>1, <1>2 DEF Things

LEMMA ProgressIs ==
  ASSUME NEW w \in WidgetRecord, Destructor(w) = w.buffers
  PROVE  Progress(w) \in Things
<1>1. Progress(w) \in UiThing /\ Progress(w).kind = "progress" /\ Progress(w).widget = w
  BY DEF Progress, UiThing
<1>2. Freed(Progress(w)) = Buffers(Progress(w))
  BY <1>1 DEF Freed, Buffers
<1> QED BY <1>1, <1>2 DEF Things

LEMMA ThingIs ==
  ASSUME NEW x \in Things
  PROVE  Freed(x) = Buffers(x) /\ Freed(x) \in Nat
<1>1. CASE x \in [kind : {"label"}, buffers : Nat]
  BY <1>1 DEF Things, Freed, Buffers
<1>2. CASE x \in [kind : {"progress"}, widget : WidgetRecord]
  <2>1. x.kind = "progress" /\ x.widget \in WidgetRecord
    BY <1>2
  <2>2. Buffers(x) = x.widget.buffers
    BY <2>1 DEF Buffers
  <2>3. x.widget.buffers \in Nat
    BY <2>1 DEF WidgetRecord
  <2> QED BY <2>2, <2>3 DEF Things
<1> QED BY <1>1, <1>2 DEF Things, UiThing

(* An object as it is on the screen.                                       *)
GoodObject(x, o) ==
  \/ x \in [kind : {"label"}, buffers : Nat]
  \/ \E w \in WidgetRecord : x = Progress(w) /\ o.mode \in Types /\ Good(w, o)

(* What the parser returns for an object.                                  *)
ObjectParsed(r, o) ==
  /\ r.ok \in BOOLEAN
  /\ \/ ~r.ok /\ r.objects = <<>>
     \/ \E x \in Things : r.objects = <<x>> /\ (r.ok => GoodObject(x, o))

LEMMA ParseObjectIs ==
  ASSUME NEW o \in UiObject, MeasuredKeys(o)
  PROVE  ObjectParsed(ParseObject(o), o)
<1> DEFINE r == ParseObject(o)
<1>1. ASSUME NEW w \in WidgetRecord, Destructor(w) = w.buffers,
             NEW ok \in BOOLEAN, ok => o.mode \in Types /\ Good(w, o),
             r = [ok |-> ok, objects |-> <<Progress(w)>>]
      PROVE  ObjectParsed(r, o)
  <2> HIDE DEF r
  <2>1. r.ok = ok /\ r.objects = <<Progress(w)>>
    BY <1>1
  <2>2. Progress(w) \in Things
    BY <1>1, ProgressIs
  <2>3. ok => GoodObject(Progress(w), o)
    BY <1>1, Zenon DEF GoodObject
  <2> QED BY <2>1, <2>2, <2>3, Zenon DEF ObjectParsed
<1>2. CASE o.kind = "label"
  <2> DEFINE ok == o.area /\ o.src /\ o.readable
             b == IF ok THEN 1 ELSE 0
  <2>1. r = [ok |-> ok, objects |-> <<Label(b)>>]
    BY <1>2 DEF ParseObject, ParseLabel
  <2>2. ok \in BOOLEAN
    OBVIOUS
  <2>3. b \in Nat
    OBVIOUS
  <2> HIDE DEF ok, b, r
  <2>4. r.ok = ok /\ r.objects = <<Label(b)>>
    BY <2>1, Zenon
  <2>5. Label(b) \in Things
    BY <2>3, LabelIs
  <2>6. GoodObject(Label(b), o)
    BY <2>3 DEF GoodObject, Label
  <2>7. ObjectParsed(r, o)
    BY <2>2, <2>4, <2>5, <2>6, Zenon DEF ObjectParsed
  <2> QED BY <2>7 DEF r
<1>3. CASE o.kind = "progress"
  <2> DEFINE short == o.mode = "number" /\ Len(o.keys) < 10
  <2>1. r = ParseProgress(o)
    BY <1>3 DEF ParseObject
  <2>2. CASE ~o.area \/ o.mode \notin Types
    <3>1. r = [ok |-> FALSE, objects |-> <<Progress(Created)>>]
      BY <2>1, <2>2, Zenon DEF ParseProgress
    <3>2. Created \in WidgetRecord /\ Destructor(Created) = Created.buffers
      BY CreatedIs, EmptyIsBalanced DEF Empty, Bare
    <3> HIDE DEF r
    <3> QED BY <1>1, <3>1, <3>2 DEF r
  <2>3. CASE o.area /\ o.mode \in Types /\ short
    <3>1. r = [ok |-> FALSE, objects |-> <<Progress(Configured(o))>>]
      BY <2>1, <2>3, Zenon DEF ParseProgress
    <3>2. Empty(Configured(o))
      BY <2>3, ConfiguredIs
    <3>3. Configured(o) \in WidgetRecord /\ Destructor(Configured(o)) = Configured(o).buffers
      BY <3>2, EmptyIsBalanced DEF Empty, Bare
    <3> HIDE DEF r
    <3> QED BY <1>1, <3>1, <3>3 DEF r
  <2>4. CASE o.area /\ o.mode \in Types /\ ~short
    <3> DEFINE w == WithImages(o)
    <3>1. r = [ok |-> TRUE, objects |-> <<Progress(w)>>]
      BY <2>1, <2>4, Zenon DEF ParseProgress
    <3>2. Filed(w, o) /\ Viewed(w)
      BY <2>4, WithImagesIs, BareIsViewed
    <3>3. w \in WidgetRecord /\ Destructor(w) = w.buffers
      <4> HIDE DEF w
      <4> QED BY <2>4, <3>2, FiledIs
    <3>4. o.mode \in Types /\ Good(w, o)
      BY <2>4, <3>2 DEF Good
    <3> HIDE DEF w, r
    <3> QED BY <1>1, <3>1, <3>3, <3>4 DEF r
  <2> QED BY <2>2, <2>3, <2>4
<1>4. CASE o.kind \notin {"label", "progress"}
  <2>1. r = [ok |-> FALSE, objects |-> <<>>]
    BY <1>4 DEF ParseObject
  <2> HIDE DEF r
  <2>2. r.ok = FALSE /\ r.objects = <<>>
    BY <2>1, Zenon
  <2>3. ObjectParsed(r, o)
    BY <2>2 DEF ObjectParsed
  <2> QED BY <2>3 DEF r
<1> QED BY <1>2, <1>3, <1>4

-----------------------------------------------------------------------------
(* The pages of a file. *)

(* A page as it is on the screen.                                          *)
GoodPage(q, p) ==
  /\ q.name = p.name /\ Len(q.objects) = Len(p.objs)
  /\ \A i \in 1 .. Len(p.objs) : GoodObject(q.objects[i], p.objs[i])

(* The parser in the middle of a page. *)
ParsedPage == [name : STRING, ok : BOOLEAN, objects : Seq(Things)]

(* Pages whose images have widths. *)
MeasuredPage(p) == p \in UiPage /\ \A i \in 1 .. Len(p.objs) : MeasuredKeys(p.objs[i])

(* How a page is parsed.                                                   *)
PageParsed(g, p, n) ==
  /\ g[0] = [name |-> p.name, ok |-> TRUE, objects |-> <<>>]
  /\ \A k \in 1 .. n : g[k] = AddObject(g[k - 1], p.objs[k])
  /\ Parsed(p) = g[n]

LEMMA ParsedFold ==
  ASSUME NEW p, Len(p.objs) \in Nat, DOMAIN p.objs = 1 .. Len(p.objs)
  PROVE  \E g : PageParsed(g, p, Len(p.objs))
<1> DEFINE n == Len(p.objs)
           b == [name |-> p.name, ok |-> TRUE, objects |-> <<>>]
           t == p.objs
<1>1. n \in Nat /\ DOMAIN t = 1 .. n
  OBVIOUS
<1>2. PICK g : OnObjects!Folds(g, b, t, n)
  <2> HIDE DEF b, t, n
  <2> QED BY <1>1, NumbersInduct, OnObjects!FoldIs, Zenon
<1>3. OnObjects!Folded(b, t) = Parsed(p)
  BY Zenon DEF OnObjects!Folded, OnObjects!Greatest, FoldLeft, MapThenFoldSet, Max, Parsed
<1> QED BY <1>2, <1>3, Zenon DEF OnObjects!Folds, PageParsed

(* A step of the parser of a page.                                         *)
LEMMA AddObjectIs ==
  ASSUME NEW page \in ParsedPage, NEW o \in UiObject, MeasuredKeys(o)
  PROVE  LET q == AddObject(page, o)
         IN  /\ q \in ParsedPage /\ q.name = page.name
             /\ q.ok => /\ page.ok /\ Len(q.objects) = Len(page.objects) + 1
                        /\ \A i \in 1 .. Len(page.objects) : q.objects[i] = page.objects[i]
                        /\ GoodObject(q.objects[Len(page.objects) + 1], o)
<1> DEFINE r == ParseObject(o)
           q == AddObject(page, o)
           s == page.objects
<1>1. ObjectParsed(r, o)
  BY ParseObjectIs
<1>2. q = IF ~page.ok THEN page ELSE [page EXCEPT !.ok = r.ok, !.objects = @ \o r.objects]
  BY DEF AddObject
<1>3. page.ok \in BOOLEAN /\ s \in Seq(Things)
  BY DEF ParsedPage
<1>4. q = AddObject(page, o)
  OBVIOUS
<1> HIDE DEF r, q
<1>5. CASE ~page.ok
  <2>1. q = page
    BY <1>2, <1>5
  <2> QED BY <1>4, <1>5, <2>1
<1>6. CASE page.ok
  <2> DEFINE a == r.ok
             c == s \o r.objects
  <2>1. q = [page EXCEPT !.ok = a, !.objects = c]
    BY <1>2, <1>6 DEF ParsedPage
  <2>2. a \in BOOLEAN
    BY <1>1 DEF ObjectParsed
  <2>3. c \in Seq(Things)
    <3>1. CASE r.objects = <<>>
      BY <1>3, <3>1
    <3>2. CASE \E x \in Things : r.objects = <<x>>
      BY <1>3, <3>2
    <3> QED BY <1>1, <3>1, <3>2 DEF ObjectParsed
  <2>4. a = r.ok /\ c = s \o r.objects
    OBVIOUS
  <2> HIDE DEF a, c
  <2>5. q \in ParsedPage /\ q.name = page.name /\ q.ok = a /\ q.objects = c
    BY <2>1, <2>2, <2>3 DEF ParsedPage
  <2>6. ASSUME a
        PROVE  /\ Len(c) = Len(s) + 1 /\ GoodObject(c[Len(s) + 1], o)
               /\ \A i \in 1 .. Len(s) : c[i] = s[i]
    <3>1. PICK x \in Things : r.objects = <<x>> /\ GoodObject(x, o)
      BY <1>1, <2>4, <2>6 DEF ObjectParsed
    <3>2. c = s \o <<x>>
      BY <2>4, <3>1
    <3>3. Len(c) = Len(s) + 1 /\ c[Len(s) + 1] = x /\ \A i \in 1 .. Len(s) : c[i] = s[i]
      <4> HIDE DEF s
      <4> QED BY <1>3, <3>2
    <3> QED BY <3>1, <3>3
  <2> QED BY <1>4, <1>6, <2>5, <2>6
<1> QED BY <1>5, <1>6

(* What the parser makes of a page.                                        *)
LEMMA ParsedIs ==
  ASSUME NEW p, MeasuredPage(p)
  PROVE  Parsed(p) \in ParsedPage /\ (Parsed(p).ok => GoodPage(Parsed(p), p))
<1> DEFINE n == Len(p.objs)
<1>1. p.objs \in Seq(UiObject) /\ n \in Nat /\ DOMAIN p.objs = 1 .. n /\ p.name \in STRING
  <2>1. p \in UiPage
    BY DEF MeasuredPage
  <2>2. p.objs \in Seq(UiObject) /\ p.name \in STRING
    BY <2>1, Zenon DEF UiPage
  <2> QED BY <2>2, LenProperties
<1>2. PICK g : PageParsed(g, p, n)
  BY <1>1, ParsedFold
<1> HIDE DEF n
<1> DEFINE At(k) == /\ g[k] \in ParsedPage /\ g[k].name = p.name
                    /\ g[k].ok => /\ Len(g[k].objects) = k
                                  /\ \A i \in 1 .. k : GoodObject(g[k].objects[i], p.objs[i])
           T == {k \in 0 .. n : At(k)}
<1>3. 0 \in T
  <2>1. g[0] = [name |-> p.name, ok |-> TRUE, objects |-> <<>>]
    BY <1>2 DEF PageParsed
  <2>2. g[0] \in ParsedPage
    BY <1>1, <2>1 DEF ParsedPage
  <2>3. g[0].name = p.name /\ g[0].objects = <<>>
    <3> DEFINE a == p.name
               e == <<>>
    <3>1. g[0] = [name |-> a, ok |-> TRUE, objects |-> e]
      BY <2>1
    <3> HIDE DEF a, e
    <3>2. g[0].name = a /\ g[0].objects = e
      BY <3>1
    <3> QED BY <3>2 DEF a, e
  <2>4. At(0)
    BY <2>2, <2>3
  <2> HIDE DEF At
  <2> QED BY <1>1, <2>4
<1>4. ASSUME NEW k \in 0 .. n - 1, k \in T
      PROVE  k + 1 \in T
  <2>1. k \in Nat /\ k + 1 \in 1 .. n /\ (k + 1) - 1 = k /\ k + 1 \in 0 .. n
    BY <1>1
  <2>2. At(k)
    <3> HIDE DEF At
    <3> QED BY <1>4
  <2> DEFINE o == p.objs[k + 1]
             page == g[k]
             q == g[k + 1]
  <2>3. o \in UiObject /\ MeasuredKeys(o)
    <3>1. o \in UiObject
      BY <1>1, <2>1
    <3>2. MeasuredKeys(o)
      BY <2>1 DEF MeasuredPage, n
    <3> QED BY <3>1, <3>2
  <2>4. q = AddObject(page, o)
    <3>1. q = AddObject(g[(k + 1) - 1], o)
      BY <1>2, <2>1 DEF PageParsed
    <3> QED BY <2>1, <3>1
  <2>5. page \in ParsedPage
    BY <2>2
  <2>6. /\ q \in ParsedPage /\ q.name = page.name
        /\ q.ok => /\ page.ok /\ Len(q.objects) = Len(page.objects) + 1
                   /\ \A i \in 1 .. Len(page.objects) : q.objects[i] = page.objects[i]
                   /\ GoodObject(q.objects[Len(page.objects) + 1], o)
    <3> HIDE DEF page, o, q
    <3> QED BY <2>3, <2>4, <2>5, AddObjectIs
  <2>7. ASSUME q.ok
        PROVE  /\ Len(q.objects) = k + 1
               /\ \A i \in 1 .. k + 1 : GoodObject(q.objects[i], p.objs[i])
    <3>1. page.ok /\ Len(page.objects) = k
          /\ \A i \in 1 .. k : GoodObject(page.objects[i], p.objs[i])
      BY <2>2, <2>6, <2>7
    <3>2. Len(q.objects) = k + 1 /\ GoodObject(q.objects[k + 1], p.objs[k + 1])
          /\ \A i \in 1 .. k : q.objects[i] = page.objects[i]
      BY <2>6, <2>7, <3>1
    <3>3. \A i \in 1 .. k + 1 : i = k + 1 \/ i \in 1 .. k
      BY <2>1
    <3> HIDE DEF page, q
    <3>4. \A i \in 1 .. k : GoodObject(q.objects[i], p.objs[i])
      BY <3>1, <3>2, Zenon
    <3> QED BY <3>2, <3>3, <3>4, Zenon
  <2>8. At(k + 1)
    BY <2>2, <2>6, <2>7
  <2> HIDE DEF At
  <2> QED BY <2>1, <2>8
<1>5. At(n)
  <2> HIDE DEF At
  <2>1. n \in T
    <3> HIDE DEF T
    <3>1. 0 .. n \subseteq T
      BY <1>1, <1>3, <1>4, Induction
    <3> QED BY <1>1, <3>1
  <2> QED BY <2>1
<1>6. Parsed(p) = g[n]
  BY <1>2 DEF PageParsed
<1>7. g[n].ok => GoodPage(g[n], p)
  BY <1>5 DEF GoodPage, n
<1> QED BY <1>5, <1>6, <1>7

-----------------------------------------------------------------------------
(* The screen. *)

(* A page, and the buffers of all of them, one page after the other. *)
ScreenPage == [name : STRING, objects : Seq(Things)]

HeldBy(scr) == SumOver(Held, scr)

HeldList(scr) == [i \in 1 .. Len(scr) |-> Held(scr[i])]

LEMMA HeldIs ==
  ASSUME NEW objects \in Seq(Things), NEW page, page.objects = objects
  PROVE  Held(page) \in Nat /\ SumOver(Buffers, objects) = Held(page)
<1> DEFINE n == Len(objects)
           f == [i \in 1 .. n |-> Freed(objects[i])]
           b == [i \in 1 .. n |-> Buffers(objects[i])]
<1>1. n \in Nat /\ \A i \in 1 .. n : objects[i] \in Things
  BY LenProperties, ElementOfSeq
<1>2. \A i \in 1 .. n : Freed(objects[i]) = Buffers(objects[i]) /\ Freed(objects[i]) \in Nat
  BY <1>1, ThingIs
<1>3. f = b /\ f \in [1 .. n -> Nat]
  BY <1>2
<1>4. Total(f) \in Nat
  <2> HIDE DEF f, n
  <2> QED BY <1>1, <1>3, TotalInNat
<1>5. Held(page) = Total(f) /\ SumOver(Buffers, objects) = Total(b)
  BY Zenon DEF Held, SumOver
<1> HIDE DEF f, b
<1> QED BY <1>3, <1>4, <1>5

LEMMA HeldByIs ==
  ASSUME NEW scr \in Seq(ScreenPage)
  PROVE  /\ HeldBy(scr) = Total(HeldList(scr))
         /\ Len(scr) \in Nat /\ HeldList(scr) \in [1 .. Len(scr) -> Nat]
         /\ HeldBy(scr) \in Nat
<1>1. HeldBy(scr) = Total(HeldList(scr))
  BY Zenon DEF HeldBy, SumOver, HeldList
<1>2. Len(scr) \in Nat /\ \A i \in 1 .. Len(scr) : scr[i] \in ScreenPage
  BY LenProperties, ElementOfSeq
<1>3. \A i \in 1 .. Len(scr) : Held(scr[i]) \in Nat
  <2>1. \A i \in 1 .. Len(scr) : scr[i].objects \in Seq(Things)
    BY <1>2 DEF ScreenPage
  <2> QED BY <2>1, HeldIs
<1>4. HeldList(scr) \in [1 .. Len(scr) -> Nat]
  BY <1>3 DEF HeldList
<1>5. Total(HeldList(scr)) \in Nat
  BY <1>2, <1>4, TotalInNat
<1> QED BY <1>1, <1>2, <1>4, <1>5

LEMMA HeldByNone == HeldBy(<<>>) = 0
<1>1. <<>> \in Seq(ScreenPage) /\ Len(<<>>) = 0
  OBVIOUS
<1>2. HeldBy(<<>>) = Total(HeldList(<<>>))
  BY <1>1, HeldByIs
<1>3. DOMAIN HeldList(<<>>) = 1 .. 0
  BY <1>1 DEF HeldList
<1> QED BY <1>2, <1>3, TotalEmpty

LEMMA HeldByMore ==
  ASSUME NEW scr \in Seq(ScreenPage), NEW page \in ScreenPage
  PROVE  HeldBy(Append(scr, page)) = HeldBy(scr) + Held(page)
<1> DEFINE more == Append(scr, page)
           n == Len(scr)
<1>1. n \in Nat /\ more \in Seq(ScreenPage) /\ Len(more) = n + 1
      /\ more[n + 1] = page /\ \A i \in 1 .. n : more[i] = scr[i]
  OBVIOUS
<1> HIDE DEF more, n
<1> DEFINE s == HeldList(scr)
           t == HeldList(more)
<1>2. DOMAIN s = 1 .. n /\ DOMAIN t = 1 .. n + 1
  BY <1>1 DEF HeldList, n
<1>3. t[n + 1] = Held(page)
  BY <1>1 DEF HeldList
<1>4. \A i \in 1 .. n : t[i] = s[i]
  <2>1. SUFFICES ASSUME NEW i \in 1 .. n PROVE t[i] = s[i]
    OBVIOUS
  <2>2. i \in 1 .. n + 1
    BY <1>1
  <2>3. t[i] = Held(more[i]) /\ s[i] = Held(scr[i])
    BY <1>1, <2>2 DEF HeldList, n
  <2> QED BY <1>1, <2>3
<1> HIDE DEF s, t
<1>5. Total(t) = Total(s) + t[n + 1]
  BY <1>1, <1>2, <1>4, TotalMore
<1>6. HeldBy(more) = Total(t) /\ HeldBy(scr) = Total(s)
  BY <1>1, HeldByIs DEF s, t
<1>7. HeldBy(more) = HeldBy(scr) + Held(page)
  BY <1>3, <1>5, <1>6
<1> QED BY <1>7 DEF more

(* The parser between two pages, and files whose images have widths. *)
BuiltRecord == [ok : BOOLEAN, screen : Seq(ScreenPage), live : Int]

MeasuredFile(f) == f \in UiFile /\ \A i \in 1 .. Len(f.pages) : MeasuredPage(f.pages[i])

(* The pages of the file that are on the screen.                           *)
GoodScreen(scr, f) ==
  \A i \in 1 .. Len(scr) : GoodPage(scr[i], f.pages[i])

(* lv_obj_clean leaves nothing of what is on the screen.                   *)
LEMMA CleanIs ==
  ASSUME NEW b \in BuiltRecord, b.live = HeldBy(b.screen)
  PROVE  LET c == Clean(b)
         IN  c \in BuiltRecord /\ c.ok = b.ok /\ c.screen = <<>> /\ c.live = 0
<1> DEFINE c == Clean(b)
           e == <<>>
           l == b.live - HeldBy(b.screen)
<1>1. c = [b EXCEPT !.screen = e, !.live = l]
  BY DEF Clean, HeldBy, BuiltRecord
<1>2. b.live \in Int
  BY DEF BuiltRecord
<1>3. l = 0
  BY <1>2
<1>4. e \in Seq(ScreenPage) /\ e = <<>> /\ c = Clean(b)
  OBVIOUS
<1> HIDE DEF e, l, c
<1>5. c \in BuiltRecord /\ c.ok = b.ok /\ c.screen = e /\ c.live = l
  <2>1. l \in Int /\ e \in Seq(ScreenPage)
    BY <1>3, <1>4
  <2> QED BY <1>1, <2>1 DEF BuiltRecord
<1>6. e = <<>>
  BY <1>4
<1> QED BY <1>3, <1>4, <1>5, <1>6

(* A page more on the screen.                                              *)
LEMMA WithPageIs ==
  ASSUME NEW b \in BuiltRecord, b.live = HeldBy(b.screen), NEW page \in ParsedPage
  PROVE  LET c == WithPage(b, page)
         IN  /\ c \in BuiltRecord /\ c.ok = page.ok /\ c.live = HeldBy(c.screen)
             /\ Len(c.screen) = Len(b.screen) + 1
             /\ \A i \in 1 .. Len(b.screen) : c.screen[i] = b.screen[i]
             /\ c.screen[Len(b.screen) + 1].name = page.name
             /\ c.screen[Len(b.screen) + 1].objects = page.objects
<1> DEFINE c == WithPage(b, page)
           q == [name |-> page.name, objects |-> page.objects]
           a == page.ok
           s == Append(b.screen, q)
           l == b.live + SumOver(Buffers, page.objects)
<1>1. c = [b EXCEPT !.ok = a, !.screen = s, !.live = l]
  BY DEF WithPage, BuiltRecord
<1>2. page.objects \in Seq(Things) /\ page.name \in STRING /\ a \in BOOLEAN
  BY DEF ParsedPage
<1>3. q \in ScreenPage /\ q.objects = page.objects /\ q.name = page.name
  BY <1>2 DEF ScreenPage
<1>4. b.screen \in Seq(ScreenPage) /\ b.live \in Int
  BY DEF BuiltRecord
<1>5. Held(q) \in Nat /\ SumOver(Buffers, page.objects) = Held(q)
  <2> DEFINE objects == page.objects
  <2>1. objects \in Seq(Things) /\ q.objects = objects
    BY <1>2, <1>3
  <2> HIDE DEF q, objects
  <2>2. Held(q) \in Nat /\ SumOver(Buffers, objects) = Held(q)
    BY <2>1, HeldIs
  <2> QED BY <2>2 DEF objects
<1> HIDE DEF q
<1>6. l = b.live + Held(q)
  BY <1>5
<1>7. HeldBy(s) = HeldBy(b.screen) + Held(q)
  BY <1>3, <1>4, HeldByMore
<1>8. s \in Seq(ScreenPage) /\ Len(s) = Len(b.screen) + 1 /\ s[Len(b.screen) + 1] = q
      /\ \A i \in 1 .. Len(b.screen) : s[i] = b.screen[i]
  BY <1>3, <1>4
<1>9. a = page.ok /\ c = WithPage(b, page)
  OBVIOUS
<1> HIDE DEF s, l, a, c
<1>10. l = HeldBy(s) /\ l \in Int
  BY <1>4, <1>5, <1>6, <1>7
<1>11. c \in BuiltRecord /\ c.ok = a /\ c.screen = s /\ c.live = l
  BY <1>1, <1>2, <1>8, <1>10 DEF BuiltRecord
<1> QED BY <1>3, <1>8, <1>9, <1>10, <1>11

(* How the pages of a file are built.                                      *)
FileBuilt(g, f, n) ==
  /\ g[0] = [ok |-> TRUE, screen |-> <<>>, live |-> 0]
  /\ \A k \in 1 .. n : g[k] = AddPage(g[k - 1], f.pages[k])
  /\ Built(f) = g[n]

LEMMA BuiltFold ==
  ASSUME NEW f, Len(f.pages) \in Nat, DOMAIN f.pages = 1 .. Len(f.pages)
  PROVE  \E g : FileBuilt(g, f, Len(f.pages))
<1> DEFINE n == Len(f.pages)
           b == [ok |-> TRUE, screen |-> <<>>, live |-> 0]
           t == f.pages
<1>1. n \in Nat /\ DOMAIN t = 1 .. n
  OBVIOUS
<1>2. PICK g : OnPages!Folds(g, b, t, n)
  <2> HIDE DEF b, t, n
  <2> QED BY <1>1, NumbersInduct, OnPages!FoldIs, Zenon
<1>3. OnPages!Folded(b, t) = Built(f)
  BY Zenon DEF OnPages!Folded, OnPages!Greatest, FoldLeft, MapThenFoldSet, Max, Built
<1> QED BY <1>2, <1>3, Zenon DEF OnPages!Folds, FileBuilt

(* All pages so far are on the screen, or none.                            *)
Building(b, f, k) ==
  /\ b \in BuiltRecord /\ b.live = HeldBy(b.screen)
  /\ b.ok => Len(b.screen) = k /\ GoodScreen(b.screen, f)
  /\ ~b.ok => b.screen = <<>>

LEMMA AddPageIs ==
  ASSUME NEW f, MeasuredFile(f), NEW k \in Nat, k + 1 \in 1 .. Len(f.pages),
         NEW b, Building(b, f, k)
  PROVE  Building(AddPage(b, f.pages[k + 1]), f, k + 1)
<1> DEFINE p == f.pages[k + 1]
           page == Parsed(p)
           added == WithPage(b, page)
           c == AddPage(b, p)
<1>1. page \in ParsedPage /\ (page.ok => GoodPage(page, p))
  <2>1. MeasuredPage(p)
    BY DEF MeasuredFile
  <2> HIDE DEF p
  <2> QED BY <2>1, ParsedIs
<1>2. b \in BuiltRecord /\ b.live = HeldBy(b.screen) /\ b.ok \in BOOLEAN
  BY DEF Building, BuiltRecord
<1>3. c = IF ~b.ok THEN b ELSE IF added.ok THEN added ELSE Clean(added)
  BY DEF AddPage
<1> HIDE DEF c, p
<1>4. CASE ~b.ok
  <2>1. c = b
    BY <1>3, <1>4
  <2>2. Building(c, f, k + 1)
    BY <1>4, <2>1, Zenon DEF Building
  <2> QED BY <2>2 DEF c, p
<1>5. CASE b.ok
  <2> HIDE DEF page
  <2>1. /\ added \in BuiltRecord /\ added.ok = page.ok /\ added.live = HeldBy(added.screen)
        /\ Len(added.screen) = Len(b.screen) + 1
        /\ \A i \in 1 .. Len(b.screen) : added.screen[i] = b.screen[i]
        /\ added.screen[Len(b.screen) + 1].name = page.name
        /\ added.screen[Len(b.screen) + 1].objects = page.objects
    BY <1>1, <1>2, WithPageIs
  <2> HIDE DEF added
  <2>2. Len(b.screen) = k /\ GoodScreen(b.screen, f)
    BY <1>5 DEF Building
  <2>3. CASE added.ok
    <3> DEFINE s == added.screen
    <3>1. c = added
      BY <1>3, <1>5, <2>3
    <3>2. GoodPage(page, p)
      BY <1>1, <2>1, <2>3
    <3>3. GoodPage(s[k + 1], f.pages[k + 1])
      <4>1. s[k + 1].name = page.name /\ s[k + 1].objects = page.objects
        BY <2>1, <2>2
      <4>2. GoodPage(s[k + 1], p)
        BY <3>2, <4>1, Zenon DEF GoodPage
      <4> QED BY <4>2 DEF p
    <3>4. \A i \in 1 .. k : GoodPage(s[i], f.pages[i])
      <4>1. \A i \in 1 .. k : s[i] = b.screen[i]
        BY <2>1, <2>2
      <4>2. \A i \in 1 .. k : GoodPage(b.screen[i], f.pages[i])
        BY <2>2 DEF GoodScreen
      <4> HIDE DEF s
      <4> QED BY <4>1, <4>2, Zenon
    <3>5. GoodScreen(s, f) /\ Len(s) = k + 1
      <4>1. Len(s) = k + 1
        BY <2>1, <2>2
      <4>2. \A i \in 1 .. k + 1 : i = k + 1 \/ i \in 1 .. k
        OBVIOUS
      <4> HIDE DEF s
      <4>3. \A i \in 1 .. Len(s) : GoodPage(s[i], f.pages[i])
        BY <3>3, <3>4, <4>1, <4>2, Zenon
      <4> QED BY <4>1, <4>3, Zenon DEF GoodScreen
    <3>6. Building(c, f, k + 1)
      BY <2>1, <2>3, <3>1, <3>5, Zenon DEF Building
    <3> QED BY <3>6 DEF c, p
  <2>4. CASE ~added.ok
    <3>1. c = Clean(added)
      BY <1>3, <1>5, <2>4
    <3>2. c \in BuiltRecord /\ c.ok = added.ok /\ c.screen = <<>> /\ c.live = 0
      BY <2>1, <3>1, CleanIs
    <3>3. Building(c, f, k + 1)
      <4>1. c.live = HeldBy(c.screen)
        BY <3>2, HeldByNone, Zenon
      <4> QED BY <2>4, <3>2, <4>1, Zenon DEF Building
    <3> QED BY <3>3 DEF c, p
  <2> QED BY <2>3, <2>4
<1> QED BY <1>2, <1>4, <1>5

(* What is on the screen after a file was parsed.                          *)
Loaded(scr, n, f) ==
  /\ scr \in Seq(ScreenPage) /\ n = HeldBy(scr)
  /\ scr # <<>> => Len(scr) = Len(f.pages) /\ GoodScreen(scr, f)

LEMMA BuiltIs ==
  ASSUME NEW f, MeasuredFile(f)
  PROVE  Loaded(Built(f).screen, Built(f).live, f)
<1> DEFINE n == Len(f.pages)
<1>1. n \in Nat /\ DOMAIN f.pages = 1 .. n
  <2>1. f.pages \in Seq(UiPage)
    BY Zenon DEF MeasuredFile, UiFile
  <2> QED BY <2>1, LenProperties
<1>2. PICK g : FileBuilt(g, f, n)
  BY <1>1, BuiltFold
<1> DEFINE T == {k \in 0 .. n : Building(g[k], f, k)}
<1>3. 0 \in T
  <2> DEFINE e == <<>>
             z == 0
  <2>1. g[0] = [ok |-> TRUE, screen |-> e, live |-> z] /\ e \in Seq(ScreenPage) /\ z \in Int
    BY <1>2 DEF FileBuilt
  <2>2. HeldBy(e) = z /\ Len(e) = 0
    BY HeldByNone
  <2> HIDE DEF e, z
  <2>3. g[0] \in BuiltRecord /\ g[0].ok /\ g[0].screen = e /\ g[0].live = z
    BY <2>1 DEF BuiltRecord
  <2>4. GoodScreen(e, f)
    BY <2>2 DEF GoodScreen
  <2>5. Building(g[0], f, 0)
    BY <2>2, <2>3, <2>4, Zenon DEF Building
  <2> QED BY <1>1, <2>5
<1>4. ASSUME NEW k \in 0 .. n - 1, k \in T
      PROVE  k + 1 \in T
  <2>1. k \in Nat /\ k + 1 \in 1 .. n /\ (k + 1) - 1 = k /\ k + 1 \in 0 .. n
    BY <1>1
  <2>2. g[k + 1] = AddPage(g[(k + 1) - 1], f.pages[k + 1])
    BY <1>2, <2>1 DEF FileBuilt
  <2>3. Building(g[k], f, k)
    BY <1>4
  <2>4. Building(g[k + 1], f, k + 1)
    BY <2>1, <2>2, <2>3, AddPageIs
  <2> QED BY <2>1, <2>4
<1>5. Building(g[n], f, n)
  <2>1. n \in T
    <3> HIDE DEF T, n
    <3>1. 0 .. n \subseteq T
      BY <1>1, <1>3, <1>4, Induction
    <3> QED BY <1>1, <3>1
  <2> QED BY <2>1
<1>6. Built(f) = g[n]
  BY <1>2 DEF FileBuilt
<1> QED BY <1>5, <1>6 DEF Building, Loaded, BuiltRecord

(* The files have widths for their images.                                 *)
LEMMA FilesAreMeasured ==
  ASSUME NEW f \in Files
  PROVE  MeasuredFile(f)
<1>1. f \in UiFile /\ f.pages \in Seq(UiPage)
  BY FilesAssumption, Zenon DEF UiFile
<1>2. ASSUME NEW i \in 1 .. Len(f.pages)
      PROVE  MeasuredPage(f.pages[i])
  <2> DEFINE p == f.pages[i]
  <2>1. p \in UiPage /\ p \in ToSet(f.pages)
    BY <1>1 DEF ToSet
  <2>2. p.objs \in Seq(UiObject)
    BY <2>1, Zenon DEF UiPage
  <2>3. ASSUME NEW j \in 1 .. Len(p.objs)
        PROVE  MeasuredKeys(p.objs[j])
    <3> DEFINE o == p.objs[j]
    <3>1. o \in UiObject /\ o \in ToSet(p.objs)
      BY <2>2 DEF ToSet
    <3>2. o.keys \in Seq(Int)
      BY <3>1, Zenon DEF UiObject
    <3> HIDE DEF o, p
    <3>3. ToSet(o.keys) \subseteq Images /\ PercentSign \in Images
      BY <2>1, <3>1, Zenon DEF Images
    <3>4. \A k \in 1 .. Len(o.keys) : o.keys[k] \in ToSet(o.keys)
      BY <3>2 DEF ToSet
    <3>5. MeasuredKeys(o)
      BY <3>3, <3>4, WidthAssumption DEF MeasuredKeys
    <3> QED BY <3>5 DEF o
  <2> QED BY <2>1, <2>3 DEF MeasuredPage
<1> QED BY <1>1, <1>2 DEF MeasuredFile

-----------------------------------------------------------------------------
(* A widget of the screen. *)

(* A widget on the screen belongs to an object of the file.                *)
WidgetOf(x, w, o) ==
  /\ x = Progress(w) /\ w \in WidgetRecord
  /\ o \in UiObject /\ o.mode \in Types /\ MeasuredKeys(o) /\ Good(w, o)

LEMMA ProgressObject ==
  ASSUME NEW o \in UiObject, MeasuredKeys(o), NEW x, GoodObject(x, o), x.kind = "progress"
  PROVE  WidgetOf(x, x.widget, o)
<1>1. x \notin [kind : {"label"}, buffers : Nat]
  OBVIOUS
<1>2. PICK w \in WidgetRecord : x = Progress(w) /\ o.mode \in Types /\ Good(w, o)
  BY <1>1, Zenon DEF GoodObject
<1>3. x.widget = w
  BY <1>2 DEF Progress
<1> QED BY <1>2, <1>3 DEF WidgetOf

LEMMA ScreenObject ==
  ASSUME NEW f, MeasuredFile(f), NEW scr, NEW n, Loaded(scr, n, f),
         NEW i \in 1 .. Len(scr), NEW j \in 1 .. Len(scr[i].objects),
         scr[i].objects[j].kind = "progress"
  PROVE  /\ f.pages[i] \in ToSet(f.pages) /\ f.pages[i].objs[j] \in ToSet(f.pages[i].objs)
         /\ WidgetOf(scr[i].objects[j], scr[i].objects[j].widget, f.pages[i].objs[j])
<1> DEFINE p == f.pages[i]
           o == p.objs[j]
           x == scr[i].objects[j]
<1>1. f.pages \in Seq(UiPage) /\ Len(scr) = Len(f.pages) /\ GoodPage(scr[i], p)
  <2>1. f.pages \in Seq(UiPage)
    BY Zenon DEF MeasuredFile, UiFile
  <2>2. scr # <<>>
    <3>1. scr \in Seq(ScreenPage)
      BY DEF Loaded
    <3> QED BY <3>1
  <2> QED BY <2>1, <2>2 DEF Loaded, GoodScreen
<1>2. i \in 1 .. Len(f.pages) /\ p \in ToSet(f.pages) /\ MeasuredPage(p)
  BY <1>1 DEF ToSet, MeasuredFile
<1>3. p.objs \in Seq(UiObject)
  BY <1>2, Zenon DEF MeasuredPage, UiPage
<1>4. j \in 1 .. Len(p.objs) /\ GoodObject(x, o)
  <2>1. Len(scr[i].objects) = Len(p.objs)
    BY <1>1, Zenon DEF GoodPage
  <2>2. j \in 1 .. Len(p.objs)
    BY <2>1
  <2> QED BY <1>1, <2>2, Zenon DEF GoodPage
<1>5. o \in UiObject /\ o \in ToSet(p.objs) /\ MeasuredKeys(o)
  BY <1>2, <1>3, <1>4 DEF ToSet, MeasuredPage
<1>6. WidgetOf(x, x.widget, o)
  <2> HIDE DEF x, o
  <2>1. x.kind = "progress"
    BY DEF x
  <2> QED BY <1>4, <1>5, <2>1, ProgressObject
<1> QED BY <1>2, <1>5, <1>6

(* The widget of a page, which is the page's first object.                 *)
LEMMA PageWidget ==
  ASSUME NEW f, MeasuredFile(f), NEW scr, NEW n, Loaded(scr, n, f),
         NEW i \in 1 .. Len(scr), HasWidget(scr[i])
  PROVE  /\ scr[i] \in ScreenPage /\ 1 \in 1 .. Len(scr[i].objects)
         /\ f.pages[i] \in ToSet(f.pages) /\ f.pages[i].objs[1] \in ToSet(f.pages[i].objs)
         /\ WidgetOf(scr[i].objects[1], scr[i].objects[1].widget, f.pages[i].objs[1])
<1>1. scr[i] \in ScreenPage
  <2>1. scr \in Seq(ScreenPage)
    BY DEF Loaded
  <2> QED BY <2>1, ElementOfSeq
<1>2. scr[i].objects \in Seq(Things)
  BY <1>1, Zenon DEF ScreenPage
<1>3. scr[i].objects # <<>> /\ scr[i].objects[1].kind = "progress"
  BY DEF HasWidget
<1>4. 1 \in 1 .. Len(scr[i].objects)
  <2> DEFINE s == scr[i].objects
  <2>1. s \in Seq(Things) /\ s # <<>>
    BY <1>2, <1>3
  <2> HIDE DEF s
  <2>2. 1 \in 1 .. Len(s)
    BY <2>1
  <2> QED BY <2>2 DEF s
<1> QED BY <1>1, <1>3, <1>4, ScreenObject

(* A widget that stays a widget of its object leaves the rest as it was.   *)
LEMMA ScreenStays ==
  ASSUME NEW f, MeasuredFile(f), NEW scr, NEW n, Loaded(scr, n, f),
         NEW i \in 1 .. Len(scr), HasWidget(scr[i]),
         NEW v, Good(v, f.pages[i].objs[1]), SameFile(scr[i].objects[1].widget, v)
  PROVE  Loaded([scr EXCEPT ![i].objects[1].widget = v], n, f)
<1> DEFINE q == scr[i]
           s == q.objects
           x == s[1]
           w == x.widget
           o == f.pages[i].objs[1]
           y == [x EXCEPT !.widget = v]
           t == [s EXCEPT ![1] = y]
           r == [q EXCEPT !.objects = t]
           new == [scr EXCEPT ![i] = r]
<1>1. new = [scr EXCEPT ![i].objects[1].widget = v]
  OBVIOUS
<1>2. q \in ScreenPage /\ 1 \in 1 .. Len(s) /\ WidgetOf(x, w, o)
  BY PageWidget
<1>3. /\ scr \in Seq(ScreenPage) /\ n = HeldBy(scr)
      /\ scr # <<>> => Len(scr) = Len(f.pages) /\ GoodScreen(scr, f)
  BY DEF Loaded
<1>4. Good(v, o) /\ SameFile(w, v)
  OBVIOUS
<1> HIDE DEF o, w
<1>5. o \in UiObject /\ o.mode \in Types /\ MeasuredKeys(o) /\ x = Progress(w)
      /\ w \in WidgetRecord
  BY <1>2 DEF WidgetOf
<1>6. v \in WidgetRecord /\ Destructor(v) = v.buffers
  BY <1>4, <1>5, FiledIs DEF Good
<1>7. y = Progress(v)
  <2> HIDE DEF x
  <2> QED BY <1>5 DEF Progress
<1>8. y \in Things
  BY <1>6, <1>7, ProgressIs
<1>9. Freed(y) = Freed(x)
  <2>1. Freed(x) = Destructor(w) /\ Freed(y) = Destructor(v)
    <3> HIDE DEF x, y
    <3>1. x.kind = "progress" /\ x.widget = w /\ y.kind = "progress" /\ y.widget = v
      BY <1>5, <1>7 DEF Progress
    <3> QED BY <3>1 DEF Freed
  <2>2. Destructor(v) = Destructor(w)
    <3>1. v.size = w.size /\ v.images = w.images /\ v.percent = w.percent
      BY <1>4, Zenon DEF SameFile
    <3> QED BY <3>1, Zenon DEF Destructor
  <2> QED BY <2>1, <2>2
<1>10. s \in Seq(Things) /\ q.name \in STRING
  BY <1>2, Zenon DEF ScreenPage
<1>11. x = s[1] /\ q = scr[i] /\ s = q.objects
  OBVIOUS
<1> HIDE DEF x, y
<1>12. /\ t \in Seq(Things) /\ Len(t) = Len(s) /\ t[1] = y
       /\ \A j \in 1 .. Len(s) : j # 1 => t[j] = s[j]
  <2> HIDE DEF s
  <2> QED BY <1>2, <1>8, <1>10
<1> HIDE DEF t, s, q
<1>13. r \in ScreenPage /\ r.objects = t /\ r.name = q.name
  BY <1>2, <1>12 DEF ScreenPage
<1> HIDE DEF r
<1>14. Held(r) = Held(q)
  <2>1. \A j \in 1 .. Len(s) : Freed(t[j]) = Freed(s[j])
    <3>1. SUFFICES ASSUME NEW j \in 1 .. Len(s) PROVE Freed(t[j]) = Freed(s[j])
      OBVIOUS
    <3>2. CASE j = 1
      BY <1>9, <1>11, <1>12, <3>2
    <3>3. CASE j # 1
      BY <1>12, <3>3
    <3> QED BY <3>2, <3>3
  <2>2. [j \in 1 .. Len(t) |-> Freed(t[j])] = [j \in 1 .. Len(s) |-> Freed(s[j])]
    BY <1>12, <2>1
  <2>3. Held(r) = Total([j \in 1 .. Len(t) |-> Freed(t[j])])
    BY <1>13, Zenon DEF Held, SumOver
  <2>4. Held(q) = Total([j \in 1 .. Len(s) |-> Freed(s[j])])
    BY <1>11, Zenon DEF Held, SumOver
  <2> QED BY <2>2, <2>3, <2>4
<1>15. GoodPage(r, f.pages[i]) /\ Len(scr) = Len(f.pages) /\ GoodScreen(scr, f)
  <2>1. scr # <<>>
    BY <1>3
  <2>2. Len(scr) = Len(f.pages) /\ GoodScreen(scr, f)
    BY <1>3, <2>1
  <2> DEFINE p == f.pages[i]
  <2>3. GoodPage(q, p)
    BY <1>11, <2>2 DEF GoodScreen
  <2>4. o = p.objs[1]
    BY DEF o
  <2> HIDE DEF p
  <2>5. q.name = p.name /\ Len(s) = Len(p.objs)
        /\ \A j \in 1 .. Len(p.objs) : GoodObject(s[j], p.objs[j])
    BY <1>11, <2>3, Zenon DEF GoodPage
  <2>6. GoodObject(t[1], p.objs[1])
    BY <1>4, <1>5, <1>6, <1>7, <1>12, <2>4, Zenon DEF GoodObject
  <2>7. \A j \in 1 .. Len(p.objs) : GoodObject(t[j], p.objs[j])
    BY <1>12, <2>5, <2>6, Zenon
  <2>8. GoodPage(r, p)
    BY <1>12, <1>13, <2>5, <2>7, Zenon DEF GoodPage
  <2> QED BY <2>2, <2>8 DEF p
<1>16. new \in Seq(ScreenPage) /\ Len(new) = Len(scr)
       /\ new[i] = r /\ \A j \in 1 .. Len(scr) : j # i => new[j] = scr[j]
  BY <1>3, <1>13
<1> HIDE DEF new
<1>17. HeldBy(new) = HeldBy(scr)
  <2>1. \A j \in 1 .. Len(scr) : Held(new[j]) = Held(scr[j])
    <3>1. \A j \in 1 .. Len(scr) : j = i \/ new[j] = scr[j]
      BY <1>16
    <3> QED BY <1>11, <1>14, <1>16, <3>1, Zenon
  <2>2. HeldList(new) = HeldList(scr)
    BY <1>16, <2>1, Zenon DEF HeldList
  <2>3. HeldBy(new) = Total(HeldList(new)) /\ HeldBy(scr) = Total(HeldList(scr))
    BY <1>3, <1>16, HeldByIs
  <2> QED BY <2>2, <2>3
<1>18. GoodScreen(new, f)
  <2>1. \A j \in 1 .. Len(scr) : j = i \/ new[j] = scr[j]
    BY <1>16
  <2> QED BY <1>15, <1>16, <2>1, Zenon DEF GoodScreen
<1>19. Loaded(new, n, f)
  BY <1>3, <1>15, <1>16, <1>17, <1>18, Zenon DEF Loaded
<1> QED BY <1>1, <1>19

LEMMA FindPageIs ==
  ASSUME NEW scr, NEW name, Len(scr) \in Nat, FindPage(scr, name) > 0
  PROVE  FindPage(scr, name) \in 1 .. Len(scr)
<1> DEFINE I == {i \in 1 .. Len(scr) : scr[i].name = name}
<1>1. FindPage(scr, name) = IF I # {} THEN Min(I) ELSE 0
  BY Zenon DEF FindPage, SelectInSeq
<1>2. I # {}
  BY <1>1
<1>3. I \in SUBSET Nat
  OBVIOUS
<1>4. Min(I) \in I
  <2> HIDE DEF I
  <2> QED BY <1>2, <1>3, MinIs
<1> QED BY <1>1, <1>2, <1>4

-----------------------------------------------------------------------------
(* The inductive invariant. *)

(* A file with a list that is unfit for its mode.                          *)
UnfitFile(f) == \E p \in ToSet(f.pages) : \E o \in ToSet(p.objs) : Unfit(o)

(* All pages of the file are on the screen or none, each widget is one of  *)
(* an object of the file, and the live buffers are those of the screen.    *)
IInv ==
  /\ file \in Files
  /\ phase \in {"new", "open", "closed", "crashed"}
  /\ result \in {"none", "success", "error"}
  /\ Loaded(screen, live, file)
  /\ phase = "crashed" => UnfitFile(file)

LEMMA NothingLoaded ==
  ASSUME NEW f
  PROVE  Loaded(<<>>, 0, f)
<1>1. HeldBy(<<>>) = 0 /\ <<>> \in Seq(ScreenPage)
  BY HeldByNone
<1> QED BY <1>1, Zenon DEF Loaded

LEMMA InitIsGood ==
  ASSUME Init
  PROVE  IInv
<1>1. Loaded(screen, live, file)
  BY NothingLoaded, Zenon DEF Init
<1> QED BY <1>1 DEF Init, IInv

(* A widget that is set or drawn again.                                    *)
LEMMA WidgetStep ==
  ASSUME IInv, phase = "open", NEW i \in 1 .. Len(screen), HasWidget(screen[i]),
         NEW v, Good(v, file.pages[i].objs[1]), SameFile(Widget(i), v),
         v.type = "bar" => v.value \in 0 .. 100, WithWidget(i, v)
  PROVE  IInv'
<1> DEFINE o == file.pages[i].objs[1]
<1>1. MeasuredFile(file) /\ Loaded(screen, live, file) /\ file \in Files
      /\ result \in {"none", "success", "error"}
  BY FilesAreMeasured DEF IInv
<1>2. /\ file.pages[i] \in ToSet(file.pages) /\ o \in ToSet(file.pages[i].objs)
      /\ WidgetOf(screen[i].objects[1], screen[i].objects[1].widget, o)
  BY <1>1, PageWidget
<1>3. /\ screen' = [screen EXCEPT ![i].objects[1].widget = v]
      /\ phase' \in IF Unsafe(v) THEN {"open", "crashed"} ELSE {"open"}
      /\ file' = file /\ result' = result /\ live' = live
  BY DEF WithWidget
<1>4. Loaded(screen', live, file)
  <2>1. SameFile(screen[i].objects[1].widget, v)
    BY DEF Widget
  <2> QED BY <1>1, <1>3, <2>1, ScreenStays
<1>5. ASSUME phase' = "crashed"
      PROVE  UnfitFile(file)
  <2>1. Unsafe(v)
    BY <1>3, <1>5
  <2>2. o \in UiObject /\ o.mode \in Types /\ MeasuredKeys(o) /\ Good(v, o)
    BY <1>2 DEF WidgetOf
  <2> HIDE DEF o
  <2>3. Unfit(o)
    BY <2>1, <2>2, UnsafeIs
  <2> QED BY <1>2, <2>3 DEF UnfitFile
<1>6. phase' \in {"open", "crashed"}
  BY <1>3
<1>7. Loaded(screen', live', file')
  BY <1>3, <1>4
<1>8. phase' = "crashed" => UnfitFile(file')
  BY <1>3, <1>5
<1> QED BY <1>1, <1>3, <1>6, <1>7, <1>8 DEF IInv

(* Every step of the screen keeps the invariant.                           *)
LEMMA NextIsGood ==
  ASSUME IInv, [Next]_vars
  PROVE  IInv'
<1>1. MeasuredFile(file) /\ Loaded(screen, live, file) /\ file \in Files
      /\ result \in {"none", "success", "error"}
      /\ screen \in Seq(ScreenPage) /\ Len(screen) \in Nat
  <2>1. Loaded(screen, live, file) /\ file \in Files /\ result \in {"none", "success", "error"}
    BY DEF IInv
  <2>2. screen \in Seq(ScreenPage)
    BY <2>1 DEF Loaded
  <2> QED BY <2>1, <2>2, FilesAreMeasured, LenProperties
<1>2. CASE ConfigParse
  <2>1. Loaded(Built(file).screen, Built(file).live, file)
    BY <1>1, BuiltIs
  <2>2. /\ phase' = "open" /\ result' = "success" /\ file' = file
        /\ screen' = Built(file).screen /\ live' = Built(file).live
    BY <1>2 DEF ConfigParse
  <2>3. Loaded(screen', live', file')
    BY <2>1, <2>2
  <2> QED BY <1>1, <2>2, <2>3 DEF IInv
<1>3. CASE ConfigUnread
  <2>1. phase' = "open" /\ result' = "error" /\ file' = file /\ screen' = screen /\ live' = live
    BY <1>3 DEF ConfigUnread
  <2>2. Loaded(screen', live', file')
    BY <1>1, <2>1
  <2> QED BY <1>1, <2>1, <2>2 DEF IInv
<1>4. CASE Uninit
  <2> DEFINE b == [screen |-> screen, live |-> live]
  <2>1. live = HeldBy(screen) /\ HeldBy(screen) \in Nat
    BY <1>1, HeldByIs DEF Loaded
  <2>2. /\ phase' = "closed" /\ file' = file /\ result' = result
        /\ screen' = Clean(b).screen /\ live' = Clean(b).live
    BY <1>4 DEF Uninit
  <2>3. Clean(b).screen = <<>> /\ Clean(b).live = live - HeldBy(screen)
    BY Zenon DEF Clean, HeldBy
  <2>4. screen' = <<>> /\ live' = 0
    BY <2>1, <2>2, <2>3
  <2>5. Loaded(screen', live', file')
    BY <2>4, NothingLoaded
  <2> QED BY <1>1, <2>2, <2>5 DEF IInv
<1>5. ASSUME NEW name \in Names, NEW value \in 0 .. 100, SetPageProgress(name, value)
      PROVE  IInv'
  <2> DEFINE i == FindPage(screen, name)
             w == Widget(i)
             v == SetProgress(w, value)
             o == file.pages[i].objs[1]
  <2>1. phase = "open" /\ i > 0 /\ HasWidget(screen[i]) /\ WithWidget(i, v)
    BY <1>5 DEF SetPageProgress
  <2>2. i \in 1 .. Len(screen)
    BY <1>1, <2>1, FindPageIs
  <2>3. WidgetOf(screen[i].objects[1], w, o)
    <3> HIDE DEF i
    <3> QED BY <1>1, <2>1, <2>2, PageWidget DEF Widget
  <2> HIDE DEF i
  <2>4. o \in UiObject /\ o.mode \in Types /\ MeasuredKeys(o) /\ Good(w, o)
    BY <2>3 DEF WidgetOf
  <2>5. Good(v, o) /\ SameFile(w, v) /\ v.value = value
    <3> HIDE DEF w, o
    <3> QED BY <2>4, SetProgressIs
  <2> HIDE DEF v
  <2> QED BY <2>1, <2>2, <2>5, WidgetStep
<1>6. ASSUME NEW name \in Names, TimerHandler(name)
      PROVE  IInv'
  <2> DEFINE i == FindPage(screen, name)
             w == Widget(i)
             o == file.pages[i].objs[1]
  <2>1. /\ phase = "open" /\ i > 0 /\ HasWidget(screen[i])
        /\ w.type \in {"circle", "anim"} /\ w.animated /\ w.size > 0
        /\ \E index \in 0 .. w.size : WithWidget(i, Draw(ChangeIndex(w, index)))
    BY <1>6 DEF TimerHandler
  <2>2. i \in 1 .. Len(screen)
    BY <1>1, <2>1, FindPageIs
  <2>3. WidgetOf(screen[i].objects[1], w, o)
    <3> HIDE DEF i
    <3> QED BY <1>1, <2>1, <2>2, PageWidget DEF Widget
  <2> HIDE DEF i
  <2>4. o \in UiObject /\ o.mode \in Types /\ MeasuredKeys(o) /\ Good(w, o)
    BY <2>3 DEF WidgetOf
  <2>5. PICK index \in 0 .. w.size : WithWidget(i, Draw(ChangeIndex(w, index)))
    BY <2>1
  <2> DEFINE v == Draw(ChangeIndex(w, index))
  <2>6. Good(v, o) /\ SameFile(w, v)
    <3> HIDE DEF w, o
    <3> QED BY <2>1, <2>4, TimerIs
  <2>7. v.type # "bar"
    <3>1. v.type = w.type
      BY <2>6 DEF SameFile
    <3> QED BY <2>1, <3>1
  <2>8. WithWidget(i, v)
    BY <2>5
  <2> HIDE DEF v
  <2> QED BY <2>1, <2>2, <2>6, <2>7, <2>8, WidgetStep
<1>7. CASE UNCHANGED vars
  <2>1. file' = file /\ phase' = phase /\ result' = result /\ screen' = screen /\ live' = live
    BY <1>7 DEF vars
  <2> QED BY <2>1 DEF IInv
<1> QED BY <1>2, <1>3, <1>4, <1>5, <1>6, <1>7 DEF Next

(* The invariant holds of the screen, however files are parsed and widgets *)
(* set and drawn.                                                          *)
THEOREM Invariant == Spec => []IInv
<1>1. Init => IInv
  BY InitIsGood
<1>2. IInv /\ [Next]_vars => IInv'
  BY NextIsGood
<1> QED BY <1>1, <1>2, PTL DEF Spec

-----------------------------------------------------------------------------
(* What follows from the invariant. *)

LEMMA WidgetsAreGood ==
  ASSUME IInv, NEW w \in Widgets
  PROVE  \E o \in UiObject : o.mode \in Types /\ MeasuredKeys(o) /\ Good(w, o)
<1>1. MeasuredFile(file) /\ Loaded(screen, live, file) /\ screen \in Seq(ScreenPage)
  BY FilesAreMeasured DEF IInv, Loaded
<1>2. PICK page \in ToSet(screen) :
         \E x \in ToSet(page.objects) : x.kind = "progress" /\ w = x.widget
  BY DEF Widgets
<1>8. PICK x \in ToSet(page.objects) : x.kind = "progress" /\ w = x.widget
  BY <1>2
<1>3. PICK i \in 1 .. Len(screen) : page = screen[i]
  BY <1>1 DEF ToSet
<1>4. page \in ScreenPage
  BY <1>1, <1>3, ElementOfSeq
<1>5. page.objects \in Seq(Things)
  BY <1>4, Zenon DEF ScreenPage
<1>6. PICK j \in 1 .. Len(page.objects) : x = page.objects[j]
  BY <1>5 DEF ToSet
<1>7. WidgetOf(x, x.widget, file.pages[i].objs[j])
  BY <1>1, <1>3, <1>6, <1>8, ScreenObject
<1> QED BY <1>7, <1>8 DEF WidgetOf

LEMMA DigitsAreTyped ==
  ASSUME NEW w, Viewed(w)
  PROVE  w.digits \in [1 .. LV_PROGRESS_DIGIT -> -1 .. 9]
<1>1. LV_PROGRESS_DIGIT = 3
  BY DEF LV_PROGRESS_DIGIT
<1>2. NoDigits \in [1 .. LV_PROGRESS_DIGIT -> -1 .. 9]
  BY <1>1 DEF NoDigits
<1>3. ASSUME NEW x \in 0 .. 100
      PROVE  DigitsOf(x) \in [1 .. LV_PROGRESS_DIGIT -> -1 .. 9]
  <2> DEFINE d == DigitsOf(x)
  <2>1. \A i \in 1 .. 3 : d[i] \in -1 .. 9
    BY DigitsAre
  <2>2. d = [i \in 1 .. LV_PROGRESS_DIGIT |-> d[i]]
    BY Zenon DEF DigitsOf
  <2> HIDE DEF d
  <2>3. d \in [1 .. LV_PROGRESS_DIGIT -> -1 .. 9]
    BY <1>1, <2>1, <2>2, Zenon
  <2> QED BY <2>3 DEF d
<1> QED BY <1>2, <1>3 DEF Viewed

(* What TypeOK says of a widget.                                           *)
Typed(w) ==
  /\ w.type \in Types
  /\ w.size \in 0 .. Full - 1
  /\ w.digits \in [1 .. LV_PROGRESS_DIGIT -> -1 .. 9]
  /\ w.value \in -1 .. 127
  /\ w.rate \in 0 .. Word - 1 /\ w.width \in Nat
  /\ {w.src, w.frame} \subseteq {None} \cup ToSet(w.images)

LEMMA WidgetIsTyped ==
  ASSUME NEW o \in UiObject, o.mode \in Types, MeasuredKeys(o), NEW w, Good(w, o)
  PROVE  Typed(w)
<1>1. Viewed(w) /\ Filed(w, o)
  BY DEF Good
<1>2. w \in WidgetRecord /\ w.type = o.mode /\ Paced(w.rate, o)
      /\ w.size < Full /\ w.size \in Nat
  BY <1>1, FiledIs
<1>3. w.size \in 0 .. Full - 1
  BY <1>2, WidgetAssumption
<1>4. w.value \in -1 .. 127 /\ {w.src, w.frame} \subseteq {None} \cup ToSet(w.images)
  BY <1>1 DEF Viewed
<1>5. w.rate \in 0 .. Word - 1
  BY <1>2, Zenon DEF Paced
<1>6. w.width \in Nat
  BY <1>2 DEF WidgetRecord
<1>7. w.digits \in [1 .. LV_PROGRESS_DIGIT -> -1 .. 9]
  BY <1>1, DigitsAreTyped
<1> QED BY <1>2, <1>3, <1>4, <1>5, <1>6, <1>7, Zenon DEF Typed

LEMMA IInvIsTyped ==
  ASSUME IInv
  PROVE  TypeOK
<1>1. live \in Nat
  BY HeldByIs DEF IInv, Loaded
<1>2. \A w \in Widgets : Typed(w)
  BY WidgetsAreGood, WidgetIsTyped
<1> QED BY <1>1, <1>2, Zenon DEF IInv, TypeOK, Typed

(* Every widget holds only what lv_upgrade_t can hold, with every file.    *)
THEOREM TypeCorrect == Spec => []TypeOK
<1>1. IInv => TypeOK
  BY IInvIsTyped
<1> QED BY <1>1, Invariant, PTL

LEMMA IInvIsWhole ==
  ASSUME IInv
  PROVE  AllPagesOrNone
<1>1. SUFFICES ASSUME screen # <<>>
               PROVE  /\ Len(screen) = Len(file.pages)
                      /\ \A i \in 1 .. Len(screen) :
                           /\ screen[i].name = file.pages[i].name
                           /\ Len(screen[i].objects) = Len(file.pages[i].objs)
  BY Zenon DEF AllPagesOrNone
<1>2. Len(screen) = Len(file.pages) /\ GoodScreen(screen, file)
  BY <1>1 DEF IInv, Loaded
<1> QED BY <1>2, Zenon DEF GoodScreen, GoodPage

(* A file leaves all of its pages on the screen, or none.                  *)
THEOREM WholeScreen == Spec => []AllPagesOrNone
<1>1. IInv => AllPagesOrNone
  BY IInvIsWhole
<1> QED BY <1>1, Invariant, PTL

(* With the pages all image buffers are gone: each was freed once.         *)
THEOREM AllIsFreed == Spec => []NothingLeaks
<1>1. IInv => NothingLeaks
  BY HeldByNone DEF IInv, Loaded, NothingLeaks
<1> QED BY <1>1, Invariant, PTL

(* Only a list that is unfit for its mode, or a rate of 0, makes drawing   *)
(* read outside the table or divide by zero.                               *)
THEOREM CrashesExplained == Spec => []CrashesOnUnfitListOnly
<1>1. IInv => CrashesOnUnfitListOnly
  BY Zenon DEF IInv, CrashesOnUnfitListOnly, UnfitFile
<1> QED BY <1>1, Invariant, PTL

LEMMA BarShows ==
  ASSUME NEW o \in UiObject, o.mode \in Types, MeasuredKeys(o), NEW w, Good(w, o),
         w.type = "bar", w.value >= 0, Ascending(w)
  PROVE  LET keys == {w.images[i] : i \in 1 .. w.size}
             full == w.images[w.size]
             drawn == w.painted[1]
             off(key) == Max({w.value - key, key - w.value})
         IN  /\ IF w.value = full THEN drawn = full
                ELSE /\ drawn \in keys \ {full}
                     /\ \A key \in keys \ {full} : off(drawn) <= off(key)
             /\ w.width = WidthOf(w, drawn)
<1> DEFINE v == w.value
           keys == {w.images[i] : i \in 1 .. w.size}
           full == w.images[w.size]
           drawn == w.painted[1]
           image == BarImage(w, v)
           off(key) == Max({v - key, key - v})
<1>1. Viewed(w) /\ Keyed(w) /\ w.size >= 2
  BY FiledIs DEF Good, Ascending
<1>2. v \in 0 .. 100
  BY <1>1 DEF Viewed
<1>3. w.painted = <<image>> /\ w.width = WidthOf(w, image)
  BY <1>1, <1>2 DEF Viewed
<1>4. drawn = image
  <2> HIDE DEF image
  <2> QED BY <1>3
<1>5. /\ image \in Int
      /\ IF v = full THEN image = full
         ELSE /\ image \in keys \ {full}
              /\ \A key \in keys \ {full} : Off(v, image) <= Off(v, key)
  <2>1. v \in Int
    BY <1>2
  <2> HIDE DEF v
  <2> QED BY <1>1, <2>1, ClosestIsShown
<1>6. keys \subseteq Int
  BY <1>1 DEF Keyed
<1> HIDE DEF image, keys, full, drawn
<1>7. \A key \in Int : off(key) = Off(v, key)
  <2>1. v \in Int
    BY <1>2
  <2> HIDE DEF v
  <2> QED BY <2>1, OffIs
<1> HIDE DEF off
<1>8. \A key \in keys \ {full} : Off(v, image) <= Off(v, key) => off(image) <= off(key)
  BY <1>5, <1>6, <1>7
<1>9. /\ IF v = full THEN drawn = full
         ELSE /\ drawn \in keys \ {full}
              /\ \A key \in keys \ {full} : off(drawn) <= off(key)
      /\ w.width = WidthOf(w, drawn)
  BY <1>3, <1>4, <1>5, <1>8, Zenon
<1> QED BY <1>9 DEF off, keys, full, drawn

LEMMA IInvIsClosest ==
  ASSUME IInv
  PROVE  BarIsClosest
BY WidgetsAreGood, BarShows, Zenon DEF BarIsClosest

(* A bar with an ascending list shows its last image for that key only,    *)
(* and otherwise the closest of the others, as wide as it is.              *)
THEOREM BarShowsClosest == Spec => []BarIsClosest
<1>1. IInv => BarIsClosest
  BY IInvIsClosest
<1> QED BY <1>1, Invariant, PTL

LEMMA NumberShows ==
  ASSUME NEW o \in UiObject, o.mode \in Types, MeasuredKeys(o), NEW w, Good(w, o),
         w.type = "number", w.value >= 0, HasDigits(w)
  PROVE  ReadsAs(w)
<1>1. Viewed(w) /\ w \in WidgetRecord /\ Measured(w) /\ w.percent = o.percent
  BY FiledIs DEF Good
<1>2. w.value \in 0 .. 100 /\ w.digits = DigitsOf(w.value)
  BY <1>1 DEF Viewed
<1>3. w.width = NumberWidth(w) /\ w.width \in Nat /\ w.percent \in BOOLEAN
  BY <1>1, <1>2 DEF Viewed, WidgetRecord
<1> QED BY <1>1, <1>2, <1>3, NumberIsRead

LEMMA IInvReads ==
  ASSUME IInv
  PROVE  NumberReads
<1>1. ASSUME NEW w \in Widgets, w.type = "number" /\ w.value >= 0 /\ HasDigits(w)
      PROVE  ReadsAs(w)
  BY <1>1, WidgetsAreGood, NumberShows
<1> QED BY <1>1, Zenon DEF NumberReads, ReadsAs

(* The areas of a number whose digits have images, read from the left, are *)
(* the value; they abut, and are as wide as the object.                    *)
THEOREM NumberReadsAsValue == Spec => []NumberReads
<1>1. IInv => NumberReads
  BY IInvReads
<1> QED BY <1>1, Invariant, PTL
=============================================================================
