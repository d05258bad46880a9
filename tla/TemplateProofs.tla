--------------------------- MODULE TemplateProofs ---------------------------
(***************************************************************************)
(* What holds of fillTemplate for all payloads, values and capacities, and *)
(* any number of ticks.                                                    *)
(***************************************************************************)
EXTENDS TemplateReference, SequenceTheorems, WellFoundedInduction, TLAPS

(* A set of numbers that is not empty has a least one.                     *)
LEMMA LeastNumber ==
  ASSUME NEW T \in SUBSET Nat, T # {}
  PROVE  Min(T) \in T /\ \A y \in T : Min(T) <= y
<1> DEFINE Less == OpToRel(<, Nat)
<1>1. IsWellFoundedOn(Less, Nat)
  BY NatLessThanWellFounded
<1>2. \A x, y \in Nat : y < x => <<y, x>> \in Less
  <2>1. ASSUME NEW x \in Nat, NEW y \in Nat, y < x
        PROVE  <<y, x>> \in Less
    <3>1. <<y, x>> \in Nat \X Nat
      OBVIOUS
    <3>2. <<y, x>>[1] < <<y, x>>[2]
      BY <2>1
    <3> QED BY <3>1, <3>2, Zenon DEF OpToRel
  <2> QED BY <2>1
<1> HIDE DEF Less
<1>3. PICK x \in T : \A y \in T : ~(<<y, x>> \in Less)
  BY <1>1, WFMin
<1>4. ASSUME NEW y \in T
      PROVE  x <= y
  <2>1. ~(y < x)
    BY <1>2, <1>3
  <2> QED BY <2>1
<1> QED BY <1>4 DEF Min

-----------------------------------------------------------------------------
(* Placeholders                                                            *)

LEMMA FirstPairFacts ==
  ASSUME NEW s \in Seq(Chars), NEW c, NEW from \in Nat \ {0}
  PROVE  LET p == FirstPair(s, c, from)
         IN /\ p \in Nat
            /\ p # 0 => /\ p \in from .. Len(s) - 1 /\ s[p] = c /\ s[p + 1] = c
                        /\ \A i \in from .. p - 1 : ~(s[i] = c /\ s[i + 1] = c)
            /\ p = 0 => \A i \in from .. Len(s) - 1 : ~(s[i] = c /\ s[i + 1] = c)
<1> DEFINE at == {i \in from .. Len(s) - 1 : s[i] = c /\ s[i + 1] = c}
<1>1. at \in SUBSET Nat
  OBVIOUS
<1>2. CASE at = {}
  BY <1>2 DEF FirstPair
<1>3. CASE at # {}
  <2>1. FirstPair(s, c, from) = Min(at)
    BY <1>3 DEF FirstPair
  <2>2. Min(at) \in at /\ \A y \in at : Min(at) <= y
    BY <1>1, <1>3, LeastNumber
  <2>3. \A i \in from .. Len(s) - 1 :
           s[i] = c /\ s[i + 1] = c => Min(at) <= i
    BY <2>2
  <2>4. \A i \in from .. Min(at) - 1 : i \in from .. Len(s) - 1 /\ ~(Min(at) <= i)
    BY <2>2
  <2>5. Min(at) \in from .. Len(s) - 1 /\ s[Min(at)] = c /\ s[Min(at) + 1] = c
    BY <2>2
  <2>6. Min(at) # 0
    BY <2>5
  <2> HIDE DEF at
  <2> QED BY <2>1, <2>3, <2>4, <2>5, <2>6
<1> QED BY <1>2, <1>3

LEMMA ValueIsText ==
  ASSUME NEW c \in Configs, NEW s
  PROVE  Value(c, s) \in Seq(Chars)
<1>1. <<>> \in Seq(Chars)
  OBVIOUS
<1> QED BY <1>1, TextsAssumption DEF Value

(* A placeholder that ends lies within the text.                           *)
LEMMA PlaceholderFacts ==
  ASSUME NEW s \in Seq(Chars), Begin(s) # 0, Close(s) # 0
  PROVE  /\ Begin(s) \in 1 .. Len(s) - 1
         /\ End(s) \in Begin(s) + 1 .. Len(s)
         /\ Before(s) \in Seq(Chars) /\ Len(Before(s)) = Begin(s) - 1
         /\ \A i \in 1 .. Begin(s) - 1 : Before(s)[i] = s[i]
         /\ After(s) \in Seq(Chars) /\ Len(After(s)) = Len(s) - End(s)
         /\ \A i \in 1 .. Len(s) - End(s) : After(s)[i] = s[End(s) + i]
<1>1. Begin(s) \in 1 .. Len(s) - 1
  <2>1. Begin(s) = FirstPair(s, Open, 1)
    BY DEF Begin
  <2> QED BY <2>1, FirstPairFacts
<1>2. Close(s) \in Begin(s) .. Len(s) - 1
  <2> DEFINE b == Begin(s)
  <2>1. b \in Nat \ {0} /\ Close(s) = FirstPair(s, Shut, b)
    BY <1>1 DEF Close
  <2> HIDE DEF b
  <2>2. /\ FirstPair(s, Shut, b) \in Nat
        /\ FirstPair(s, Shut, b) # 0 => FirstPair(s, Shut, b) \in b .. Len(s) - 1
    BY <2>1, FirstPairFacts
  <2>3. Close(s) \in b .. Len(s) - 1
    BY <2>1, <2>2
  <2> QED BY <2>3 DEF b
<1>3. End(s) \in Begin(s) + 1 .. Len(s) /\ Len(s) \in Nat
  BY <1>1, <1>2 DEF End
<1>4. /\ Before(s) \in Seq(Chars) /\ Len(Before(s)) = Begin(s) - 1
      /\ \A i \in 1 .. Begin(s) - 1 : Before(s)[i] = s[i]
  BY <1>1 DEF Before
<1>5. /\ After(s) \in Seq(Chars) /\ Len(After(s)) = Len(s) - End(s)
      /\ \A i \in 1 .. Len(s) - End(s) : After(s)[i] = s[End(s) + i]
  <2>1. \A i \in End(s) + 1 .. Len(s) : s[i] \in Chars
    BY <1>1, <1>3
  <2> QED BY <1>3, <2>1, SubSeqProperties DEF After
<1> QED BY <1>1, <1>3, <1>4, <1>5

LEMMA ReplacedFacts ==
  ASSUME NEW s \in Seq(Chars), Begin(s) # 0, Close(s) # 0, NEW c \in Configs
  PROVE  LET v == Value(c, s)
             t == Replaced(c, s)
             kept == Begin(s) - 1 + Len(v)
         IN /\ t \in Seq(Chars)
            /\ Len(t) = kept + (Len(s) - End(s))
            /\ \A i \in 1 .. Len(t) :
                  t[i] = IF i < Begin(s) THEN s[i]
                         ELSE IF i <= kept THEN v[i - (Begin(s) - 1)]
                         ELSE s[End(s) + (i - kept)]
<1> DEFINE v == Value(c, s)
<1>1. v \in Seq(Chars)
  BY ValueIsText
<1> HIDE DEF v
<1> DEFINE front == Before(s) \o v
<1>2. /\ front \in Seq(Chars) /\ Len(front) = Begin(s) - 1 + Len(v)
      /\ \A i \in 1 .. Len(front) :
            front[i] = IF i < Begin(s) THEN s[i] ELSE v[i - (Begin(s) - 1)]
  <2>1. /\ Before(s) \in Seq(Chars) /\ Len(Before(s)) = Begin(s) - 1
        /\ \A i \in 1 .. Begin(s) - 1 : Before(s)[i] = s[i]
        /\ Begin(s) \in Nat \ {0}
    BY PlaceholderFacts
  <2>2. /\ front \in Seq(Chars) /\ Len(front) = Len(Before(s)) + Len(v)
        /\ \A i \in 1 .. Len(Before(s)) + Len(v) : front[i] =
              IF i <= Len(Before(s)) THEN Before(s)[i] ELSE v[i - Len(Before(s))]
    BY <1>1, <2>1, ConcatProperties
  <2> HIDE DEF front
  <2> QED BY <1>1, <2>1, <2>2
<1> HIDE DEF front
<1>3. Replaced(c, s) = front \o After(s)
  BY DEF Replaced, front, v
<1>4. /\ After(s) \in Seq(Chars) /\ Len(After(s)) = Len(s) - End(s)
      /\ \A i \in 1 .. Len(s) - End(s) : After(s)[i] = s[End(s) + i]
      /\ Begin(s) \in 1 .. Len(s) - 1 /\ End(s) \in Begin(s) + 1 .. Len(s)
  BY PlaceholderFacts
<1> DEFINE t == Replaced(c, s)
<1>5. /\ t \in Seq(Chars) /\ Len(t) = Len(front) + Len(After(s))
      /\ \A i \in 1 .. Len(front) + Len(After(s)) : t[i] =
            IF i <= Len(front) THEN front[i] ELSE After(s)[i - Len(front)]
  <2> DEFINE a == After(s)
             w == front \o a
  <2>1. a \in Seq(Chars)
    BY <1>4
  <2> HIDE DEF a
  <2>2. /\ w \in Seq(Chars) /\ Len(w) = Len(front) + Len(a)
        /\ \A i \in 1 .. Len(front) + Len(a) : w[i] =
              IF i <= Len(front) THEN front[i] ELSE a[i - Len(front)]
    BY <1>2, <2>1, ConcatProperties
  <2>3. t = w
    BY <1>3 DEF a
  <2> HIDE DEF t, w
  <2> QED BY <2>2, <2>3 DEF a
<1> HIDE DEF t
<1>6. /\ Len(t) = Begin(s) - 1 + Len(v) + (Len(s) - End(s))
      /\ Len(v) \in Nat /\ Len(s) \in Nat
  <2>1. Len(v) \in Nat /\ Len(s) \in Nat
    BY <1>1
  <2>2. Len(front) = Begin(s) - 1 + Len(v)
    BY <1>2
  <2>3. Len(t) = Len(front) + (Len(s) - End(s))
    BY <1>4, <1>5
  <2> HIDE DEF front
  <2> QED BY <2>1, <2>2, <2>3
<1>7. ASSUME NEW i \in 1 .. Len(t)
      PROVE  t[i] = IF i < Begin(s) THEN s[i]
                    ELSE IF i <= Begin(s) - 1 + Len(v) THEN v[i - (Begin(s) - 1)]
                    ELSE s[End(s) + (i - (Begin(s) - 1 + Len(v)))]
  <2> DEFINE n == Len(front)
             m == Len(s) - End(s)
  <2>1. n = Begin(s) - 1 + Len(v) /\ n \in Nat /\ m \in Nat
    BY <1>2, <1>4, <1>6
  <2>2. i \in 1 .. n + m
    BY <1>6, <2>1
  <2> HIDE DEF m
  <2>3. t[i] = IF i <= n THEN front[i] ELSE After(s)[i - n]
    BY <1>4, <1>5, <2>2 DEF m
  <2>4. CASE i <= n
    <3>1. i \in 1 .. n
      BY <2>1, <2>2, <2>4
    <3>2. front[i] = IF i < Begin(s) THEN s[i] ELSE v[i - (Begin(s) - 1)]
      BY <1>2, <3>1
    <3> HIDE DEF n
    <3> QED BY <2>1, <2>3, <2>4, <3>2
  <2>5. CASE ~(i <= n)
    <3>1. i - n \in 1 .. m
      BY <2>1, <2>2, <2>5
    <3>2. After(s)[i - n] = s[End(s) + (i - n)]
      BY <1>4, <3>1 DEF m
    <3> HIDE DEF n
    <3>3. ~(i < Begin(s)) /\ ~(i <= Begin(s) - 1 + Len(v))
      <4>1. i \in Int /\ Begin(s) \in Int /\ Len(v) \in Nat
        BY <1>4, <1>6
      <4> QED BY <2>1, <2>5, <4>1
    <3>4. t[i] = s[End(s) + (i - n)]
      BY <2>3, <2>5, <3>2
    <3>5. i - n = i - (Begin(s) - 1 + Len(v))
      BY <2>1
    <3> QED BY <3>3, <3>4, <3>5
  <2> QED BY <2>4, <2>5
<1> QED BY <1>5, <1>6, <1>7 DEF t, v

-----------------------------------------------------------------------------
(* Cells                                                                   *)

LEMMA OverwriteFacts ==
  ASSUME NEW cells \in Seq(Chars), NEW i \in Nat \ {0}, NEW t \in Seq(Chars)
  PROVE  LET w == Overwrite(cells, i, t)
         IN /\ w \in Seq(Chars) /\ Len(w) = Len(cells)
            /\ \A j \in 1 .. Len(cells) :
                  w[j] = IF j \in i .. i + Len(t) - 1 THEN t[j - i + 1] ELSE cells[j]
<1> DEFINE w == Overwrite(cells, i, t)
<1>1. \A j \in 1 .. Len(cells) :
         /\ w[j] = IF j \in i .. i + Len(t) - 1 THEN t[j - i + 1] ELSE cells[j]
         /\ w[j] \in Chars
  <2>1. \A j \in 1 .. Len(cells) : j \in i .. i + Len(t) - 1 =>
           j - i + 1 \in 1 .. Len(t)
    OBVIOUS
  <2> QED BY <2>1 DEF Overwrite
<1>2. w \in [1 .. Len(cells) -> Chars]
  BY <1>1 DEF Overwrite
<1> HIDE DEF w
<1>3. w \in Seq(Chars) /\ Len(w) = Len(cells)
  BY <1>2
<1> QED BY <1>1, <1>3 DEF w

LEMMA PrefixFacts ==
  ASSUME NEW cells \in Seq(Chars), NEW n \in 0 .. Len(cells)
  PROVE  LET s == SubSeq(cells, 1, n)
         IN /\ s \in Seq(Chars) /\ Len(s) = n
            /\ \A i \in 1 .. n : s[i] = cells[i]
<1>1. \A i \in 1 .. n : cells[i] \in Chars
  OBVIOUS
<1> QED BY <1>1, SubSeqProperties

LEMMA PrefixEqual ==
  ASSUME NEW x \in Seq(Chars), NEW y \in Seq(Chars),
         NEW n \in 0 .. Len(x), n <= Len(y), \A i \in 1 .. n : x[i] = y[i]
  PROVE  SubSeq(x, 1, n) = SubSeq(y, 1, n)
<1> DEFINE p == SubSeq(x, 1, n)
           q == SubSeq(y, 1, n)
<1>1. p \in Seq(Chars) /\ Len(p) = n /\ \A i \in 1 .. n : p[i] = x[i]
  BY PrefixFacts
<1>2. q \in Seq(Chars) /\ Len(q) = n /\ \A i \in 1 .. n : q[i] = y[i]
  <2>1. n \in 0 .. Len(y)
    OBVIOUS
  <2> QED BY <2>1, PrefixFacts
<1> HIDE DEF p, q
<1>3. p = q
  BY <1>1, <1>2, SeqEqual
<1> QED BY <1>3 DEF p, q

(* An array that append has allocated begins with the text it is for.      *)
LEMMA GrownFacts ==
  ASSUME NEW s \in Seq(Chars), NEW a \in Grown(s)
  PROVE  /\ a \in Seq(Chars) /\ Len(s) \in 0 .. Len(a)
         /\ SubSeq(a, 1, Len(s)) = s
<1>1. PICK n \in 0 .. MaxSlack : a = s \o [j \in 1 .. n |-> "0"]
  BY DEF Grown
<1> DEFINE z == [j \in 1 .. n |-> "0"]
<1>2. z \in Seq(Chars) /\ Len(z) = n /\ n \in Nat
  <2>1. n \in Nat /\ z \in [1 .. n -> Chars]
    BY SlackAssumption, TextsAssumption
  <2> QED BY <2>1
<1> HIDE DEF z
<1>3. /\ s \o z \in Seq(Chars) /\ Len(s \o z) = Len(s) + n
      /\ \A i \in 1 .. Len(s) + n : (s \o z)[i] = IF i <= Len(s) THEN s[i] ELSE z[i - Len(s)]
  BY <1>2, ConcatProperties
<1>4. a = s \o z
  BY <1>1 DEF z
<1>5. a \in Seq(Chars) /\ Len(s) \in 0 .. Len(a) /\ \A i \in 1 .. Len(s) : a[i] = s[i]
  BY <1>2, <1>3, <1>4
<1>6. SubSeq(a, 1, Len(s)) = s
  <2> DEFINE p == SubSeq(a, 1, Len(s))
  <2>1. p \in Seq(Chars) /\ Len(p) = Len(s) /\ \A i \in 1 .. Len(s) : p[i] = a[i]
    BY <1>5, PrefixFacts
  <2> HIDE DEF p
  <2>2. p = s
    BY <1>5, <2>1, SeqEqual
  <2> QED BY <2>2 DEF p
<1> QED BY <1>5, <1>6

(* The value and the rest moved to the front are the text replaced.        *)
ShrinksTo(cells, n, c, s) ==
    LET v == Value(c, s)
        w == Overwrite(Overwrite(cells, Begin(s), v), Begin(s) + Len(v), After(s))
        m == n - (Width(s) - Len(v))
    IN /\ w \in Seq(Chars) /\ Len(w) = Len(cells)
       /\ \A i \in 1 .. Begin(s) - 1 : w[i] = cells[i]
       /\ m \in 0 .. Len(cells)
       /\ SubSeq(w, 1, m) = Replaced(c, s)

LEMMA ShrunkText ==
  ASSUME NEW cells \in Seq(Chars), NEW n \in 0 .. Len(cells), NEW c \in Configs,
         NEW s, s = SubSeq(cells, 1, n), Begin(s) # 0, Close(s) # 0,
         Len(Value(c, s)) <= Width(s)
  PROVE  ShrinksTo(cells, n, c, s)
<1> DEFINE v == Value(c, s)
           b == Begin(s)
           e == End(s)
           a == After(s)
           t == Replaced(c, s)
<1>1. s \in Seq(Chars) /\ Len(s) = n /\ \A i \in 1 .. n : s[i] = cells[i]
  BY PrefixFacts
<1>2. v \in Seq(Chars)
  BY ValueIsText
<1>3. /\ b \in 1 .. n - 1 /\ e \in b + 1 .. n
      /\ a \in Seq(Chars) /\ Len(a) = n - e
      /\ \A i \in 1 .. n - e : a[i] = s[e + i]
  BY <1>1, PlaceholderFacts
<1>4. /\ t \in Seq(Chars) /\ Len(t) = b - 1 + Len(v) + (n - e)
      /\ \A i \in 1 .. Len(t) : t[i] =
            IF i < b THEN s[i]
            ELSE IF i <= b - 1 + Len(v) THEN v[i - (b - 1)]
            ELSE s[e + (i - (b - 1 + Len(v)))]
  BY <1>1, ReplacedFacts
<1>5. Width(s) = e - b + 1
  BY DEF Width
<1> HIDE DEF v, b, e, a, t
<1>6. Len(v) <= e - b + 1 /\ Len(v) \in Nat
  BY <1>2, <1>5 DEF v
<1> DEFINE w1 == Overwrite(cells, b, v)
           w2 == Overwrite(w1, b + Len(v), a)
           m == n - (Width(s) - Len(v))
<1>7. /\ w1 \in Seq(Chars) /\ Len(w1) = Len(cells)
      /\ \A j \in 1 .. Len(cells) :
            w1[j] = IF j \in b .. b + Len(v) - 1 THEN v[j - b + 1] ELSE cells[j]
  <2>1. b \in Nat \ {0}
    BY <1>3
  <2> QED BY <1>2, <2>1, OverwriteFacts
<1> HIDE DEF w1
<1>8. /\ w2 \in Seq(Chars) /\ Len(w2) = Len(cells)
      /\ \A j \in 1 .. Len(cells) :
            w2[j] = IF j \in b + Len(v) .. b + Len(v) + Len(a) - 1
                    THEN a[j - (b + Len(v)) + 1] ELSE w1[j]
  <2>1. b + Len(v) \in Nat \ {0}
    BY <1>3, <1>6
  <2>2. a \in Seq(Chars)
    BY <1>3
  <2>3. w1 \in Seq(Chars) /\ Len(w1) = Len(cells)
    BY <1>7
  <2> DEFINE p == b + Len(v)
  <2>4. p \in Nat \ {0} /\ w2 = Overwrite(w1, p, a)
    BY <2>1
  <2> HIDE DEF p, w2
  <2>5. /\ Overwrite(w1, p, a) \in Seq(Chars) /\ Len(Overwrite(w1, p, a)) = Len(w1)
        /\ \A j \in 1 .. Len(w1) :
              Overwrite(w1, p, a)[j] = IF j \in p .. p + Len(a) - 1 THEN a[j - p + 1] ELSE w1[j]
    BY <2>2, <2>3, <2>4, OverwriteFacts
  <2> QED BY <2>3, <2>4, <2>5 DEF p
<1> HIDE DEF w2
<1>9. m = Len(t) /\ m \in 0 .. n
  <2>1. b \in Nat /\ e \in Nat /\ n \in Nat /\ b >= 1 /\ e <= n
    BY <1>3
  <2>2. m = b - 1 + Len(v) + (n - e)
    BY <1>5, <1>6, <2>1
  <2> HIDE DEF m
  <2> QED BY <1>4, <1>6, <2>1, <2>2
<1>10. m \in 0 .. Len(cells)
  BY <1>9
<1> HIDE DEF m
<1>11. ASSUME NEW i \in 1 .. m
       PROVE  w2[i] = t[i]
  <2>1. i \in 1 .. Len(cells) /\ i \in 1 .. Len(t) /\ i \in 1 .. n
    BY <1>9, <1>10
  <2>2. CASE i < b
    BY <1>1, <1>3, <1>4, <1>6, <1>7, <1>8, <2>1, <2>2
  <2>3. CASE i \in b .. b - 1 + Len(v)
    <3>0. /\ i \in b .. b + Len(v) - 1
          /\ ~(i \in b + Len(v) .. b + Len(v) + Len(a) - 1)
      BY <1>3, <1>6, <2>1, <2>3
    <3>1. w2[i] = w1[i] /\ w1[i] = v[i - b + 1]
      BY <1>7, <1>8, <2>1, <3>0
    <3>2. t[i] = v[i - (b - 1)]
      BY <1>3, <1>4, <1>6, <2>1, <2>3
    <3>3. i - b + 1 = i - (b - 1)
      BY <1>3, <2>3
    <3> QED BY <3>1, <3>2, <3>3
  <2>4. CASE i > b - 1 + Len(v)
    <3>1. i \in b + Len(v) .. b + Len(v) + Len(a) - 1
      BY <1>3, <1>4, <1>6, <1>9, <2>1, <2>4
    <3>2. w2[i] = a[i - (b + Len(v)) + 1]
      BY <1>8, <2>1, <3>1
    <3>3. i - (b + Len(v)) + 1 \in 1 .. n - e
      BY <1>3, <1>6, <3>1
    <3>4. w2[i] = s[e + (i - (b + Len(v)) + 1)]
      BY <1>3, <3>2, <3>3
    <3>0. ~(i < b) /\ ~(i <= b - 1 + Len(v))
      BY <1>3, <1>6, <2>1, <2>4
    <3>5. t[i] = s[e + (i - (b - 1 + Len(v)))]
      BY <1>4, <2>1, <3>0
    <3>6. e + (i - (b + Len(v)) + 1) = e + (i - (b - 1 + Len(v)))
      BY <1>3, <1>6, <2>1
    <3> QED BY <3>4, <3>5, <3>6
  <2> QED BY <1>3, <1>6, <2>1, <2>2, <2>3, <2>4
<1>12. SubSeq(w2, 1, m) = t
  <2> DEFINE p == SubSeq(w2, 1, m)
  <2>1. p \in Seq(Chars) /\ Len(p) = m /\ \A i \in 1 .. m : p[i] = w2[i]
    BY <1>8, <1>10, PrefixFacts
  <2> HIDE DEF p
  <2>2. p = t
    BY <1>4, <1>9, <1>11, <2>1, SeqEqual
  <2> QED BY <2>2 DEF p
<1>13. ASSUME NEW i \in 1 .. b - 1
       PROVE  w2[i] = cells[i]
  <2>1. /\ i \in 1 .. Len(cells) /\ ~(i \in b .. b + Len(v) - 1)
        /\ ~(i \in b + Len(v) .. b + Len(v) + Len(a) - 1)
    BY <1>3, <1>6
  <2> QED BY <1>7, <1>8, <2>1
<1> QED BY <1>8, <1>10, <1>12, <1>13 DEF w2, w1, m, v, b, a, t, ShrinksTo

(* What append leaves when it writes a longer value over the rest: a text  *)
(* of the right length, right up to the end of the value, and right        *)
(* altogether when nothing follows the placeholder.                        *)
GrowsTo(cells, n, c, s) ==
    LET v == Value(c, s)
        kept == Begin(s) - 1 + Len(v)
        w == Overwrite(cells, Begin(s), v)
        whole == SubSeq(w, 1, kept) \o Rest(w, s)
        t == Replaced(c, s)
    IN /\ w \in Seq(Chars) /\ Len(w) = Len(cells)
       /\ \A i \in 1 .. Begin(s) - 1 : w[i] = cells[i]
       /\ whole \in Seq(Chars) /\ Len(whole) = Len(t)
       /\ kept \in 0 .. Len(t) /\ Len(t) > n
       /\ \A i \in 1 .. kept : whole[i] = t[i]
       /\ End(s) = Len(s) => whole = t
       /\ End(s) # Len(s) => After(s) # <<>>

LEMMA GrownText ==
  ASSUME NEW cells \in Seq(Chars), NEW n \in 0 .. Len(cells), NEW c \in Configs,
         NEW s, s = SubSeq(cells, 1, n), Begin(s) # 0, Close(s) # 0,
         Begin(s) - 1 + Len(Value(c, s)) <= Len(cells),
         Len(Value(c, s)) > Width(s)
  PROVE  GrowsTo(cells, n, c, s)
<1> DEFINE v == Value(c, s)
           b == Begin(s)
           e == End(s)
           t == Replaced(c, s)
           kept == b - 1 + Len(v)
           w == Overwrite(cells, b, v)
           front == SubSeq(w, 1, kept)
           rest == Rest(w, s)
           whole == front \o rest
<1>1. s \in Seq(Chars) /\ Len(s) = n /\ \A i \in 1 .. n : s[i] = cells[i]
  BY PrefixFacts
<1>2. v \in Seq(Chars) /\ Len(v) \in Nat
  BY ValueIsText
<1>3. /\ b \in 1 .. n - 1 /\ e \in b + 1 .. n
      /\ After(s) \in Seq(Chars) /\ Len(After(s)) = n - e
  BY <1>1, PlaceholderFacts
<1>4. /\ t \in Seq(Chars) /\ Len(t) = kept + (n - e)
      /\ \A i \in 1 .. Len(t) : t[i] =
            IF i < b THEN s[i] ELSE IF i <= kept THEN v[i - (b - 1)]
            ELSE s[e + (i - kept)]
  BY <1>1, ReplacedFacts
<1>5. kept <= Len(cells) /\ Len(v) > e - b + 1
  BY DEF Width
<1> HIDE DEF v, b, e, t, w
<1>6. kept \in 0 .. Len(cells) /\ kept \in 0 .. Len(t) /\ Len(t) > n
  BY <1>2, <1>3, <1>4, <1>5
<1>7. /\ w \in Seq(Chars) /\ Len(w) = Len(cells)
      /\ \A j \in 1 .. Len(cells) :
            w[j] = IF j \in b .. b + Len(v) - 1 THEN v[j - b + 1] ELSE cells[j]
  <2>1. b \in Nat \ {0}
    BY <1>3
  <2> QED BY <1>2, <2>1, OverwriteFacts DEF w
<1>8. \A i \in 1 .. b - 1 : w[i] = cells[i]
  <2>1. \A i \in 1 .. b - 1 : i \in 1 .. Len(cells) /\ ~(i \in b .. b + Len(v) - 1)
    BY <1>3
  <2> QED BY <1>7, <2>1
<1>9. /\ front \in Seq(Chars) /\ Len(front) = kept
      /\ \A i \in 1 .. kept : front[i] = w[i]
  BY <1>6, <1>7, PrefixFacts
<1>10. rest \in Seq(Chars) /\ Len(rest) = n - e
  <2>1. \A i \in e + 1 .. n : i \in 1 .. Len(cells)
    BY <1>3
  <2>2. \A i \in e + 1 .. n : w[i] \in Chars
    BY <1>7, <2>1
  <2>3. rest = SubSeq(w, e + 1, n)
    BY <1>1 DEF Rest, e
  <2> HIDE DEF rest
  <2> QED BY <1>3, <2>2, <2>3, SubSeqProperties
<1> HIDE DEF front, rest
<1>11. /\ whole \in Seq(Chars) /\ Len(whole) = Len(t)
       /\ \A i \in 1 .. Len(t) : whole[i] =
             IF i <= kept THEN front[i] ELSE rest[i - kept]
  <2>1. /\ whole \in Seq(Chars) /\ Len(whole) = Len(front) + Len(rest)
        /\ \A i \in 1 .. Len(front) + Len(rest) : whole[i] =
              IF i <= Len(front) THEN front[i] ELSE rest[i - Len(front)]
    <3>1. front \in Seq(Chars) /\ rest \in Seq(Chars)
      BY <1>9, <1>10
    <3> QED BY <3>1, ConcatProperties
  <2>2. Len(front) = kept /\ Len(front) + Len(rest) = Len(t)
    BY <1>4, <1>9, <1>10
  <2> HIDE DEF whole, kept
  <2> QED BY <2>1, <2>2
<1> HIDE DEF whole
<1>12. ASSUME NEW i \in 1 .. kept
       PROVE  whole[i] = t[i]
  <2>1. i \in 1 .. Len(t) /\ i <= kept /\ i \in 1 .. Len(cells) /\ i \in Nat
    BY <1>6
  <2>2. whole[i] = w[i]
    BY <1>9, <1>11, <2>1
  <2>3. CASE i < b
    <3>1. i \in 1 .. b - 1 /\ i \in 1 .. n
      BY <1>3, <2>1, <2>3
    <3> QED BY <1>1, <1>4, <1>8, <2>1, <2>2, <2>3, <3>1
  <2>4. CASE ~(i < b)
    <3>1. i \in b .. b + Len(v) - 1 /\ i - b + 1 = i - (b - 1)
      BY <1>2, <1>3, <2>1, <2>4
    <3> QED BY <1>4, <1>7, <2>1, <2>2, <2>4, <3>1
  <2> QED BY <2>3, <2>4
<1>13. ASSUME e = n
       PROVE  whole = t
  <2>1. Len(t) = kept
    BY <1>3, <1>4, <1>6, <1>13
  <2> QED BY <1>4, <1>11, <1>12, <2>1, SeqEqual
<1>14. e # n => After(s) # <<>>
  BY <1>3
<1> QED BY <1>1, <1>6, <1>7, <1>8, <1>11, <1>12, <1>13, <1>14
        DEF whole, front, rest, w, v, b, e, t, GrowsTo

(* The rest of a text is the rest of its array.                            *)
LEMMA RestIsAfter ==
  ASSUME NEW cells \in Seq(Chars), NEW n \in 0 .. Len(cells),
         NEW s, s = SubSeq(cells, 1, n), Begin(s) # 0, Close(s) # 0
  PROVE  Rest(cells, s) = After(s)
<1> DEFINE e == End(s)
           r == Rest(cells, s)
           a == After(s)
<1>1. s \in Seq(Chars) /\ Len(s) = n /\ \A i \in 1 .. n : s[i] = cells[i]
  BY PrefixFacts
<1>2. /\ e \in 1 .. n /\ a \in Seq(Chars) /\ Len(a) = n - e
      /\ \A i \in 1 .. n - e : a[i] = s[e + i]
  <2>1. /\ Begin(s) \in 1 .. Len(s) - 1 /\ e \in Begin(s) + 1 .. Len(s)
        /\ a \in Seq(Chars) /\ Len(a) = Len(s) - e
        /\ \A i \in 1 .. Len(s) - e : a[i] = s[e + i]
    BY <1>1, PlaceholderFacts
  <2> HIDE DEF e, a
  <2>2. Len(s) = n
    BY <1>1
  <2>3. e \in 1 .. n
    BY <2>1, <2>2
  <2> QED BY <2>1, <2>2, <2>3
<1>3. r = SubSeq(cells, e + 1, n)
  BY <1>1 DEF Rest
<1> HIDE DEF e, r, a
<1>4. \A i \in e + 1 .. n : cells[i] \in Chars
  BY <1>2
<1>5. /\ r \in Seq(Chars) /\ Len(r) = n - e
      /\ \A i \in 1 .. n - e : r[i] = cells[e + 1 + i - 1]
  BY <1>2, <1>3, <1>4, SubSeqProperties
<1>6. \A i \in 1 .. n - e : e + 1 + i - 1 = e + i /\ e + i \in 1 .. n
  BY <1>2
<1>7. r = a
  <2>1. \A i \in 1 .. n - e : r[i] = a[i]
    BY <1>1, <1>2, <1>5, <1>6
  <2> QED BY <1>2, <1>5, <2>1, SeqEqual
<1> QED BY <1>7 DEF r, a

-----------------------------------------------------------------------------
(* The steps of fillTemplate                                               *)

LEMMA DataFacts ==
  ASSUME FillTypeOK
  PROVE  /\ Cells \in Seq(Chars) /\ len \in 0 .. Len(Cells)
         /\ data = SubSeq(Cells, 1, len)
         /\ data \in Seq(Chars) /\ Len(data) = len
         /\ \A i \in 1 .. len : data[i] = Cells[i]
<1>1. Cells \in Seq(Chars) /\ len \in 0 .. Len(Cells)
  BY DEF FillTypeOK, Cells
<1> QED BY <1>1, PrefixFacts DEF data

LEMMA WriteFacts ==
  ASSUME FillTypeOK, NEW cells \in Seq(Chars), Len(cells) = Len(Cells),
         Write(cells), own' = own, payload' = payload
  PROVE  /\ Cells' = cells
         /\ shared' \in Seq(Chars) /\ Len(shared') = Len(payload')
         /\ array' \in Seq(Chars)
         /\ shared' = IF own THEN shared ELSE cells
BY DEF FillTypeOK, Write, Cells

LEMMA ShrinkStep ==
  ASSUME FillTypeOK, Shrink
  PROVE  /\ FillTypeOK'
         /\ data' = Replaced(config, data)
         /\ \A i \in 1 .. Begin(data) - 1 : shared'[i] = shared[i]
<1> DEFINE s == data
           v == Value(config, s)
           w == Overwrite(Overwrite(Cells, Begin(s), v),
                          Begin(s) + Len(v), After(s))
           m == len - (Width(s) - Len(v))
<1>1. /\ config \in Configs /\ Begin(s) # 0 /\ Close(s) # 0
      /\ Len(v) <= Width(s) /\ Write(w) /\ len' = m
      /\ UNCHANGED <<payload, config, start, own, ticks, lossy, pc>>
  BY DEF FillTypeOK, Shrink, Replacing
<1>2. Cells \in Seq(Chars) /\ len \in 0 .. Len(Cells) /\ s = SubSeq(Cells, 1, len)
  BY DataFacts
<1>3. /\ w \in Seq(Chars) /\ Len(w) = Len(Cells)
      /\ \A i \in 1 .. Begin(s) - 1 : w[i] = Cells[i]
      /\ m \in 0 .. Len(Cells)
      /\ SubSeq(w, 1, m) = Replaced(config, s)
  <2>1. /\ Begin(s) # 0 /\ Close(s) # 0 /\ Len(Value(config, s)) <= Width(s)
        /\ config \in Configs
    BY <1>1
  <2> HIDE DEF s
  <2>2. ShrinksTo(Cells, len, config, s)
    BY <1>2, <2>1, ShrunkText
  <2> QED BY <2>2 DEF ShrinksTo
<1> HIDE DEF w, m
<1>4. /\ Cells' = w
      /\ shared' \in Seq(Chars) /\ Len(shared') = Len(payload')
      /\ array' \in Seq(Chars)
      /\ shared' = IF own THEN shared ELSE w
  BY <1>1, <1>3, WriteFacts
<1>5. FillTypeOK'
  BY <1>1, <1>3, <1>4 DEF FillTypeOK
<1>6. data' = Replaced(config, s)
  <2>1. data' = SubSeq(Cells', 1, len')
    BY DEF data
  <2> QED BY <1>1, <1>3, <1>4, <2>1
<1>7. \A i \in 1 .. Begin(s) - 1 : shared'[i] = shared[i]
  BY <1>3, <1>4 DEF Cells
<1> QED BY <1>5, <1>6, <1>7

LEMMA GrowInPlaceStep ==
  ASSUME FillTypeOK, GrowInPlace
  PROVE  LET kept == Begin(data) - 1 + Len(Value(config, data))
             t == Replaced(config, data)
         IN /\ FillTypeOK'
            /\ data' \in Seq(Chars) /\ Len(data') = Len(t) /\ Len(t) > len
            /\ kept \in 0 .. Len(t)
            /\ \A i \in 1 .. kept : data'[i] = t[i]
            /\ \/ lossy' = lossy /\ data' = t
               \/ lossy' /\ After(data) # <<>>
            /\ \A i \in 1 .. Begin(data) - 1 : shared'[i] = shared[i]
<1> DEFINE s == data
           v == Value(config, s)
           kept == Begin(s) - 1 + Len(v)
           t == Replaced(config, s)
           w == Overwrite(Cells, Begin(s), v)
           whole == SubSeq(w, 1, kept) \o Rest(w, s)
           all == Overwrite(w, 1, whole)
<1>1. /\ config \in Configs /\ Begin(s) # 0 /\ Close(s) # 0
      /\ Len(v) > Width(s) /\ kept <= Len(Cells)
      /\ lossy' = (lossy \/ End(s) # Len(s))
      /\ len' = Len(whole)
      /\ IF Len(whole) <= Len(Cells) THEN Write(all) /\ own' = own
         ELSE own' = TRUE /\ array' \in Grown(whole) /\ shared' = (IF own THEN shared ELSE w)
      /\ UNCHANGED <<payload, config, start, ticks, pc>>
  BY DEF FillTypeOK, GrowInPlace, Replacing, Fits
<1>2. /\ Cells \in Seq(Chars) /\ len \in 0 .. Len(Cells) /\ s = SubSeq(Cells, 1, len)
      /\ Len(s) = len
  BY DataFacts
<1>3. /\ w \in Seq(Chars) /\ Len(w) = Len(Cells)
      /\ \A i \in 1 .. Begin(s) - 1 : w[i] = Cells[i]
      /\ whole \in Seq(Chars) /\ Len(whole) = Len(t)
      /\ kept \in 0 .. Len(t) /\ Len(t) > len
      /\ \A i \in 1 .. kept : whole[i] = t[i]
      /\ End(s) = Len(s) => whole = t
      /\ End(s) # Len(s) => After(s) # <<>>
  <2>1. /\ Begin(s) # 0 /\ Close(s) # 0 /\ Len(Value(config, s)) > Width(s)
        /\ Begin(s) - 1 + Len(Value(config, s)) <= Len(Cells)
        /\ config \in Configs
    BY <1>1
  <2> HIDE DEF s
  <2>2. GrowsTo(Cells, len, config, s)
    BY <1>2, <2>1, GrownText
  <2> QED BY <2>2 DEF GrowsTo
<1>4. /\ Begin(s) \in Nat \ {0} /\ Len(v) \in Nat
      /\ End(s) \in Nat /\ Len(s) \in Nat
  <2>1. s \in Seq(Chars) /\ Begin(s) # 0 /\ Close(s) # 0 /\ config \in Configs
    BY <1>1, DataFacts
  <2> HIDE DEF s
  <2>2. Begin(s) \in 1 .. Len(s) - 1 /\ End(s) \in Begin(s) + 1 .. Len(s)
    BY <2>1, PlaceholderFacts
  <2>3. v \in Seq(Chars)
    BY <2>1, ValueIsText
  <2> HIDE DEF v
  <2> QED BY <2>1, <2>2, <2>3
<1> HIDE DEF s, v, w, whole, t, kept
<1>5. /\ all \in Seq(Chars) /\ Len(all) = Len(Cells)
      /\ \A j \in 1 .. Len(Cells) :
            all[j] = IF j \in 1 .. Len(whole) THEN whole[j] ELSE w[j]
  <2>1. /\ all \in Seq(Chars) /\ Len(all) = Len(w)
        /\ \A j \in 1 .. Len(w) :
              all[j] = IF j \in 1 .. 1 + Len(whole) - 1 THEN whole[j - 1 + 1] ELSE w[j]
    <3>1. 1 \in Nat \ {0}
      OBVIOUS
    <3> QED BY <1>3, <3>1, OverwriteFacts
  <2> HIDE DEF all
  <2>2. 1 + Len(whole) - 1 = Len(whole) /\ \A j \in 1 .. Len(w) : j - 1 + 1 = j
    BY <1>3
  <2> QED BY <1>3, <2>1, <2>2
<1> HIDE DEF all
<1>6. ASSUME NEW i \in 1 .. Begin(s) - 1
      PROVE  i \in 1 .. kept /\ i \in 1 .. Len(Cells) /\ w[i] = Cells[i]
  BY <1>1, <1>2, <1>3, <1>4 DEF kept
<1>7. /\ FillTypeOK'
      /\ len' \in 0 .. Len(Cells') /\ Cells' \in Seq(Chars)
      /\ SubSeq(Cells', 1, len') = whole
      /\ \/ shared' = shared
         \/ shared' = all /\ ~own /\ Len(whole) <= Len(Cells)
         \/ shared' = w /\ ~own
  <2>1. CASE Len(whole) <= Len(Cells)
    <3>1. /\ Cells' = all
          /\ shared' \in Seq(Chars) /\ Len(shared') = Len(payload')
          /\ array' \in Seq(Chars)
          /\ shared' = IF own THEN shared ELSE all
      BY <1>1, <1>5, <2>1, WriteFacts
    <3>2. len' \in 0 .. Len(Cells') /\ Cells' \in Seq(Chars)
      BY <1>1, <1>3, <1>5, <2>1, <3>1
    <3>3. FillTypeOK'
      BY <1>1, <2>1, <3>1, <3>2 DEF FillTypeOK
    <3>4. SubSeq(Cells', 1, len') = whole
      <4> DEFINE p == SubSeq(Cells', 1, len')
      <4>1. p \in Seq(Chars) /\ Len(p) = len' /\ \A i \in 1 .. len' : p[i] = Cells'[i]
        BY <3>2, PrefixFacts
      <4> HIDE DEF p
      <4>2. \A i \in 1 .. Len(whole) : p[i] = whole[i]
        <5>1. ASSUME NEW i \in 1 .. Len(whole)
              PROVE  p[i] = whole[i]
          <6>1. i \in 1 .. Len(Cells) /\ i \in 1 .. len'
            BY <1>1, <1>2, <1>3, <2>1
          <6> QED BY <1>5, <3>1, <4>1, <6>1
        <5> QED BY <5>1
      <4>3. p = whole
        BY <1>1, <1>3, <4>1, <4>2, SeqEqual
      <4> QED BY <4>3 DEF p
    <3> QED BY <2>1, <3>1, <3>2, <3>3, <3>4
  <2>2. CASE ~(Len(whole) <= Len(Cells))
    <3>1. /\ array' \in Seq(Chars) /\ Len(whole) \in 0 .. Len(array')
          /\ SubSeq(array', 1, Len(whole)) = whole
      BY <1>1, <1>3, <2>2, GrownFacts
    <3>2. Cells' = array'
      BY <1>1, <2>2 DEF Cells
    <3>3. shared' \in Seq(Chars) /\ Len(shared') = Len(payload')
      BY <1>1, <1>3, <2>2 DEF FillTypeOK, Cells
    <3>4. FillTypeOK'
      BY <1>1, <2>2, <3>1, <3>2, <3>3 DEF FillTypeOK
    <3> QED BY <1>1, <2>2, <3>1, <3>2, <3>4
  <2> QED BY <2>1, <2>2
<1>8. data' = whole
  <2>1. data' = SubSeq(Cells', 1, len')
    BY DEF data
  <2> QED BY <1>7, <2>1
<1>9. ASSUME NEW i \in 1 .. Begin(s) - 1
      PROVE  shared'[i] = shared[i]
  <2>1. CASE shared' = shared
    BY <2>1
  <2>2. CASE ~own /\ shared' = w
    BY <1>6, <2>2 DEF Cells
  <2>3. CASE ~own /\ shared' = all /\ Len(whole) <= Len(Cells)
    <3>1. all[i] = whole[i]
      <4>1. i \in 1 .. Len(whole) /\ i \in 1 .. Len(Cells)
        BY <1>3, <1>6
      <4> QED BY <1>5, <4>1
    <3>2. whole[i] = w[i]
      <4>1. i \in 1 .. kept /\ kept \in 0 .. Len(Cells)
        BY <1>1, <1>2, <1>3, <1>6
      <4>2. SubSeq(w, 1, kept) \in Seq(Chars) /\ Len(SubSeq(w, 1, kept)) = kept
            /\ SubSeq(w, 1, kept)[i] = w[i]
        BY <1>3, <4>1, PrefixFacts
      <4>3. Rest(w, s) \in Seq(Chars)
        <5>1. \A j \in End(s) + 1 .. Len(s) : w[j] \in Chars
          BY <1>2, <1>3, <1>4
        <5>2. End(s) + 1 \in Int /\ Len(s) \in Int
          BY <1>4
        <5> QED BY <5>1, <5>2, SubSeqProperties DEF Rest
      <4> QED BY <4>1, <4>2, <4>3, ConcatProperties DEF whole
    <3> QED BY <1>6, <2>3, <3>1, <3>2 DEF Cells
  <2> QED BY <1>7, <2>1, <2>2, <2>3
<1>10. \/ lossy' = lossy /\ data' = t
       \/ lossy' /\ After(s) # <<>>
  BY <1>1, <1>3, <1>8 DEF FillTypeOK
<1> QED BY <1>3, <1>7, <1>8, <1>9, <1>10 DEF s, t, kept, v

LEMMA GrowAwayStep ==
  ASSUME FillTypeOK, GrowAway
  PROVE  FillTypeOK' /\ data' = Replaced(config, data)
<1> DEFINE s == data
           t == Replaced(config, s)
<1>1. /\ config \in Configs /\ Begin(s) # 0 /\ Close(s) # 0
      /\ own' = TRUE
      /\ array' \in Grown(Before(s) \o Value(config, s) \o Rest(Cells, s))
      /\ len' = Len(Before(s) \o Value(config, s) \o Rest(Cells, s))
      /\ UNCHANGED <<payload, config, shared, start, ticks, lossy, pc>>
  BY DEF FillTypeOK, GrowAway, Replacing
<1>2. /\ Cells \in Seq(Chars) /\ len \in 0 .. Len(Cells) /\ s = SubSeq(Cells, 1, len)
      /\ s \in Seq(Chars)
  BY DataFacts
<1> HIDE DEF s
<1>3. Rest(Cells, s) = After(s)
  BY <1>1, <1>2, RestIsAfter
<1>4. array' \in Grown(t) /\ len' = Len(t)
  BY <1>1, <1>3 DEF Replaced
<1>5. t \in Seq(Chars)
  BY <1>1, <1>2, ReplacedFacts
<1> HIDE DEF t
<1>6. /\ array' \in Seq(Chars) /\ Len(t) \in 0 .. Len(array')
      /\ SubSeq(array', 1, Len(t)) = t
  BY <1>4, <1>5, GrownFacts
<1>7. Cells' = array'
  BY <1>1 DEF Cells
<1>8. FillTypeOK'
  BY <1>1, <1>4, <1>6, <1>7 DEF FillTypeOK
<1>9. data' = t
  <2>1. data' = SubSeq(Cells', 1, len')
    BY DEF data
  <2> QED BY <1>4, <1>6, <1>7, <2>1
<1> QED BY <1>8, <1>9 DEF s, t

LEMMA TickStep ==
  ASSUME FillTypeOK, Tick
  PROVE  FillTypeOK' /\ data' = shared
<1>1. /\ ticks < MaxTicks /\ ticks' = ticks + 1 /\ start' = shared /\ own' = FALSE
      /\ array' = <<>> /\ len' = Len(shared) /\ lossy' = FALSE /\ pc' = "fill"
      /\ UNCHANGED <<payload, config, shared>>
  BY DEF Tick
<1>2. Cells' = shared
  BY <1>1 DEF Cells
<1>3. shared \in Seq(Chars) /\ <<>> \in Seq(Chars) /\ Len(shared) \in 0 .. Len(shared)
  BY DEF FillTypeOK
<1>4. FillTypeOK'
  <2>1. len' \in 0 .. Len(Cells')
    BY <1>1, <1>2, <1>3
  <2>2. ticks' \in 0 .. MaxTicks
    BY <1>1, TicksAssumption DEF FillTypeOK
  <2>3. own' \in BOOLEAN /\ lossy' \in BOOLEAN
    BY <1>1
  <2> QED BY <1>1, <1>3, <2>1, <2>2, <2>3 DEF FillTypeOK
<1>5. SubSeq(shared, 1, Len(shared)) = shared
  <2> DEFINE q == SubSeq(shared, 1, Len(shared))
  <2>1. q \in Seq(Chars) /\ Len(q) = Len(shared) /\ \A i \in 1 .. Len(shared) : q[i] = shared[i]
    BY <1>3, PrefixFacts
  <2> HIDE DEF q
  <2>2. q = shared
    BY <1>3, <2>1, SeqEqual
  <2> QED BY <2>2 DEF q
<1>6. data' = shared
  <2>1. data' = SubSeq(Cells', 1, len')
    BY DEF data
  <2> QED BY <1>1, <1>2, <1>5, <2>1
<1> QED BY <1>4, <1>6

(* The steps that leave the text alone.                                    *)
LEMMA QuietStep ==
  ASSUME FillTypeOK, Filled \/ Unclosed \/ Return \/ UNCHANGED fillVars
  PROVE  FillTypeOK' /\ data' = data
<1>1. UNCHANGED <<payload, config, shared, start, own, array, len, ticks, lossy>>
  BY DEF Filled, Unclosed, Return, fillVars
<1>2. pc' \in {"idle", "fill", "filled", "refused"}
  BY DEF Filled, Unclosed, Return, fillVars, FillTypeOK
<1>3. Cells' = Cells
  BY <1>1 DEF Cells
<1> QED BY <1>1, <1>2, <1>3 DEF FillTypeOK, data

LEMMA FillInitType ==
  ASSUME FillInit
  PROVE  FillTypeOK
<1>1. <<>> \in Seq(Chars)
  OBVIOUS
<1>2. payload \in Seq(Chars)
  BY TextsAssumption DEF FillInit
<1>3. Cells = payload
  BY DEF FillInit, Cells
<1>4. Len(payload) \in Nat
  BY <1>2
<1>5. len \in 0 .. Len(Cells) /\ ticks \in 0 .. MaxTicks
  BY <1>3, <1>4, TicksAssumption DEF FillInit
<1>6. own \in BOOLEAN /\ lossy \in BOOLEAN
  BY DEF FillInit
<1> QED BY <1>1, <1>2, <1>5, <1>6 DEF FillInit, FillTypeOK

LEMMA FillStepType ==
  ASSUME FillTypeOK, [FillNext]_fillVars
  PROVE  FillTypeOK'
BY TickStep, QuietStep, ShrinkStep, GrowInPlaceStep, GrowAwayStep
   DEF FillNext, FillStep

(* The array that an ActionConfig holds keeps its length, and a text lies  *)
(* within its array (copy and append, interceptor.go:285-291).             *)
THEOREM FillTypeCorrect == FillSpec => []FillTypeOK
<1>1. FillInit => FillTypeOK
  BY FillInitType
<1>2. FillTypeOK /\ [FillNext]_fillVars => FillTypeOK'
  BY FillStepType
<1> QED BY <1>1, <1>2, PTL DEF FillSpec

-----------------------------------------------------------------------------
(* On texts                                                                *)

LEMMA SameOperators ==
  ASSUME NEW s, NEW c
  PROVE  /\ Texts!Begin(s) = Begin(s)
         /\ Texts!Close(s) = Close(s)
         /\ Texts!Value(c, s) = Value(c, s)
         /\ Texts!After(s) = After(s)
         /\ Texts!Replaced(c, s) = Replaced(c, s)
<1>1. \A b, i : Texts!FirstPair(s, b, i) = FirstPair(s, b, i)
  BY DEF Texts!FirstPair, FirstPair, Texts!Min, Min
<1>2. Texts!Begin(s) = Begin(s)
  BY <1>1 DEF Texts!Begin, Begin, Texts!Open, Open
<1>3. Texts!Close(s) = Close(s)
  BY <1>1, <1>2 DEF Texts!Close, Close, Texts!Shut, Shut
<1>4. Texts!End(s) = End(s)
  BY <1>3 DEF Texts!End, End
<1>5. Texts!Inner(s) = Inner(s)
  BY <1>2, <1>4 DEF Texts!Inner, Inner, Texts!Open, Open, Texts!Shut, Shut, Texts!Min, Min, Texts!Max, Max
<1>6. Texts!Value(c, s) = Value(c, s)
  BY <1>5 DEF Texts!Value, Value
<1>7. Texts!Before(s) = Before(s) /\ Texts!After(s) = After(s)
  BY <1>2, <1>4 DEF Texts!Before, Before, Texts!After, After
<1>8. Texts!Replaced(c, s) = Replaced(c, s)
  BY <1>6, <1>7 DEF Texts!Replaced, Replaced
<1> QED BY <1>2, <1>3, <1>6, <1>7, <1>8

LEMMA ReplaceStep ==
  ASSUME FillTypeOK, Shrink \/ GrowInPlace \/ GrowAway
  PROVE  Texts!Replace
<1> DEFINE next == Replaced(config, data)
           kept == Begin(data) - 1 + Len(Value(config, data))
<1>1. /\ pc = "fill" /\ pc' = pc /\ config' = config
      /\ Begin(data) # 0 /\ Close(data) # 0
  BY DEF Shrink, GrowInPlace, GrowAway, Replacing
<1>2. /\ Len(data') = Len(next)
      /\ SubSeq(data', 1, kept) = SubSeq(next, 1, kept)
      /\ \/ lossy' = lossy /\ data' = next
         \/ lossy' /\ Len(next) > Len(data) /\ After(data) # <<>>
  <2>1. CASE Shrink
    <3>1. lossy' = lossy
      BY <2>1 DEF Shrink
    <3> QED BY <2>1, <3>1, ShrinkStep
  <2>2. CASE GrowAway
    <3>1. lossy' = lossy
      BY <2>2 DEF GrowAway
    <3> QED BY <2>2, <3>1, GrowAwayStep
  <2>3. CASE GrowInPlace
    <3>1. /\ data' \in Seq(Chars) /\ Len(data') = Len(next) /\ Len(next) > len
          /\ kept \in 0 .. Len(next)
          /\ \A i \in 1 .. kept : data'[i] = next[i]
          /\ \/ lossy' = lossy /\ data' = next
             \/ lossy' /\ After(data) # <<>>
      BY <2>3, GrowInPlaceStep
    <3>2. next \in Seq(Chars) /\ Len(data) = len
      <4>1. config \in Configs /\ data \in Seq(Chars) /\ Len(data) = len
        BY DataFacts DEF FillTypeOK
      <4> QED BY <1>1, <4>1, ReplacedFacts
    <3> HIDE DEF next, kept
    <3>3. SubSeq(data', 1, kept) = SubSeq(next, 1, kept)
      <4> DEFINE x == data'
      <4>1. x \in Seq(Chars) /\ kept \in 0 .. Len(x) /\ \A i \in 1 .. kept : x[i] = next[i]
        BY <3>1
      <4> HIDE DEF x
      <4>2. SubSeq(x, 1, kept) = SubSeq(next, 1, kept)
        BY <3>1, <3>2, <4>1, PrefixEqual
      <4> QED BY <4>2 DEF x
    <3> QED BY <3>1, <3>2, <3>3
  <2> QED BY <2>1, <2>2, <2>3
<1> HIDE DEF next, kept
<1> QED BY <1>1, <1>2, SameOperators DEF Texts!Replace, next, kept

(* fillTemplate, which edits slices that share an array, replaces one      *)
(* placeholder of the text after the other, and loses text only where it   *)
(* writes a longer value over what follows (interceptor.go:259-297).       *)
THEOREM FillRefines == FillSpec => Expands
<1>1. FillInit => Texts!ExpansionInit
  BY DEF FillInit, Texts!ExpansionInit
<1>2. FillTypeOK /\ [FillNext]_fillVars => [Texts!ExpansionNext]_Texts!expansionVars
  <2> SUFFICES ASSUME FillTypeOK, [FillNext]_fillVars
               PROVE  [Texts!ExpansionNext]_Texts!expansionVars
    OBVIOUS
  <2>1. CASE Tick
    <3>1. Texts!Call
      BY <2>1 DEF Tick, Texts!Call
    <3> QED BY <3>1 DEF Texts!ExpansionNext
  <2>2. CASE Filled \/ Unclosed
    <3>1. data' = data
      BY <2>2, QuietStep
    <3>2. Texts!Finish
      BY <2>2, <3>1, SameOperators DEF Filled, Unclosed, Texts!Finish
    <3> QED BY <3>2 DEF Texts!ExpansionNext
  <2>3. CASE Shrink \/ GrowInPlace \/ GrowAway
    BY <2>3, ReplaceStep DEF Texts!ExpansionNext
  <2>4. CASE Return
    <3>1. data' = data
      BY <2>4, QuietStep
    <3>2. Texts!Leave
      BY <2>4, <3>1 DEF Return, Texts!Leave
    <3> QED BY <3>2 DEF Texts!ExpansionNext
  <2>5. CASE UNCHANGED fillVars
    <3>1. data' = data
      BY <2>5, QuietStep
    <3> QED BY <2>5, <3>1 DEF fillVars, Texts!expansionVars
  <2> QED BY <2>1, <2>2, <2>3, <2>4, <2>5 DEF FillNext, FillStep
<1> QED BY <1>1, <1>2, FillTypeCorrect, PTL DEF FillSpec, Expands, Texts!ExpansionSpec

-----------------------------------------------------------------------------
(* What stands before the first placeholder                                *)

BeforeLen(p) == IF Begin(p) = 0 THEN Len(p) ELSE Begin(p) - 1

Keeps(s, p) == BeforeLen(p) <= Len(s) /\ \A i \in 1 .. BeforeLen(p) : s[i] = p[i]

(* The inductive invariant: the array of the job keeps the front of the    *)
(* payload, and so does the text of a tick; a payload without placeholders *)
(* is never resized.                                                       *)
KeptInv ==
  /\ FillTypeOK
  /\ Keeps(shared, payload)
  /\ pc # "idle" => /\ Keeps(data, payload)
                    /\ Begin(payload) = 0 => len = Len(payload)

LEMMA BeforeLenType ==
  ASSUME NEW p \in Seq(Chars)
  PROVE  /\ BeforeLen(p) \in 0 .. Len(p)
         /\ \A i \in 1 .. BeforeLen(p) : i + 1 <= Len(p) => ~(p[i] = Open /\ p[i + 1] = Open)
<1> DEFINE b == Begin(p)
<1>1. /\ b \in Nat
      /\ b # 0 => /\ b \in 1 .. Len(p) - 1
                  /\ \A i \in 1 .. b - 1 : ~(p[i] = Open /\ p[i + 1] = Open)
      /\ b = 0 => \A i \in 1 .. Len(p) - 1 : ~(p[i] = Open /\ p[i + 1] = Open)
  <2>1. b = FirstPair(p, Open, 1)
    BY DEF Begin
  <2> QED BY <2>1, FirstPairFacts
<1> HIDE DEF b
<1>2. BeforeLen(p) = IF b = 0 THEN Len(p) ELSE b - 1
  BY DEF BeforeLen, b
<1>3. Len(p) \in Nat
  OBVIOUS
<1>4. CASE b = 0
  BY <1>1, <1>2, <1>3, <1>4
<1>5. CASE b # 0
  BY <1>1, <1>2, <1>3, <1>5
<1> QED BY <1>4, <1>5

(* The first placeholder of a text that keeps the front of a payload is    *)
(* behind it.                                                              *)
LEMMA BeginBehind ==
  ASSUME NEW p \in Seq(Chars), NEW s \in Seq(Chars), Keeps(s, p), Begin(s) # 0
  PROVE  /\ Begin(p) = 0 => Len(s) # Len(p)
         /\ Begin(p) # 0 => BeforeLen(p) <= Begin(s) - 1
<1> DEFINE b == Begin(s)
           n == BeforeLen(p)
<1>1. b \in 1 .. Len(s) - 1 /\ s[b] = Open /\ s[b + 1] = Open
  <2>1. b = FirstPair(s, Open, 1)
    BY DEF Begin
  <2> QED BY <2>1, FirstPairFacts
<1>2. /\ n \in 0 .. Len(p)
      /\ \A i \in 1 .. n : i + 1 <= Len(p) => ~(p[i] = Open /\ p[i + 1] = Open)
  BY BeforeLenType
<1>3. n <= Len(s) /\ \A i \in 1 .. n : s[i] = p[i]
  BY DEF Keeps
<1>4. Begin(p) = 0 => n = Len(p)
  BY DEF BeforeLen
<1>5. Begin(p) # 0 => /\ Begin(p) \in 1 .. Len(p) - 1 /\ n = Begin(p) - 1
                      /\ p[n + 1] = Open
  <2>1. Begin(p) = FirstPair(p, Open, 1)
    BY DEF Begin
  <2> QED BY <2>1, FirstPairFacts DEF BeforeLen
<1> HIDE DEF b, n
<1>6. ASSUME Begin(p) = 0, Len(s) = Len(p)
      PROVE  FALSE
  <2>1. b \in 1 .. n /\ b + 1 \in 1 .. n /\ b + 1 <= Len(p)
    BY <1>1, <1>2, <1>4, <1>6
  <2> QED BY <1>1, <1>2, <1>3, <2>1
<1>7. ASSUME Begin(p) # 0, ~(n <= b - 1)
      PROVE  FALSE
  <2>1. b \in 1 .. n /\ b + 1 <= Len(p) /\ n \in Nat
    BY <1>1, <1>2, <1>5, <1>7
  <2>2. CASE b = n
    BY <1>1, <1>2, <1>3, <1>5, <1>7, <2>1, <2>2
  <2>3. CASE b # n
    <3>1. b + 1 \in 1 .. n
      BY <2>1, <2>3
    <3> QED BY <1>1, <1>2, <1>3, <2>1, <3>1
  <2> QED BY <2>2, <2>3
<1> QED BY <1>6, <1>7 DEF b, n

(* Whatever is changed behind the front, it is kept.                       *)
LEMMA KeepsOn ==
  ASSUME NEW p \in Seq(Chars), NEW s \in Seq(Chars), Keeps(s, p),
         NEW t \in Seq(Chars), NEW m \in Nat, BeforeLen(p) <= m, m <= Len(t),
         \A i \in 1 .. m : t[i] = s[i]
  PROVE  Keeps(t, p)
<1> DEFINE n == BeforeLen(p)
<1>1. n \in 0 .. Len(p) /\ Len(t) \in Nat
  BY BeforeLenType
<1>2. \A i \in 1 .. n : s[i] = p[i]
  BY DEF Keeps
<1> HIDE DEF n
<1>3. n <= m
  BY DEF n
<1>4. n <= Len(t) /\ \A i \in 1 .. n : t[i] = p[i]
  BY <1>1, <1>2, <1>3
<1> QED BY <1>4 DEF Keeps, n

LEMMA KeptReplacing ==
  ASSUME KeptInv, Shrink \/ GrowInPlace \/ GrowAway
  PROVE  KeptInv'
<1> DEFINE s == data
           t == Replaced(config, s)
           kept == Begin(s) - 1 + Len(Value(config, s))
<1>1. /\ FillTypeOK /\ Keeps(shared, payload) /\ Keeps(s, payload)
      /\ pc = "fill" /\ payload' = payload
      /\ Begin(s) # 0 /\ Close(s) # 0
  BY DEF KeptInv, Shrink, GrowInPlace, GrowAway, Replacing
<1>2. /\ s \in Seq(Chars) /\ config \in Configs /\ shared \in Seq(Chars)
      /\ payload \in Seq(Chars) /\ Len(s) = len /\ Len(shared) = Len(payload)
  BY <1>1, DataFacts, TextsAssumption DEF FillTypeOK
<1>3. Begin(payload) # 0 /\ BeforeLen(payload) <= Begin(s) - 1
  <2>1. Begin(payload) = 0 => len = Len(payload)
    BY <1>1 DEF KeptInv
  <2> HIDE DEF s
  <2> QED BY <1>1, <1>2, <2>1, BeginBehind
<1>4. /\ FillTypeOK'
      /\ \A i \in 1 .. Begin(s) - 1 : shared'[i] = shared[i]
      /\ data' \in Seq(Chars) /\ Len(data') = Len(t)
      /\ \A i \in 1 .. kept : data'[i] = t[i]
  <2>0. t \in Seq(Chars)
    <3> HIDE DEF s
    <3> QED BY <1>1, <1>2, ReplacedFacts
  <2>1. CASE Shrink
    BY <1>1, <2>0, <2>1, ShrinkStep
  <2>2. CASE GrowInPlace
    BY <1>1, <2>2, GrowInPlaceStep
  <2>3. CASE GrowAway
    <3>1. shared' = shared
      BY <2>3 DEF GrowAway
    <3> QED BY <1>1, <2>0, <2>3, <3>1, GrowAwayStep
  <2> QED BY <2>1, <2>2, <2>3
<1>5. /\ Begin(s) \in Nat \ {0} /\ Begin(s) - 1 \in Nat /\ Begin(s) - 1 <= Len(t)
      /\ \A i \in 1 .. Begin(s) - 1 : i \in 1 .. kept /\ t[i] = s[i]
  <2> DEFINE b == Begin(s)
             v == Value(config, s)
             e == End(s)
  <2> HIDE DEF s
  <2>1. b \in 1 .. Len(s) - 1 /\ e \in b + 1 .. Len(s)
    BY <1>1, <1>2, PlaceholderFacts
  <2>2. v \in Seq(Chars)
    BY <1>2, ValueIsText
  <2>3. /\ Len(t) = b - 1 + Len(v) + (Len(s) - e)
        /\ \A i \in 1 .. Len(t) : i < b => t[i] = s[i]
    BY <1>1, <1>2, ReplacedFacts
  <2>4. kept = b - 1 + Len(v)
    OBVIOUS
  <2> HIDE DEF b, v, e, t, kept
  <2>5. Len(v) \in Nat /\ Len(s) \in Nat
    BY <1>2, <2>2
  <2>6. b \in Nat \ {0} /\ b - 1 \in Nat /\ b - 1 <= Len(t)
    BY <2>1, <2>3, <2>5
  <2>7. \A i \in 1 .. b - 1 : i \in 1 .. kept /\ i \in 1 .. Len(t) /\ i < b
    BY <2>1, <2>3, <2>4, <2>5
  <2> QED BY <2>3, <2>6, <2>7 DEF b
<1>6. Keeps(shared', payload)
  <2>1. shared' \in Seq(Chars) /\ Len(shared') = Len(payload)
    BY <1>1, <1>4 DEF FillTypeOK
  <2>3. BeforeLen(payload) \in 0 .. Len(payload)
    BY <1>2, BeforeLenType
  <2>4. \A i \in 1 .. BeforeLen(payload) : shared'[i] = shared[i]
    BY <1>3, <1>4, <1>5, <2>3
  <2> DEFINE x == shared'
             m == BeforeLen(payload)
  <2>5. x \in Seq(Chars) /\ m \in Nat /\ BeforeLen(payload) <= m /\ m <= Len(x)
        /\ \A i \in 1 .. m : x[i] = shared[i]
    BY <2>1, <2>3, <2>4
  <2> HIDE DEF x, m
  <2>6. Keeps(x, payload)
    BY <1>1, <1>2, <2>5, KeepsOn
  <2> QED BY <2>6 DEF x
<1>7. Keeps(data', payload)
  <2> DEFINE x == data'
             m == Begin(s) - 1
  <2>1. x \in Seq(Chars) /\ m \in Nat /\ BeforeLen(payload) <= m /\ m <= Len(x)
        /\ \A i \in 1 .. m : x[i] = s[i]
    BY <1>3, <1>4, <1>5
  <2> HIDE DEF x, m, s
  <2>2. Keeps(x, payload)
    BY <1>1, <1>2, <2>1, KeepsOn
  <2> QED BY <2>2 DEF x
<1> QED BY <1>1, <1>3, <1>4, <1>6, <1>7 DEF KeptInv

LEMMA KeptStep ==
  ASSUME KeptInv, [FillNext]_fillVars
  PROVE  KeptInv'
<1>1. FillTypeOK /\ FillTypeOK'
  BY FillStepType DEF KeptInv
<1>2. CASE Tick
  <2>1. data' = shared /\ payload' = payload /\ shared' = shared /\ len' = Len(shared)
    BY <1>1, <1>2, TickStep DEF Tick
  <2> QED BY <1>1, <2>1 DEF KeptInv, FillTypeOK
<1>3. CASE Filled \/ Unclosed \/ Return \/ UNCHANGED fillVars
  <2>1. data' = data
    BY <1>1, <1>3, QuietStep
  <2>2. payload' = payload /\ shared' = shared /\ len' = len
        /\ (pc' # "idle" => pc # "idle")
    BY <1>3 DEF Filled, Unclosed, Return, fillVars
  <2> QED BY <1>1, <2>1, <2>2 DEF KeptInv
<1>4. CASE Shrink \/ GrowInPlace \/ GrowAway
  BY <1>4, KeptReplacing
<1> QED BY <1>2, <1>3, <1>4 DEF FillNext, FillStep

LEMMA KeptInit ==
  ASSUME FillInit
  PROVE  KeptInv
<1>1. payload \in Seq(Chars) /\ shared = payload /\ pc = "idle"
  BY TextsAssumption DEF FillInit
<1>2. BeforeLen(payload) \in 0 .. Len(payload)
  BY <1>1, BeforeLenType
<1> QED BY <1>1, <1>2, FillInitType DEF KeptInv, Keeps

LEMMA KeptIsKept ==
  ASSUME KeptInv
  PROVE  BeforeIsKept
<1> DEFINE n == BeforeLen(payload)
<1>1. payload \in Seq(Chars) /\ shared \in Seq(Chars) /\ data \in Seq(Chars)
  BY DataFacts, TextsAssumption DEF KeptInv, FillTypeOK
<1>2. n \in 0 .. Len(payload)
  BY <1>1, BeforeLenType
<1>3. ASSUME NEW s \in Seq(Chars), Keeps(s, payload)
      PROVE  SubSeq(s, 1, n) = SubSeq(payload, 1, n)
  <2>1. n \in 0 .. Len(s) /\ n <= Len(payload) /\ \A i \in 1 .. n : s[i] = payload[i]
    BY <1>2, <1>3 DEF Keeps
  <2> HIDE DEF n
  <2> QED BY <1>1, <2>1, PrefixEqual
<1> QED BY <1>1, <1>3 DEF KeptInv, BeforeIsKept, BeforeLen

(* No tick of a job, however often values were copied over the payload of  *)
(* its ActionConfig, changes what stands before the first placeholder      *)
(* (interceptor.go:281-291, with the payload of 220-225).                  *)
THEOREM FrontIsKept == FillSpec => []BeforeIsKept
<1>1. FillInit => KeptInv
  BY KeptInit
<1>2. KeptInv /\ [FillNext]_fillVars => KeptInv'
  BY KeptStep
<1>3. KeptInv => BeforeIsKept
  BY KeptIsKept
<1> QED BY <1>1, <1>2, <1>3, PTL DEF FillSpec

-----------------------------------------------------------------------------
(* The expansion of a text                                                 *)

Done(s) == Begin(s) = 0 \/ Close(s) = 0

(* The texts from s on, up to one with nothing left to replace.            *)
Chain(c, s, n, f) ==
  /\ f \in [0 .. n -> Seq(Chars)]
  /\ f[0] = s
  /\ \A i \in 0 .. n - 1 : ~Done(f[i]) /\ f[i + 1] = Replaced(c, f[i])
  /\ Done(f[n])

Outcome(s) == IF Begin(s) = 0 THEN s ELSE Error

Outcomes(c, s) ==
  {r \in Seq(Chars) \cup {Error} :
      \E n \in Nat : \E f : Chain(c, s, n, f) /\ r = Outcome(f[n])}

Pick(S) == IF S = {} THEN Error ELSE CHOOSE r : r \in S

LEMMA OutcomesDone ==
  ASSUME NEW c, NEW s \in Seq(Chars), Done(s)
  PROVE  Outcomes(c, s) = {Outcome(s)}
<1>1. Outcome(s) \in Outcomes(c, s)
  <2> DEFINE f == [i \in 0 .. 0 |-> s]
  <2>1. f \in [0 .. 0 -> Seq(Chars)] /\ f[0] = s /\ 0 \in Nat
    OBVIOUS
  <2> HIDE DEF f
  <2>2. \A i \in 0 .. 0 - 1 : FALSE
    OBVIOUS
  <2>3. Chain(c, s, 0, f)
    BY <2>1, <2>2 DEF Chain
  <2>4. Outcome(s) \in Seq(Chars) \cup {Error}
    BY DEF Outcome
  <2> QED BY <2>1, <2>3, <2>4 DEF Outcomes
<1>2. ASSUME NEW r \in Outcomes(c, s)
      PROVE  r = Outcome(s)
  <2>0. PICK n \in Nat : \E f : Chain(c, s, n, f) /\ r = Outcome(f[n])
    BY DEF Outcomes
  <2>1. PICK f : Chain(c, s, n, f) /\ r = Outcome(f[n])
    BY <2>0
  <2>2. CASE n = 0
    BY <2>1, <2>2 DEF Chain
  <2>3. CASE n # 0
    <3>1. 0 \in 0 .. n - 1
      BY <2>3
    <3> QED BY <2>1, <3>1 DEF Chain
  <2> QED BY <2>2, <2>3
<1> QED BY <1>1, <1>2

LEMMA OutcomesReplaced ==
  ASSUME NEW c \in Configs, NEW s \in Seq(Chars), ~Done(s)
  PROVE  Outcomes(c, s) = Outcomes(c, Replaced(c, s))
<1> DEFINE t == Replaced(c, s)
<1>1. t \in Seq(Chars)
  BY ReplacedFacts DEF Done
<1> HIDE DEF t
<1>2. ASSUME NEW r \in Outcomes(c, s)
      PROVE  r \in Outcomes(c, t)
  <2>0. PICK n \in Nat : \E f : Chain(c, s, n, f) /\ r = Outcome(f[n])
    BY DEF Outcomes
  <2>1. PICK f : Chain(c, s, n, f) /\ r = Outcome(f[n])
    BY <2>0
  <2>2. n # 0
    BY <2>1 DEF Chain
  <2> DEFINE m == n - 1
             g == [i \in 0 .. m |-> f[i + 1]]
  <2>3. m \in Nat /\ n = m + 1
    BY <2>2
  <2> HIDE DEF m
  <2>4. g \in [0 .. m -> Seq(Chars)] /\ \A i \in 0 .. m : g[i] = f[i + 1]
    <3>1. f \in [0 .. n -> Seq(Chars)]
      BY <2>1 DEF Chain
    <3> QED BY <2>3, <3>1
  <2> HIDE DEF g
  <2>5. g[0] = t
    <3>1. 0 \in 0 .. n - 1 /\ f[0] = s
      BY <2>1, <2>3 DEF Chain
    <3>2. f[0 + 1] = t
      BY <2>1, <3>1 DEF Chain, t
    <3> QED BY <2>3, <2>4, <3>2
  <2>6. ASSUME NEW i \in 0 .. m - 1
        PROVE  ~Done(g[i]) /\ g[i + 1] = Replaced(c, g[i])
    <3>1. /\ i + 1 \in 0 .. n - 1 /\ i \in 0 .. m /\ i + 1 \in 0 .. m
      BY <2>3
    <3>2. ~Done(f[i + 1]) /\ f[i + 1 + 1] = Replaced(c, f[i + 1])
      BY <2>1, <3>1 DEF Chain
    <3> QED BY <2>4, <3>1, <3>2
  <2>7. Done(g[m]) /\ r = Outcome(g[m])
    <3>1. m \in 0 .. m /\ g[m] = f[n]
      BY <2>3, <2>4
    <3> QED BY <2>1, <3>1 DEF Chain
  <2>8. Chain(c, t, m, g)
    BY <2>4, <2>5, <2>6, <2>7 DEF Chain
  <2>9. r \in Seq(Chars) \cup {Error}
    BY DEF Outcomes
  <2> QED BY <2>3, <2>4, <2>7, <2>8, <2>9 DEF Outcomes
<1>3. ASSUME NEW r \in Outcomes(c, t)
      PROVE  r \in Outcomes(c, s)
  <2>0. PICK m \in Nat : \E g : Chain(c, t, m, g) /\ r = Outcome(g[m])
    BY DEF Outcomes
  <2>1. PICK g : Chain(c, t, m, g) /\ r = Outcome(g[m])
    BY <2>0
  <2> DEFINE n == m + 1
             f == [i \in 0 .. n |-> IF i = 0 THEN s ELSE g[i - 1]]
  <2>2. n \in Nat /\ m = n - 1
    OBVIOUS
  <2>3. /\ f \in [0 .. n -> Seq(Chars)] /\ f[0] = s
        /\ \A i \in 0 .. m : f[i + 1] = g[i]
    <3>1. \A i \in 0 .. n : i = 0 \/ i - 1 \in 0 .. m
      OBVIOUS
    <3>2. \A i \in 0 .. m : i + 1 \in 0 .. n /\ i + 1 # 0 /\ i + 1 - 1 = i
      OBVIOUS
    <3>3. g \in [0 .. m -> Seq(Chars)]
      BY <2>1 DEF Chain
    <3> QED BY <3>1, <3>2, <3>3
  <2> HIDE DEF n, f
  <2>4. ASSUME NEW i \in 0 .. n - 1
        PROVE  ~Done(f[i]) /\ f[i + 1] = Replaced(c, f[i])
    <3>1. CASE i = 0
      <4>1. f[1] = t
        BY <2>1, <2>3 DEF Chain
      <4> QED BY <2>3, <3>1, <4>1 DEF t
    <3>2. CASE i # 0
      <4>1. i - 1 \in 0 .. m - 1 /\ i - 1 \in 0 .. m /\ i \in 0 .. m /\ i - 1 + 1 = i
        BY <2>2, <3>2
      <4>2. ~Done(g[i - 1]) /\ g[i] = Replaced(c, g[i - 1])
        BY <2>1, <4>1 DEF Chain
      <4>3. f[i] = g[i - 1] /\ f[i + 1] = g[i]
        BY <2>3, <4>1
      <4> QED BY <4>2, <4>3
    <3> QED BY <3>1, <3>2
  <2>5. Done(f[n]) /\ r = Outcome(f[n])
    <3>1. m \in 0 .. m /\ f[n] = g[m]
      BY <2>3 DEF n
    <3> QED BY <2>1, <3>1 DEF Chain
  <2>6. Chain(c, s, n, f)
    BY <2>3, <2>4, <2>5 DEF Chain
  <2>7. r \in Seq(Chars) \cup {Error}
    BY DEF Outcomes
  <2> QED BY <2>2, <2>3, <2>5, <2>6, <2>7 DEF Outcomes
<1> QED BY <1>2, <1>3 DEF t

(* The reference is well defined, also for values that hold placeholders   *)
(* of their own: it satisfies its equation for every text.                 *)
LEMMA ExpandFacts ==
  ASSUME NEW c \in Configs, NEW s \in Seq(Chars)
  PROVE  Expand(c)[s] = IF Begin(s) = 0 THEN s
                        ELSE IF Close(s) = 0 THEN Error
                        ELSE Expand(c)[Replaced(c, s)]
<1> DEFINE Equation(E) ==
             E = [x \in Seq(Chars) |->
                    IF Begin(x) = 0 THEN x
                    ELSE IF Close(x) = 0 THEN Error
                    ELSE E[Replaced(c, x)]]
           E0 == [x \in Seq(Chars) |-> Pick(Outcomes(c, x))]
<1>1. ASSUME NEW x \in Seq(Chars)
      PROVE  E0[x] = IF Begin(x) = 0 THEN x
                     ELSE IF Close(x) = 0 THEN Error
                     ELSE E0[Replaced(c, x)]
  <2>1. CASE Done(x)
    <3>1. E0[x] = Pick({Outcome(x)})
      BY <2>1, OutcomesDone
    <3>2. Pick({Outcome(x)}) = Outcome(x)
      BY DEF Pick
    <3> QED BY <2>1, <3>1, <3>2 DEF Done, Outcome
  <2>2. CASE ~Done(x)
    <3>1. Replaced(c, x) \in Seq(Chars)
      BY <2>2, ReplacedFacts DEF Done
    <3>2. Outcomes(c, x) = Outcomes(c, Replaced(c, x))
      BY <2>2, OutcomesReplaced
    <3> QED BY <2>2, <3>1, <3>2 DEF Done
  <2> QED BY <2>1, <2>2
<1>2. Equation(E0)
  <2>1. DOMAIN E0 = Seq(Chars)
    OBVIOUS
  <2> QED BY <1>1, Zenon
<1> HIDE DEF E0
<1>3. Expand(c) = CHOOSE E : Equation(E)
  BY DEF Expand
<1>4. Equation(Expand(c))
  <2> HIDE DEF Equation
  <2> QED BY <1>2, <1>3, Zenon
<1> QED BY <1>4, Zenon

-----------------------------------------------------------------------------
(* As long as nothing was written over, what is left to expand is what the *)
(* tick began with.                                                        *)
ExactInv ==
  /\ FillTypeOK
  /\ pc # "idle" /\ ~lossy => Expand(config)[data] = Expand(config)[start]
  /\ pc = "filled" => Begin(data) = 0
  /\ pc = "refused" => Begin(data) # 0 /\ Close(data) = 0

LEMMA ExactStep ==
  ASSUME ExactInv, [FillNext]_fillVars
  PROVE  ExactInv'
<1>1. FillTypeOK /\ FillTypeOK'
  BY FillStepType DEF ExactInv
<1>2. CASE Tick
  <2>1. /\ data' = shared /\ start' = shared /\ config' = config /\ pc' = "fill"
    BY <1>1, <1>2, TickStep DEF Tick
  <2> QED BY <1>1, <2>1 DEF ExactInv
<1>3. CASE Filled \/ Unclosed \/ Return \/ UNCHANGED fillVars
  <2>1. data' = data
    BY <1>1, <1>3, QuietStep
  <2>2. /\ config' = config /\ start' = start /\ lossy' = lossy
        /\ pc' # "idle" => pc # "idle"
        /\ pc' = "filled" => pc = "filled" \/ Begin(data) = 0
        /\ pc' = "refused" => \/ pc = "refused"
                              \/ Begin(data) # 0 /\ Close(data) = 0
    BY <1>3 DEF Filled, Unclosed, Return, fillVars
  <2> QED BY <1>1, <2>1, <2>2 DEF ExactInv
<1>4. CASE Shrink \/ GrowInPlace \/ GrowAway
  <2>1. /\ pc = "fill" /\ pc' = pc /\ config' = config /\ start' = start
        /\ Begin(data) # 0 /\ Close(data) # 0
    BY <1>4 DEF Shrink, GrowInPlace, GrowAway, Replacing
  <2>2. ~lossy' => ~lossy /\ data' = Replaced(config, data)
    <3>1. CASE Shrink
      BY <1>1, <3>1, ShrinkStep DEF Shrink
    <3>2. CASE GrowAway
      BY <1>1, <3>2, GrowAwayStep DEF GrowAway
    <3>3. CASE GrowInPlace
      <4>1. \/ lossy' = lossy /\ data' = Replaced(config, data)
            \/ lossy' /\ After(data) # <<>>
        BY <1>1, <3>3, GrowInPlaceStep
      <4> QED BY <4>1
    <3> QED BY <1>4, <3>1, <3>2, <3>3
  <2>3. config \in Configs /\ data \in Seq(Chars)
    BY <1>1, DataFacts DEF FillTypeOK
  <2>4. Expand(config)[data] = Expand(config)[Replaced(config, data)]
    BY <2>1, <2>3, ExpandFacts
  <2> QED BY <1>1, <2>1, <2>2, <2>4 DEF ExactInv
<1> QED BY <1>2, <1>3, <1>4 DEF FillNext, FillStep

LEMMA ExactResult ==
  ASSUME ExactInv
  PROVE  FillIsExact
<1>1. config \in Configs /\ data \in Seq(Chars)
  BY DataFacts DEF ExactInv, FillTypeOK
<1>2. Expand(config)[data] = IF Begin(data) = 0 THEN data
                             ELSE IF Close(data) = 0 THEN Error
                             ELSE Expand(config)[Replaced(config, data)]
  BY <1>1, ExpandFacts
<1> QED BY <1>2 DEF ExactInv, FillIsExact, Result

(* A tick that has written over nothing answers with the expansion of what *)
(* v.Payload held when it began, or refuses it when the expansion comes to *)
(* a placeholder that does not end (interceptor.go:259-297).               *)
THEOREM FillExact == FillSpec => []FillIsExact
<1>1. FillInit => ExactInv
  BY FillInitType DEF FillInit, ExactInv
<1>2. ExactInv /\ [FillNext]_fillVars => ExactInv'
  BY ExactStep
<1>3. ExactInv => FillIsExact
  BY ExactResult
<1> QED BY <1>1, <1>2, <1>3, PTL DEF FillSpec
=============================================================================
