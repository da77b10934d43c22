--------------------------- MODULE SliderTheorems ---------------------------
(***************************************************************************)
(* Facts about the window of Slider.tla, for every window size: sliding    *)
(* keeps exactly the bits still covered, and setting a bit changes that    *)
(* bit alone.  They rest on division with remainder by WordBits.           *)
(***************************************************************************)
EXTENDS Slider, TLAPS

\* Multiplication by a positive factor spreads integers by that factor.
LEMMA MulMono ==
    ASSUME NEW a \in Int, NEW b \in Int, NEW w \in Nat \ {0}, a < b
    PROVE  a * w + w <= b * w
<1>1. PICK k \in Nat : b = a + 1 + k
  BY SMT
<1>2. b * w = a * w + w + k * w
  BY <1>1
<1>3. k * w >= 0
  BY <1>1
<1> QED BY <1>2, <1>3

\* Division with remainder, as check_revd's `num >> 6' and `num & 63' use it.
LEMMA DivMod ==
    ASSUME NEW n \in Int, NEW w \in Nat \ {0}
    PROVE  /\ n = (n \div w) * w + (n % w)
           /\ n % w \in 0 .. w - 1
           /\ n \div w \in Int
OBVIOUS

\* The part of it that needs no product.
LEMMA DivInt ==
    ASSUME NEW n \in Int, NEW w \in Nat \ {0}
    PROVE  n \div w \in Int
BY DivMod

\* Quotient and remainder are unique.
LEMMA DivUnique ==
    ASSUME NEW q \in Int, NEW w \in Nat \ {0}, NEW r \in 0 .. w - 1
    PROVE  /\ (q * w + r) \div w = q
           /\ (q * w + r) % w = r
<1> DEFINE n == q * w + r
<1>0. n \in Int
  OBVIOUS
<1>1. /\ n = (n \div w) * w + (n % w)
      /\ n % w \in 0 .. w - 1
      /\ n \div w \in Int
  BY <1>0, DivMod
<1>2. CASE n \div w < q
  <2>1. (n \div w) * w + w <= q * w
    BY <1>1, <1>2, MulMono
  <2> QED BY <2>1, <1>1
<1>3. CASE n \div w > q
  <2>1. q * w + w <= (n \div w) * w
    BY <1>1, <1>3, MulMono
  <2> QED BY <2>1, <1>1
<1>4. CASE n \div w = q
  BY <1>4, <1>1
<1> QED BY <1>1, <1>2, <1>3, <1>4

\* A window starts at a word boundary.
Aligned(s) == \E p \in Nat : s.start_num = p * WordBits

\* An offset into the window names a word of it and a bit of that word.
LEMMA WordAndBit ==
    ASSUME NEW d \in Nat, d < SliderLen * WordBits
    PROVE  /\ WordOf(d) \in WordIndex
           /\ BitOf(d) \in BitIndex
           /\ d = WordOf(d) * WordBits + BitOf(d)
<1> USE SliderAssumption
<1>1. /\ d = WordOf(d) * WordBits + BitOf(d)
      /\ BitOf(d) \in 0 .. WordBits - 1
      /\ WordOf(d) \in Int
  BY DivMod DEF WordOf, BitOf
<1>2. WordOf(d) >= 0
  <2>1. SUFFICES ASSUME WordOf(d) < 0 PROVE FALSE
    BY <1>1
  <2>2. WordOf(d) * WordBits + WordBits <= 0 * WordBits
    BY <2>1, <1>1, MulMono
  <2> QED BY <2>2, <1>1
<1>3. WordOf(d) < SliderLen
  <2>1. SUFFICES ASSUME SliderLen <= WordOf(d) PROVE FALSE
    BY <1>1
  <2>2. SliderLen * WordBits <= WordOf(d) * WordBits
    <3>1. CASE SliderLen = WordOf(d)
      BY <3>1
    <3>2. CASE SliderLen < WordOf(d)
      <4>1. SliderLen * WordBits + WordBits <= WordOf(d) * WordBits
        BY <3>2, <1>1, MulMono
      <4> QED BY <4>1, <1>1
    <3> QED BY <2>1, <3>1, <3>2, <1>1
  <2> QED BY <2>2, <1>1
<1> QED BY <1>1, <1>2, <1>3 DEF WordIndex, BitIndex

\* set_bit sets the bit of its number and no other.
LEMMA SetBitSets ==
    ASSUME NEW s \in Windows, NEW n \in Nat, InWindow(s, n)
    PROVE  /\ SetBit(s, n) \in Windows
           /\ SetBit(s, n).start_num = s.start_num
           /\ \A m \in Nat : InWindow(s, m) =>
                 (IsSet(SetBit(s, n), m) <=> IsSet(s, m) \/ m = n)
<1> USE SliderAssumption
<1> DEFINE d == n - s.start_num
           t == SetBit(s, n)
<1>0. /\ s.start_num \in Nat
      /\ s.bit_field \in [WordIndex -> SUBSET BitIndex]
  BY DEF Windows
<1>1. d \in Nat /\ d < SliderLen * WordBits
  BY <1>0 DEF InWindow
<1>2. /\ WordOf(d) \in WordIndex
      /\ BitOf(d) \in BitIndex
      /\ d = WordOf(d) * WordBits + BitOf(d)
  BY <1>1, WordAndBit
<1>3. /\ t.start_num = s.start_num
      /\ t.bit_field = [s.bit_field EXCEPT ![WordOf(d)] = @ \cup {BitOf(d)}]
      /\ t \in Windows
  BY <1>0, <1>2 DEF SetBit, Windows
<1>4. ASSUME NEW m \in Nat, InWindow(s, m)
      PROVE  IsSet(t, m) <=> IsSet(s, m) \/ m = n
  <2> DEFINE e == m - s.start_num
  <2>1. e \in Nat /\ e < SliderLen * WordBits
    BY <1>0, <1>4 DEF InWindow
  <2>2. /\ WordOf(e) \in WordIndex
        /\ BitOf(e) \in BitIndex
        /\ e = WordOf(e) * WordBits + BitOf(e)
    BY <2>1, WordAndBit
  <2>3. IsSet(t, m) <=> BitOf(e) \in t.bit_field[WordOf(e)]
    BY <1>3 DEF IsSet
  <2>4. IsSet(s, m) <=> BitOf(e) \in s.bit_field[WordOf(e)]
    BY DEF IsSet
  <2> HIDE DEF t
  <2>5. CASE WordOf(e) = WordOf(d) /\ BitOf(e) = BitOf(d)
    <3>1. e = d
      BY <1>2, <2>2, <2>5
    <3>2. m = n
      BY <3>1, <1>0
    <3>3. BitOf(e) \in t.bit_field[WordOf(e)]
      BY <2>5, <1>3, <1>2, <1>0
    <3> QED BY <3>2, <3>3, <2>3
  <2>6. CASE ~ (WordOf(e) = WordOf(d) /\ BitOf(e) = BitOf(d))
    <3>1. m # n
      BY <2>6
    <3>2. BitOf(e) \in t.bit_field[WordOf(e)] <=> BitOf(e) \in s.bit_field[WordOf(e)]
      BY <2>6, <1>3, <1>2, <1>0, <2>2
    <3> QED BY <3>1, <3>2, <2>3, <2>4
  <2> QED BY <2>5, <2>6
<1> QED BY <1>3, <1>4

\* The first half of check_revd keeps the window well formed, never moves it
\* back, and afterwards the number is in the window or behind it.
LEMMA SlideWindow ==
    ASSUME NEW s \in Windows, Aligned(s), NEW n \in Nat
    PROVE  /\ Slide(s, n) \in Windows
           /\ Aligned(Slide(s, n))
           /\ Slide(s, n).start_num >= s.start_num
           /\ InWindow(Slide(s, n), n) \/ n < Slide(s, n).start_num
           /\ SlideBy(s, n) > 0 =>
                 Slide(s, n).start_num = s.start_num + SlideBy(s, n) * WordBits
<1> USE SliderAssumption
<1> DEFINE q == n \div WordBits
           t == Slide(s, n)
<1>0. /\ s.start_num \in Nat
      /\ s.bit_field \in [WordIndex -> SUBSET BitIndex]
  BY DEF Windows
<1>1. PICK p \in Nat : s.start_num = p * WordBits
  BY DEF Aligned
<1>2. s.start_num \div WordBits = p
  <2>1. (p * WordBits + 0) \div WordBits = p
    BY DivUnique
  <2>2. s.start_num = p * WordBits + 0
    BY <1>1
  <2> QED BY <2>1, <2>2
<1>3. /\ n = q * WordBits + (n % WordBits)
      /\ n % WordBits \in 0 .. WordBits - 1
      /\ q \in Int
  BY DivMod
<1>4. SlideBy(s, n) = q - p - SliderLen + 1
  BY <1>2 DEF SlideBy
<1> HIDE DEF q
<1>5. CASE SlideBy(s, n) > 0
  <2> DEFINE k == q - SliderLen + 1
  <2>1. k \in Nat /\ k > p /\ SlideBy(s, n) = k - p
    BY <1>3, <1>4, <1>5
  <2>2. /\ t.start_num = k * WordBits
        /\ t \in Windows
    <3>1. k * WordBits \in Nat
      BY <2>1
    <3>2. [w \in WordIndex |-> IF w + SlideBy(s, n) \in WordIndex
                               THEN s.bit_field[w + SlideBy(s, n)] ELSE {}]
             \in [WordIndex -> SUBSET BitIndex]
      BY <1>0
    <3> QED BY <3>1, <3>2, <1>5 DEF Slide, Windows, q
  <2>3. t.start_num = s.start_num + SlideBy(s, n) * WordBits
    <3>1. k * WordBits = p * WordBits + (k - p) * WordBits
      BY <2>1
    <3> QED BY <3>1, <2>1, <2>2, <1>1
  <2>4. t.start_num >= s.start_num
    <3>1. p * WordBits + WordBits <= k * WordBits
      BY <2>1, MulMono
    <3>2. k * WordBits \in Nat /\ p * WordBits \in Nat
      BY <2>1
    <3>3. p * WordBits <= k * WordBits
      BY <3>1, <3>2
    <3> QED BY <3>3, <2>2, <1>1
  <2>5. InWindow(t, n)
    <3>1. q * WordBits = k * WordBits + (SliderLen - 1) * WordBits
      BY <2>1, <1>3
    <3>2. SliderLen * WordBits = (SliderLen - 1) * WordBits + WordBits
      OBVIOUS
    <3>3. (SliderLen - 1) * WordBits \in Nat
      OBVIOUS
    <3>4. k * WordBits \in Nat
      BY <2>1
    <3> DEFINE kw == k * WordBits
               lw == (SliderLen - 1) * WordBits
    <3> HIDE DEF kw, lw
    <3>5. n = kw + lw + (n % WordBits)
      BY <3>1, <1>3 DEF kw, lw
    <3>6. n >= kw /\ n - kw < lw + WordBits
      BY <3>5, <1>3, <3>3, <3>4 DEF kw, lw
    <3> QED BY <3>6, <3>2, <2>2 DEF InWindow, kw, lw
  <2> QED BY <2>1, <2>2, <2>3, <2>4, <2>5 DEF Aligned
<1>6. CASE ~ (SlideBy(s, n) > 0)
  <2>1. t = s
    BY <1>6 DEF Slide
  <2>2. ASSUME n >= s.start_num PROVE InWindow(s, n)
    <3>1. q < p + SliderLen
      BY <1>3, <1>4, <1>6
    <3>2. q * WordBits + WordBits <= (p + SliderLen) * WordBits
      BY <3>1, <1>3, MulMono
    <3>3. (p + SliderLen) * WordBits = p * WordBits + SliderLen * WordBits
      OBVIOUS
    <3> QED BY <3>2, <3>3, <1>1, <1>3, <2>2 DEF InWindow
  <2> QED BY <2>1, <2>2, <1>0, <1>6
<1> QED BY <1>5, <1>6

\* A number in the moved window has its bit set just when it was in the old
\* window with its bit set: the move forgets nothing it still covers and
\* invents nothing.
LEMMA SlideKeepsBits ==
    ASSUME NEW s \in Windows, Aligned(s), NEW n \in Nat,
           NEW m \in Nat, InWindow(Slide(s, n), m)
    PROVE  IsSet(Slide(s, n), m) <=> InWindow(s, m) /\ IsSet(s, m)
<1> USE SliderAssumption
<1> DEFINE t == Slide(s, n)
           k == SlideBy(s, n)
<1>0. /\ s.start_num \in Nat
      /\ s.bit_field \in [WordIndex -> SUBSET BitIndex]
      /\ t.start_num \in Nat
  BY SlideWindow DEF Windows
<1>1. CASE ~ (k > 0)
  <2>1. t = s
    BY <1>1 DEF Slide
  <2> QED BY <2>1
<1>2. CASE k > 0
  <2> DEFINE e == m - t.start_num
             d == m - s.start_num
  <2>0. k \in Int /\ t.start_num = s.start_num + k * WordBits
    <3>1. n \div WordBits \in Int /\ s.start_num \div WordBits \in Int
      BY <1>0, DivInt
    <3>2. k \in Int
      BY <3>1 DEF SlideBy
    <3> HIDE DEF k, t
    <3>3. t.start_num = s.start_num + k * WordBits
      BY <1>2, SlideWindow DEF k, t
    <3> QED BY <3>2, <3>3
  <2>1. /\ WordOf(e) \in WordIndex
        /\ BitOf(e) \in BitIndex
        /\ e = WordOf(e) * WordBits + BitOf(e)
    BY <1>0, WordAndBit DEF InWindow
  <2>2. t.bit_field = [w \in WordIndex |->
                         IF w + k \in WordIndex THEN s.bit_field[w + k] ELSE {}]
    BY <1>2 DEF Slide
  <2> HIDE DEF t, k
  <2>3. d = (WordOf(e) + k) * WordBits + BitOf(e)
    <3>1. (WordOf(e) + k) * WordBits = WordOf(e) * WordBits + k * WordBits
      BY <2>0, <2>1 DEF WordIndex
    <3> DEFINE x == WordOf(e) * WordBits
               y == k * WordBits
    <3>2. x \in Int /\ y \in Int /\ BitOf(e) \in Int
      BY <2>0, <2>1 DEF WordIndex, BitIndex
    <3>3. d = e + y
      BY <2>0, <1>0, <3>2 DEF t
    <3>4. e = x + BitOf(e)
      BY <2>1
    <3> HIDE DEF x, y, d, e
    <3>5. d = x + y + BitOf(e)
      BY <3>2, <3>3, <3>4
    <3> QED BY <3>1, <3>5 DEF x, y
  <2>4. WordOf(d) = WordOf(e) + k /\ BitOf(d) = BitOf(e)
    <3>1. WordOf(e) + k \in Int /\ BitOf(e) \in 0 .. WordBits - 1
      BY <2>0, <2>1 DEF WordIndex, BitIndex
    <3>2. /\ ((WordOf(e) + k) * WordBits + BitOf(e)) \div WordBits = WordOf(e) + k
          /\ ((WordOf(e) + k) * WordBits + BitOf(e)) % WordBits = BitOf(e)
      BY <3>1, DivUnique
    <3>3. WordOf(d) = d \div WordBits /\ BitOf(d) = d % WordBits
      BY DEF WordOf, BitOf
    <3> QED BY <3>2, <3>3, <2>3
  <2>5. IsSet(t, m) <=> BitOf(e) \in t.bit_field[WordOf(e)]
    BY DEF IsSet
  <2>6. IsSet(s, m) <=> BitOf(d) \in s.bit_field[WordOf(d)]
    BY DEF IsSet
  <2>7. InWindow(s, m) <=> WordOf(e) + k \in WordIndex
    <3>1. ASSUME InWindow(s, m) PROVE WordOf(e) + k \in WordIndex
      <4>1. WordOf(d) \in WordIndex
        BY <3>1, <1>0, WordAndBit DEF InWindow
      <4> QED BY <4>1, <2>4
    <3>2. ASSUME WordOf(e) + k \in WordIndex PROVE InWindow(s, m)
      <4>1. (WordOf(e) + k) * WordBits + WordBits <= SliderLen * WordBits
        BY <3>2, MulMono DEF WordIndex
      <4>2. (WordOf(e) + k) * WordBits >= 0
        BY <3>2 DEF WordIndex
      <4> DEFINE x == (WordOf(e) + k) * WordBits
                 y == SliderLen * WordBits
      <4>3. x \in Int /\ y \in Int /\ d \in Int
        BY <3>2, <1>0 DEF WordIndex
      <4> HIDE DEF x, y
      <4>4. d = x + BitOf(e)
        BY <2>3 DEF x
      <4>5. d >= 0 /\ d < y
        BY <4>1, <4>2, <4>3, <4>4, <2>1 DEF BitIndex, x, y
      <4> QED BY <4>5, <1>0 DEF InWindow, y
    <3> QED BY <3>1, <3>2
  <2>8. CASE WordOf(e) + k \in WordIndex
    BY <2>8, <2>1, <2>2, <2>4, <2>5, <2>6, <2>7 DEF t
  <2>9. CASE ~ (WordOf(e) + k \in WordIndex)
    <3>1. t.bit_field[WordOf(e)] = {}
      BY <2>9, <2>1, <2>2
    <3> QED BY <3>1, <2>5, <2>7, <2>9 DEF t
  <2> QED BY <2>8, <2>9
<1> QED BY <1>1, <1>2

\* The window s is a faithful record of the set D of numbers accepted so far.
Represents(s, D) ==
    /\ \A m \in D : m < s.start_num + SliderLen * WordBits
    /\ \A m \in Nat : InWindow(s, m) => (IsSet(s, m) <=> m \in D)

\* A fresh window records the empty set.
LEMMA NewSliderEmpty ==
    /\ NewSlider \in Windows
    /\ Aligned(NewSlider)
    /\ Represents(NewSlider, {})
<1> USE SliderAssumption
<1>1. NewSlider \in Windows
  BY DEF NewSlider, Windows
<1>2. Aligned(NewSlider)
  <2>1. 0 \in Nat /\ NewSlider.start_num = 0 * WordBits
    BY DEF NewSlider
  <2> QED BY <2>1 DEF Aligned
<1>3. ASSUME NEW m \in Nat, InWindow(NewSlider, m) PROVE ~ IsSet(NewSlider, m)
  <2>1. NewSlider.start_num = 0
    BY DEF NewSlider
  <2>2. m - 0 \in Nat /\ m - 0 < SliderLen * WordBits
    BY <1>3, <2>1 DEF InWindow
  <2>3. WordOf(m - 0) \in WordIndex
    BY <2>2, WordAndBit
  <2> QED BY <2>1, <2>3 DEF IsSet, NewSlider
<1> QED BY <1>1, <1>2, <1>3 DEF Represents

\* check_revd answers `new' only for a number not accepted before, and the
\* window it leaves records the accepted numbers, that one included.
THEOREM CheckRevdRecords ==
    ASSUME NEW s \in Windows, Aligned(s), NEW D \in SUBSET Nat, Represents(s, D),
           NEW n \in Nat
    PROVE  /\ AfterCheckRevd(s, n) \in Windows
           /\ Aligned(AfterCheckRevd(s, n))
           /\ CheckRevd(s, n) => n \notin D
           /\ ~ CheckRevd(s, n) => n \in D \/ n < AfterCheckRevd(s, n).start_num
           /\ Represents(AfterCheckRevd(s, n),
                         IF CheckRevd(s, n) THEN D \cup {n} ELSE D)
<1> USE SliderAssumption
<1> DEFINE t == Slide(s, n)
           u == AfterCheckRevd(s, n)
           E == IF CheckRevd(s, n) THEN D \cup {n} ELSE D
<1>1. /\ t \in Windows
      /\ Aligned(t)
      /\ t.start_num >= s.start_num
      /\ InWindow(t, n) \/ n < t.start_num
  BY SlideWindow
<1>2. t.start_num \in Nat /\ s.start_num \in Nat /\ SliderLen * WordBits \in Nat
  BY <1>1 DEF Windows
<1>3. \A m \in D : m < t.start_num + SliderLen * WordBits
  BY <1>1, <1>2 DEF Represents
<1>4. \A m \in Nat : InWindow(t, m) => (IsSet(t, m) <=> m \in D)
  <2>1. SUFFICES ASSUME NEW m \in Nat, InWindow(t, m)
                 PROVE  IsSet(t, m) <=> m \in D
    OBVIOUS
  <2>2. IsSet(t, m) <=> InWindow(s, m) /\ IsSet(s, m)
    BY <2>1, SlideKeepsBits
  <2>3. ASSUME m \in D PROVE InWindow(s, m)
    <3>1. m < s.start_num + SliderLen * WordBits
      BY <2>3 DEF Represents
    <3>2. m >= s.start_num
      BY <2>1, <1>1, <1>2 DEF InWindow
    <3> QED BY <3>1, <3>2, <1>2 DEF InWindow
  <2> QED BY <2>2, <2>3 DEF Represents
<1> HIDE DEF t
<1>5. CASE InWindow(t, n)
  <2>1. u = SetBit(t, n) /\ (CheckRevd(s, n) <=> ~ IsSet(t, n))
    BY <1>5 DEF AfterCheckRevd, CheckRevd, t
  <2>2. /\ u \in Windows
        /\ u.start_num = t.start_num
        /\ \A m \in Nat : InWindow(t, m) => (IsSet(u, m) <=> IsSet(t, m) \/ m = n)
    BY <2>1, <1>1, <1>5, SetBitSets
  <2>3. IsSet(t, n) <=> n \in D
    BY <1>4, <1>5
  <2>4. \A m \in Nat : InWindow(u, m) <=> InWindow(t, m)
    BY <2>2 DEF InWindow
  <2>5. \A m \in Nat : m \in E <=> m \in D \/ m = n
    BY <2>1, <2>3
  <2>6. \A m \in E : m < u.start_num + SliderLen * WordBits
    <3>1. n < t.start_num + SliderLen * WordBits
      BY <1>5, <1>2 DEF InWindow
    <3>2. E \subseteq Nat
      OBVIOUS
    <3> QED BY <3>1, <3>2, <1>3, <2>2, <2>5
  <2> HIDE DEF u, E
  <2>7. Represents(u, E)
    BY <1>4, <2>2, <2>4, <2>5, <2>6 DEF Represents
  <2>8. Aligned(u)
    BY <1>1, <2>2 DEF Aligned
  <2> QED BY <2>1, <2>2, <2>3, <2>7, <2>8 DEF u, E
<1>6. CASE ~ InWindow(t, n)
  <2>1. u = t /\ ~ CheckRevd(s, n)
    BY <1>6 DEF AfterCheckRevd, CheckRevd, t
  <2>2. Represents(u, E)
    BY <2>1, <1>3, <1>4 DEF Represents
  <2> QED BY <2>1, <2>2, <1>1, <1>6
<1> QED BY <1>5, <1>6
=============================================================================
