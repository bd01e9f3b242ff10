------------------------- MODULE DeltaUpdateProofs -------------------------
(***************************************************************************)
(* What the firmware tool makes of two images, the device turns back into  *)
(* the new one: for all images, files and chunks, whatever matches the     *)
(* tool finds and however it sorts the suffixes.  In this order:           *)
(*   bsdiff        numbers, matches, entries and the loop of the tool;     *)
(*                 DiffCorrect, PatchCorrect                               *)
(*   bspatch.c     the patching stage, byte by byte                        *)
(*   lzss.c        tokens, and that both decoders go through the same ones *)
(*   the stages    a call with a chunk                                     *)
(*   the encoder   its buffer, its matches and the bytes it writes         *)
(*   the chain     StageMatchesTool, DeliveryCorrect, FinishCorrect,       *)
(*                 FailedReadCorrect                                       *)
(***************************************************************************)
EXTENDS DeltaUpdate, WellFoundedInduction, FiniteSetTheorems, SequenceTheorems, TLAPS

----------------------------------------------------------------------------
(* Loops.  A loop is a recursive function of the number of its turns; it   *)
(* exists because every number of turns has one run.                       *)

LEMMA LeastElement ==
  ASSUME NEW T, T \subseteq Nat, T # {}
  PROVE  \E x \in T : \A y \in T : x <= y
<1> DEFINE R == OpToRel(<, Nat)
<1>1. IsWellFoundedOn(R, Nat)
  BY NatLessThanWellFounded
<1>2. \A x, y \in Nat : y < x => <<y, x>> \in R
  BY DEF OpToRel
<1> HIDE DEF R
<1>3. PICK x \in T : \A y \in T : ~(<<y, x>> \in R)
  BY <1>1, WFMin
<1>4. \A y \in T : x \in Nat /\ y \in Nat /\ ~(y < x)
  BY <1>2, <1>3
<1> QED BY <1>4

LEMMA Induction ==
  ASSUME NEW T, 0 \in T, \A n \in Nat : n \in T => n + 1 \in T
  PROVE  Nat \subseteq T
<1> DEFINE B == Nat \ T
<1> SUFFICES ASSUME B # {} PROVE FALSE
  OBVIOUS
<1>1. PICK x \in B : \A y \in B : x <= y
  <2>1. B \subseteq Nat
    OBVIOUS
  <2> HIDE DEF B
  <2> QED BY <2>1, LeastElement
<1>2. x # 0 /\ x - 1 \in Nat /\ ~(x <= x - 1) /\ (x - 1) + 1 = x
  BY <1>1
<1> QED BY <1>1, <1>2

IsLoop(f, S, first, step) ==
  f \in [Nat -> S] /\ f[0] = first /\ \A n \in Nat : f[n + 1] = step[f[n]]

LEMMA Iterate ==
  ASSUME NEW S, NEW first \in S, NEW step \in [S -> S]
  PROVE  \E f : IsLoop(f, S, first, step)
<1> DEFINE Run(n, g) ==
      g \in [0..n -> S] /\ g[0] = first /\ \A k \in 1..n : g[k] = step[g[k - 1]]
<1>1. \A n \in Nat : \E g : Run(n, g)
  <2> DEFINE T == {n \in Nat : \E g : Run(n, g)}
  <2>1. 0 \in T
    <3>1. Run(0, [k \in 0..0 |-> first])
      OBVIOUS
    <3> QED BY <3>1
  <2>2. ASSUME NEW n \in Nat, n \in T PROVE n + 1 \in T
    <3>1. PICK g : Run(n, g)
      BY <2>2
    <3>2. Run(n + 1, [k \in 0..(n + 1) |-> IF k = n + 1 THEN step[g[n]] ELSE g[k]])
      BY <3>1
    <3> QED BY <3>2
  <2>3. Nat \subseteq T
    <3> HIDE DEF T
    <3> QED BY <2>1, <2>2, Induction
  <2> QED BY <2>3
<1>2. ASSUME NEW n \in Nat, NEW m \in Nat, NEW g, NEW h, Run(n, g), Run(m, h)
      PROVE  \A k \in Nat : k <= n /\ k <= m => g[k] = h[k]
  <2> DEFINE T == {k \in Nat : k <= n /\ k <= m => g[k] = h[k]}
  <2>1. 0 \in T
    BY <1>2
  <2>2. ASSUME NEW k \in Nat, k \in T PROVE k + 1 \in T
    <3> SUFFICES ASSUME k + 1 <= n, k + 1 <= m PROVE g[k + 1] = h[k + 1]
      OBVIOUS
    <3>1. g[k] = h[k] /\ k + 1 \in 1..n /\ k + 1 \in 1..m /\ (k + 1) - 1 = k
      BY <2>2
    <3> QED BY <1>2, <3>1
  <2>3. Nat \subseteq T
    <3> HIDE DEF T
    <3> QED BY <2>1, <2>2, Induction
  <2> QED BY <2>3
<1> DEFINE run(n) == CHOOSE g : Run(n, g)
           f == [n \in Nat |-> run(n)[n]]
<1>3. \A n \in Nat : Run(n, run(n))
  BY <1>1
<1> HIDE DEF run
<1>4. f \in [Nat -> S]
  BY <1>3
<1>5. f[0] = first
  BY <1>3
<1>6. ASSUME NEW n \in Nat PROVE f[n + 1] = step[f[n]]
  <2>1. run(n + 1)[n] = run(n)[n]
    <3> HIDE DEF Run
    <3> QED BY <1>2, <1>3
  <2>2. Run(n + 1, run(n + 1)) /\ n + 1 \in 1..(n + 1) /\ (n + 1) - 1 = n /\ n + 1 \in Nat
    BY <1>3
  <2> QED BY <2>1, <2>2
<1> QED BY <1>4, <1>5, <1>6 DEF IsLoop

----------------------------------------------------------------------------
(* Numbers as the patch encodes them.                                      *)

LEMMA Division ==
  ASSUME NEW y \in Nat, NEW b \in Nat \ {0}
  PROVE  y \div b \in Nat /\ y % b \in 0..(b - 1) /\ b * (y \div b) + (y % b) = y
<1>1. y % b \in 0..(b - 1)
  OBVIOUS
<1>2. b * (y \div b) + (y % b) = y
  OBVIOUS
<1>3. y \div b \in Int
  OBVIOUS
<1>4. y \div b >= 0
  OBVIOUS
<1> QED BY <1>1, <1>2, <1>3, <1>4

LEMMA QuotientsUnfold ==
  ASSUME NEW y \in Nat
  PROVE  /\ Quotients(y) \in [Nat -> Nat]
         /\ Quotients(y)[0] = y
         /\ \A k \in Nat : Quotients(y)[k + 1] = Quotients(y)[k] \div Base
<1> DEFINE step == [n \in Nat |-> n \div Base]
           E(q) == q = [k \in Nat |-> IF k = 0 THEN y ELSE q[k - 1] \div Base]
           Q == Quotients(y)
<1>1. step \in [Nat -> Nat] /\ \A n \in Nat : step[n] = n \div Base
  BY BaseAssumption, Division
<1>2. PICK f \in [Nat -> Nat] : f[0] = y /\ \A n \in Nat : f[n + 1] = step[f[n]]
  <2> HIDE DEF step
  <2>1. PICK f : IsLoop(f, Nat, y, step)
    BY <1>1, Iterate
  <2> QED BY <2>1 DEF IsLoop
<1> HIDE DEF step
<1>3. E(f)
  <2>1. ASSUME NEW k \in Nat PROVE f[k] = IF k = 0 THEN y ELSE f[k - 1] \div Base
    <3>1. CASE k # 0
      <4>1. k - 1 \in Nat /\ (k - 1) + 1 = k
        BY <3>1
      <4> QED BY <1>1, <1>2, <3>1, <4>1
    <3> QED BY <1>2, <3>1
  <2> QED BY <1>2, <2>1
<1>4. Q = CHOOSE q : E(q)
  BY DEF Quotients
<1>5. E(Q)
  <2> HIDE DEF E, Q
  <2> QED BY <1>3, <1>4
<1> HIDE DEF Q
<1>6. Q[0] = y /\ \A k \in Nat : Q[k + 1] = Q[k] \div Base
  <2>1. \A k \in Nat : Q[k] = IF k = 0 THEN y ELSE Q[k - 1] \div Base
    BY <1>5
  <2>2. ASSUME NEW k \in Nat PROVE Q[k + 1] = Q[k] \div Base
    <3>1. k + 1 \in Nat /\ k + 1 # 0 /\ (k + 1) - 1 = k
      OBVIOUS
    <3> QED BY <2>1, <3>1
  <2>3. Q[0] = y
    BY <2>1
  <2> QED BY <2>2, <2>3
<1>7. \A k \in Nat : Q[k] \in Nat
  <2> DEFINE T == {k \in Nat : Q[k] \in Nat}
  <2>1. 0 \in T
    BY <1>6
  <2>3. ASSUME NEW k \in Nat, k \in T PROVE k + 1 \in T
    <3>1. Q[k] \in Nat /\ Base \in Nat \ {0}
      BY <2>3, BaseAssumption
    <3>2. Q[k] \div Base \in Nat
      BY <3>1, Division
    <3> QED BY <1>6, <3>2
  <2>2. Nat \subseteq T
    <3> HIDE DEF T
    <3> QED BY <2>1, <2>3, Induction
  <2> QED BY <2>2
<1>8. Q \in [Nat -> Nat]
  BY <1>5, <1>7
<1> QED BY <1>6, <1>8 DEF Q

LEMMA Remainder ==
  ASSUME NEW h \in Nat \ {0}, NEW a \in 0..(h - 1)
  PROVE  a % h = a /\ (a + h) % h = a
<1>1. a % h = a
  OBVIOUS
<1>2. (a + h) % h = a
  OBVIOUS
<1> QED BY <1>1, <1>2

LEMMA Half == Base \div 2 \in Nat \ {0} /\ Base = (Base \div 2) + (Base \div 2)
BY BaseAssumption

\* A number that leaves the sign bit free.
Fits(y) == y \in Nat /\ Quotients(y)[OFFW - 1] < Base \div 2

Abs(x) == IF x < 0 THEN -x ELSE x

LEMMA Encoded ==
  ASSUME NEW x \in Int
  PROVE  offtout(x) \in [1..OFFW -> Bytes]
<1> DEFINE q == Quotients(Abs(x))
           h == Base \div 2
<1>1. Abs(x) \in Nat
  BY DEF Abs
<1>2. q \in [Nat -> Nat]
  BY <1>1, QuotientsUnfold
<1> HIDE DEF q
<1>3. ASSUME NEW k \in 1..OFFW
      PROVE  q[k - 1] % Base \in Bytes /\ ((q[k - 1] % Base) % h) + h \in Bytes
  <2>1. k - 1 \in Nat /\ q[k - 1] \in Nat
    BY <1>2, BsdiffAssumption
  <2>2. q[k - 1] % Base \in 0..(Base - 1)
    BY <2>1, BaseAssumption, Division
  <2>3. h \in Nat \ {0} /\ Base = h + h
    BY Half
  <2> HIDE DEF h
  <2>4. (q[k - 1] % Base) % h \in 0..(h - 1)
    <3> DEFINE r == q[k - 1] % Base
    <3>1. r \in Nat
      BY <2>2, BaseAssumption
    <3> HIDE DEF r
    <3>2. r % h \in 0..(h - 1)
      BY <2>3, <3>1, Division
    <3> QED BY <3>2 DEF r
  <2> QED BY <2>2, <2>3, <2>4, BaseAssumption DEF Bytes
<1> QED BY <1>3 DEF offtout, q, Abs

LEMMA Decoded ==
  ASSUME NEW x \in Int, Fits(Abs(x)), NEW buf, buf = offtout(x)
  PROVE  offtin(buf) = x
<1> DEFINE q == Quotients(Abs(x))
           h == Base \div 2
           D == 0..(OFFW - 1)
           E(v) == v = [k \in D |-> IF k = 0 THEN buf[OFFW] % (Base \div 2)
                                    ELSE v[k - 1] * Base + buf[OFFW - k]]
           g == [k \in D |-> q[OFFW - 1 - k]]
<1>1. Abs(x) \in Nat /\ OFFW \in Nat \ {0}
  BY BsdiffAssumption DEF Abs
<1>2. /\ q \in [Nat -> Nat] /\ q[0] = Abs(x)
      /\ \A k \in Nat : q[k + 1] = q[k] \div Base
      /\ q[OFFW - 1] < h
  BY <1>1, QuotientsUnfold DEF Fits
<1> HIDE DEF q
<1>3. /\ \A k \in 1..(OFFW - 1) : buf[k] = q[k - 1] % Base
      /\ buf[OFFW] = IF x < 0 THEN ((q[OFFW - 1] % Base) % h) + h ELSE q[OFFW - 1] % Base
  BY <1>1 DEF offtout, q, Abs
<1>4. h \in Nat \ {0} /\ Base = h + h /\ Base \in Nat \ {0}
  BY Half, BaseAssumption
<1>5. q[OFFW - 1] \in 0..(h - 1)
  BY <1>1, <1>2, <1>4
<1>6. q[OFFW - 1] % Base = q[OFFW - 1]
  <2>1. q[OFFW - 1] \in 0..(Base - 1)
    BY <1>4, <1>5
  <2> QED BY <1>4, <2>1, Remainder
<1>7. buf[OFFW] = IF x < 0 THEN q[OFFW - 1] + h ELSE q[OFFW - 1]
  <2>1. q[OFFW - 1] % h = q[OFFW - 1]
    BY <1>4, <1>5, Remainder
  <2> QED BY <1>3, <1>6, <2>1
<1>8. buf[OFFW] % h = q[OFFW - 1]
  BY <1>4, <1>5, <1>7, Remainder
<1>9. buf[OFFW] >= h <=> x < 0
  BY <1>4, <1>5, <1>7
<1>10. ASSUME NEW k \in D, k # 0
       PROVE  q[OFFW - 1 - k] = q[OFFW - k] * Base + buf[OFFW - k]
  <2> DEFINE m == OFFW - 1 - k
  <2>1. m \in Nat /\ m + 1 = OFFW - k /\ OFFW - k \in 1..(OFFW - 1) /\ (OFFW - k) - 1 = m
    BY <1>1, <1>10
  <2>2. q[OFFW - k] = q[m] \div Base /\ buf[OFFW - k] = q[m] % Base /\ q[m] \in Nat
    BY <1>2, <1>3, <2>1
  <2> HIDE DEF m
  <2>3. Base * (q[m] \div Base) + (q[m] % Base) = q[m] /\ q[m] \div Base \in Nat
    BY <1>4, <2>2, Division
  <2>4. (q[m] \div Base) * Base = Base * (q[m] \div Base)
    BY <1>4, <2>3
  <2> QED BY <2>2, <2>3, <2>4 DEF m
<1>11. E(g)
  <2>1. ASSUME NEW k \in D
        PROVE  g[k] = IF k = 0 THEN buf[OFFW] % (Base \div 2)
                      ELSE g[k - 1] * Base + buf[OFFW - k]
    <3>1. CASE k = 0
      BY <1>1, <1>8, <3>1
    <3>2. CASE k # 0
      <4>1. k - 1 \in D /\ OFFW - 1 - (k - 1) = OFFW - k
        BY <1>1, <3>2
      <4> QED BY <1>10, <3>2, <4>1
    <3> QED BY <3>1, <3>2
  <2> QED BY <2>1
<1> DEFINE v == CHOOSE u : E(u)
<1>12. E(v)
  <2> HIDE DEF E, g
  <2> QED BY <1>11
<1>13. offtin(buf) = IF x < 0 THEN -v[OFFW - 1] ELSE v[OFFW - 1]
  <2>1. offtin(buf) = IF buf[OFFW] >= Base \div 2 THEN -v[OFFW - 1] ELSE v[OFFW - 1]
    BY DEF offtin
  <2> HIDE DEF v
  <2> QED BY <1>9, <2>1
<1> HIDE DEF v
<1>14. \A k \in Nat : k \in D => v[k] = g[k]
  <2> DEFINE T == {k \in Nat : k \in D => v[k] = g[k]}
  <2>1. 0 \in T
    BY <1>1, <1>8, <1>12
  <2>2. ASSUME NEW k \in Nat, k \in T PROVE k + 1 \in T
    <3> SUFFICES ASSUME k + 1 \in D PROVE v[k + 1] = g[k + 1]
      OBVIOUS
    <3>1. k \in D /\ k + 1 # 0 /\ (k + 1) - 1 = k
      BY <1>1
    <3>2. v[k] = g[k]
      BY <2>2, <3>1
    <3>3. v[k + 1] = v[k] * Base + buf[OFFW - (k + 1)]
      BY <1>12, <3>1
    <3>4. g[k + 1] = g[k] * Base + buf[OFFW - (k + 1)]
      BY <1>11, <3>1
    <3> QED BY <3>2, <3>3, <3>4
  <2>3. Nat \subseteq T
    <3> HIDE DEF T
    <3> QED BY <2>1, <2>2, Induction
  <2> QED BY <2>3
<1>15. v[OFFW - 1] = Abs(x)
  <2>1. OFFW - 1 \in Nat /\ OFFW - 1 \in D /\ OFFW - 1 - (OFFW - 1) = 0
    BY <1>1
  <2> QED BY <1>2, <1>14, <2>1
<1> QED BY <1>13, <1>15 DEF Abs

----------------------------------------------------------------------------
(* What search and the two extensions return.                              *)

LEMMA MaxOfBounded ==
  ASSUME NEW n \in Nat, NEW T, T \subseteq 0..n, T # {}
  PROVE  Max(T) \in T
<1> DEFINE HasMax == \E x \in T : \A y \in T : x >= y
           M == {m \in Nat : (\E t \in T : t >= n - m) => HasMax}
<1>1. 0 \in M
  OBVIOUS
<1>2. ASSUME NEW m \in Nat, m \in M PROVE m + 1 \in M
  <2> SUFFICES ASSUME NEW t \in T, t >= n - (m + 1) PROVE HasMax
    OBVIOUS
  <2>1. CASE \E u \in T : u >= n - m
    BY <1>2, <2>1
  <2>2. CASE \A u \in T : ~(u >= n - m)
    <3>1. \A u \in T : t >= u
      BY <2>2
    <3> QED BY <3>1
  <2> QED BY <2>1, <2>2
<1>3. Nat \subseteq M
  <2> HIDE DEF M
  <2> QED BY <1>1, <1>2, Induction
<1>4. HasMax
  <2>1. PICK t \in T : TRUE
    OBVIOUS
  <2>2. t >= n - n
    BY <2>1
  <2> QED BY <1>3, <2>1, <2>2
<1> QED BY <1>4 DEF Max

LEMMA MatchBounds ==
  ASSUME NEW f \in Seq(Bytes), NEW g \in Seq(Bytes)
  PROVE  matchlen(f, g) \in 0..Len(g)
<1> DEFINE T == {i \in 0..Len(f) : i <= Len(g) /\ \A k \in 1..i : f[k] = g[k]}
<1>1. Len(f) \in Nat /\ Len(g) \in Nat
  OBVIOUS
<1>2. T \subseteq 0..Len(f) /\ 0 \in T
  BY <1>1
<1>3. \A i \in T : i \in 0..Len(g)
  BY <1>1
<1>4. matchlen(f, g) = Max(T)
  BY DEF matchlen
<1> HIDE DEF T
<1>5. Max(T) \in T
  BY <1>1, <1>2, MaxOfBounded
<1> QED BY <1>3, <1>4, <1>5

LEMMA FromType ==
  ASSUME NEW f \in Seq(Bytes), NEW i \in 0..Len(f)
  PROVE  From(f, i) \in Seq(Bytes) /\ Len(From(f, i)) = Len(f) - i
BY DEF From

LEMMA SearchBounds ==
  ASSUME NEW o \in Seq(Bytes), NEW w \in Seq(Bytes), NEW A \in [0..Len(o) -> 0..Len(o)]
  PROVE  search(A, o, w).pos \in 0..Len(o) /\ search(A, o, w).len \in 0..Len(w)
<1> DEFINE J == (0..Len(o)) \X (0..Len(o))
           mid(b) == b[1] + (b[2] - b[1]) \div 2
           turn(b) == IF b[2] - b[1] < 2 THEN b
                      ELSE IF Below(From(o, A[mid(b)]), w) THEN <<mid(b), b[2]>>
                      ELSE <<b[1], mid(b)>>
           step == [b \in J |-> turn(b)]
           first == <<0, Len(o)>>
           E(half) == half = [k \in Nat |-> IF k = 0 THEN first ELSE turn(half[k - 1])]
<1>1. Len(o) \in Nat /\ Len(w) \in Nat
  OBVIOUS
<1>2. first \in J
  BY <1>1
<1>3. ASSUME NEW b \in J PROVE turn(b) \in J
  <2>1. b[1] \in 0..Len(o) /\ b[2] \in 0..Len(o) /\ b = <<b[1], b[2]>>
    OBVIOUS
  <2>2. CASE b[2] - b[1] < 2
    BY <2>2
  <2>3. CASE b[2] - b[1] >= 2
    <3>1. mid(b) \in 0..Len(o)
      BY <1>1, <2>1, <2>3
    <3> HIDE DEF mid
    <3> QED BY <2>1, <2>3, <3>1
  <2> QED BY <1>1, <2>1, <2>2, <2>3
<1> HIDE DEF turn, J, first
<1>4. step \in [J -> J]
  BY <1>3
<1>5. PICK f \in [Nat -> J] : f[0] = first /\ \A k \in Nat : f[k + 1] = step[f[k]]
  <2> HIDE DEF step
  <2>1. PICK f : IsLoop(f, J, first, step)
    BY <1>2, <1>4, Iterate
  <2> QED BY <2>1 DEF IsLoop
<1>6. E(f)
  <2>1. ASSUME NEW k \in Nat PROVE f[k] = IF k = 0 THEN first ELSE turn(f[k - 1])
    <3>1. CASE k # 0
      <4>1. k - 1 \in Nat /\ (k - 1) + 1 = k
        BY <3>1
      <4>2. f[k] = step[f[k - 1]] /\ f[k - 1] \in J
        BY <1>5, <4>1
      <4> QED BY <3>1, <4>2
    <3> QED BY <1>5, <3>1
  <2> QED BY <1>5, <2>1
<1> DEFINE half == CHOOSE h : E(h)
           last == half[Len(o)]
           lenAt(m) == matchlen(From(o, A[m]), w)
           m == IF lenAt(last[1]) > lenAt(last[2]) THEN last[1] ELSE last[2]
<1>7. E(half)
  <2> HIDE DEF E
  <2> QED BY <1>6
<1>8. search(A, o, w) = [len |-> lenAt(m), pos |-> A[m]]
  BY DEF search, turn, first
<1> HIDE DEF half
<1>9. \A k \in Nat : half[k] \in J
  <2> DEFINE T == {k \in Nat : half[k] \in J}
  <2>1. 0 \in T
    BY <1>2, <1>7
  <2>2. ASSUME NEW k \in Nat, k \in T PROVE k + 1 \in T
    <3>1. k + 1 \in Nat /\ k + 1 # 0 /\ (k + 1) - 1 = k
      OBVIOUS
    <3>2. half[k + 1] = turn(half[k])
      BY <1>7, <3>1
    <3> QED BY <1>3, <2>2, <3>2
  <2>3. Nat \subseteq T
    <3> HIDE DEF T
    <3> QED BY <2>1, <2>2, Induction
  <2> QED BY <2>3
<1>10. m \in 0..Len(o)
  <2>1. last \in J
    BY <1>1, <1>9
  <2> HIDE DEF last, lenAt
  <2>2. last[1] \in 0..Len(o) /\ last[2] \in 0..Len(o)
    BY <2>1 DEF J
  <2> QED BY <2>2
<1> HIDE DEF m, last
<1>11. A[m] \in 0..Len(o)
  BY <1>10
<1>12. lenAt(m) \in 0..Len(w)
  BY <1>11, FromType, MatchBounds
<1> QED BY <1>8, <1>11, <1>12

LEMMA BestLenBounds ==
  ASSUME NEW n \in Nat, NEW score \in [0..n -> Int]
  PROVE  BestLen(score) \in 0..n
<1> DEFINE First(m, i) == \A k \in 0..m : score[k] <= score[i] /\ (k < i => score[k] < score[i])
           T == {m \in Nat : m <= n => \E i \in 0..m : First(m, i)}
<1>1. 0 \in T
  <2>1. First(0, 0)
    OBVIOUS
  <2> QED BY <2>1
<1>2. ASSUME NEW m \in Nat, m \in T PROVE m + 1 \in T
  <2> SUFFICES ASSUME m + 1 <= n PROVE \E i \in 0..(m + 1) : First(m + 1, i)
    OBVIOUS
  <2>1. PICK i \in 0..m : First(m, i)
    BY <1>2
  <2>2. CASE score[m + 1] > score[i]
    <3>1. First(m + 1, m + 1)
      BY <2>1, <2>2
    <3> QED BY <3>1
  <2>3. CASE ~(score[m + 1] > score[i])
    <3>1. First(m + 1, i)
      BY <2>1, <2>3
    <3> QED BY <3>1
  <2> QED BY <2>2, <2>3
<1>3. Nat \subseteq T
  <2> HIDE DEF T
  <2> QED BY <1>1, <1>2, Induction
<1>4. PICK i \in 0..n : First(n, i)
  <2>1. n \in T
    <3> HIDE DEF T
    <3> QED BY <1>3
  <2> QED BY <2>1
<1>5. DOMAIN score = 0..n
  OBVIOUS
<1> QED BY <1>4, <1>5 DEF BestLen

LEMMA CountIsNat ==
  ASSUME NEW a \in Int, NEW b \in Int, NEW T, T \subseteq a..b
  PROVE  Cardinality(T) \in Nat
<1>1. IsFiniteSet(a..b)
  BY FS_Interval
<1>2. IsFiniteSet(T)
  BY <1>1, FS_Subset
<1> QED BY <1>2, FS_CardinalityType

\* Where the loop of bsdiff_internal may be in the two images.
Aligned(o, w, e) ==
  /\ e.scan \in 0..Len(w) /\ e.lastscan \in 0..e.scan
  /\ e.pos \in 0..Len(o) /\ e.lastpos \in 0..Len(o)

LEMMA ForwardBounds ==
  ASSUME NEW o \in Seq(Bytes), NEW w \in Seq(Bytes), NEW e, Aligned(o, w, e)
  PROVE  ExtendForward(o, w, e) \in 0..Least(e.scan - e.lastscan, Len(o) - e.lastpos)
<1> DEFINE n == Least(e.scan - e.lastscan, Len(o) - e.lastpos)
           same(i) == {k \in 0..(i - 1) : At(o, e.lastpos + k) = At(w, e.lastscan + k)}
           score == [i \in 0..n |-> 2 * Cardinality(same(i)) - i]
<1>1. n \in Nat
  BY DEF Least, Aligned
<1>2. ASSUME NEW i \in 0..n PROVE 2 * Cardinality(same(i)) - i \in Int
  <2>1. 0 \in Int /\ i - 1 \in Int /\ i \in Int /\ same(i) \subseteq 0..(i - 1)
    BY <1>1
  <2> HIDE DEF same
  <2>2. Cardinality(same(i)) \in Nat
    BY <2>1, CountIsNat
  <2> QED BY <2>1, <2>2
<1>3. ExtendForward(o, w, e) = BestLen(score)
  BY DEF ExtendForward
<1> HIDE DEF n, same
<1>4. score \in [0..n -> Int]
  BY <1>2
<1> HIDE DEF score
<1>5. BestLen(score) \in 0..n
  BY <1>1, <1>4, BestLenBounds
<1> QED BY <1>3, <1>5 DEF n

LEMMA BackwardBounds ==
  ASSUME NEW o \in Seq(Bytes), NEW w \in Seq(Bytes), NEW e, Aligned(o, w, e)
  PROVE  /\ ExtendBackward(o, w, e) \in 0..Least(e.scan - e.lastscan, e.pos)
         /\ e.scan = Len(w) => ExtendBackward(o, w, e) = 0
<1> DEFINE n == Least(e.scan - e.lastscan, e.pos)
           same(i) == {k \in 1..i : At(o, e.pos - k) = At(w, e.scan - k)}
           score == [i \in 0..n |-> 2 * Cardinality(same(i)) - i]
<1>1. n \in Nat
  BY DEF Least, Aligned
<1>2. ASSUME NEW i \in 0..n PROVE 2 * Cardinality(same(i)) - i \in Int
  <2>1. 1 \in Int /\ i \in Int /\ same(i) \subseteq 1..i
    BY <1>1
  <2> HIDE DEF same
  <2>2. Cardinality(same(i)) \in Nat
    BY <2>1, CountIsNat
  <2> QED BY <2>1, <2>2
<1>3. ExtendBackward(o, w, e) = IF e.scan >= Len(w) THEN 0 ELSE BestLen(score)
  BY DEF ExtendBackward
<1>6. e.scan = Len(w) => e.scan >= Len(w)
  OBVIOUS
<1> HIDE DEF n, same
<1>4. score \in [0..n -> Int]
  BY <1>2
<1> HIDE DEF score
<1>5. BestLen(score) \in 0..n
  BY <1>1, <1>4, BestLenBounds
<1> QED BY <1>1, <1>3, <1>5, <1>6 DEF n

LEMMA ExtendBounds ==
  ASSUME NEW o \in Seq(Bytes), NEW w \in Seq(Bytes), NEW e, Aligned(o, w, e)
  PROVE  LET x == Extend(o, w, e)
         IN  /\ x.f \in 0..(Len(o) - e.lastpos) /\ x.b \in 0..e.pos
             /\ x.f + x.b <= e.scan - e.lastscan
             /\ e.scan = Len(w) => x.b = 0
<1> DEFINE lenf == ExtendForward(o, w, e)
           lenb == ExtendBackward(o, w, e)
           overlap == (e.lastscan + lenf) - (e.scan - lenb)
           one(i) == {k \in 0..(i - 1) : At(w, e.lastscan + lenf - overlap + k)
                                           = At(o, e.lastpos + lenf - overlap + k)}
           two(i) == {k \in 0..(i - 1) : At(w, e.scan - lenb + k) = At(o, e.pos - lenb + k)}
           score == [i \in 0..overlap |-> Cardinality(one(i)) - Cardinality(two(i))]
           lens == BestLen(score)
<1>1. /\ lenf \in 0..(Len(o) - e.lastpos) /\ lenf <= e.scan - e.lastscan
      /\ lenb \in 0..e.pos /\ lenb <= e.scan - e.lastscan
      /\ e.scan = Len(w) => lenb = 0
      /\ e.scan \in Nat /\ e.lastscan \in Nat /\ Len(o) - e.lastpos \in Nat /\ e.pos \in Nat
  <2>1. /\ lenf \in 0..Least(e.scan - e.lastscan, Len(o) - e.lastpos)
        /\ lenb \in 0..Least(e.scan - e.lastscan, e.pos)
        /\ e.scan = Len(w) => lenb = 0
    BY ForwardBounds, BackwardBounds
  <2> HIDE DEF lenf, lenb
  <2>2. /\ e.scan \in Nat /\ e.lastscan \in Nat /\ Len(o) - e.lastpos \in Nat /\ e.pos \in Nat
    BY DEF Aligned
  <2>3. lenf \in 0..(Len(o) - e.lastpos) /\ lenf <= e.scan - e.lastscan
    BY <2>1, <2>2 DEF Least
  <2>4. lenb \in 0..e.pos /\ lenb <= e.scan - e.lastscan
    BY <2>1, <2>2 DEF Least
  <2> QED BY <2>1, <2>2, <2>3, <2>4
<1>2. Extend(o, w, e) = IF overlap > 0 THEN [f |-> lenf + lens - overlap, b |-> lenb - lens]
                        ELSE [f |-> lenf, b |-> lenb]
  BY DEF Extend
<1> HIDE DEF lenf, lenb
<1>3. overlap \in Int /\ overlap <= lenf /\ overlap <= lenb
      /\ overlap = lenf + lenb - (e.scan - e.lastscan)
  BY <1>1
<1>4. ASSUME overlap > 0 PROVE lens \in 0..overlap
  <2>1. overlap \in Nat
    BY <1>3, <1>4
  <2>2. ASSUME NEW i \in 0..overlap PROVE Cardinality(one(i)) - Cardinality(two(i)) \in Int
    <3>1. 0 \in Int /\ i - 1 \in Int /\ one(i) \subseteq 0..(i - 1) /\ two(i) \subseteq 0..(i - 1)
      BY <2>1
    <3> HIDE DEF one, two
    <3>2. Cardinality(one(i)) \in Nat /\ Cardinality(two(i)) \in Nat
      BY <3>1, CountIsNat
    <3> QED BY <3>2
  <2> HIDE DEF one, two, overlap
  <2>3. score \in [0..overlap -> Int]
    BY <2>2
  <2> HIDE DEF score
  <2> QED BY <2>1, <2>3, BestLenBounds
<1> HIDE DEF overlap, lens
<1>5. CASE overlap > 0
  <2>1. Extend(o, w, e).f = lenf + lens - overlap /\ Extend(o, w, e).b = lenb - lens
    BY <1>2, <1>5
  <2>2. lens \in Nat /\ lens <= overlap /\ e.scan # Len(w)
    BY <1>1, <1>3, <1>4, <1>5
  <2>3. /\ lenf + lens - overlap \in 0..(Len(o) - e.lastpos)
        /\ lenb - lens \in 0..e.pos
        /\ (lenf + lens - overlap) + (lenb - lens) <= e.scan - e.lastscan
    <3> DEFINE room == Len(o) - e.lastpos
               gap == e.scan - e.lastscan
               pos == e.pos
    <3>1. /\ room \in Nat /\ gap \in Int /\ pos \in Nat /\ lenf \in Nat /\ lenb \in Nat
          /\ lenf <= room /\ lenb <= pos /\ overlap = lenf + lenb - gap
      BY <1>1, <1>3
    <3>2. lens \in Nat /\ lens <= overlap /\ overlap \in Nat /\ overlap <= lenf /\ overlap <= lenb
      BY <1>3, <1>5, <2>2
    <3> HIDE DEF room, gap, pos
    <3>3. lenf + lens - overlap \in 0..room
      BY <3>1, <3>2
    <3>4. lenb - lens \in 0..pos
      BY <3>1, <3>2
    <3>5. (lenf + lens - overlap) + (lenb - lens) <= gap
      BY <3>1, <3>2
    <3> QED BY <3>3, <3>4, <3>5 DEF room, gap, pos
  <2> QED BY <2>1, <2>2, <2>3
<1>6. CASE ~(overlap > 0)
  BY <1>1, <1>2, <1>3, <1>6
<1> QED BY <1>5, <1>6

----------------------------------------------------------------------------
(* The entries of a patch.  A place is a position in the patch, in the old *)
(* and in the new image; Piece says that the entry between two places has  *)
(* what is needed to get from the one to the other.                        *)

Place == [p : Nat, oldpos : Nat, scan : Nat]

\* At position p of the patch there is an entry with f differences, x extra bytes
\* and a step of a in the old image.
EntryAt(o, w, P, p, op, sc, f, x, a) ==
  /\ p + 3 * OFFW + f + x <= Len(P)
  /\ sc + f + x <= Len(w)
  /\ op + f <= Len(o) /\ Abs(a) <= Len(o)
  /\ Fits(f) /\ Fits(x) /\ Fits(Abs(a))
  /\ \A i \in 1..OFFW : P[p + i] = offtout(f)[i]
  /\ \A i \in 1..OFFW : P[p + OFFW + i] = offtout(x)[i]
  /\ \A i \in 1..OFFW : P[p + 2 * OFFW + i] = offtout(a)[i]
  /\ \A i \in 1..f : P[p + 3 * OFFW + i] = (w[sc + i] - o[op + i]) % Base
  /\ \A i \in 1..x : P[p + 3 * OFFW + f + i] = w[sc + f + i]

Piece(o, w, P, s, t) ==
  \E f, x \in Nat : \E a \in Int :
    /\ EntryAt(o, w, P, s.p, s.oldpos, s.scan, f, x, a)
    /\ t = [p |-> s.p + 3 * OFFW + f + x, oldpos |-> s.oldpos + f + a,
            scan |-> s.scan + f + x]

LEMMA ByteBack ==
  ASSUME NEW a \in Bytes, NEW b \in Bytes
  PROVE  (a - b) % Base \in Bytes /\ (((a - b) % Base) + b) % Base = a
<1>1. Base \in Nat \ {0} /\ a \in 0..(Base - 1) /\ b \in 0..(Base - 1)
  BY BaseAssumption DEF Bytes
<1>2. CASE a >= b
  <2>1. a - b \in 0..(Base - 1)
    BY <1>1, <1>2
  <2>2. (a - b) % Base = a - b
    BY <1>1, <2>1, Remainder
  <2>3. (a - b) + b = a /\ a % Base = a
    BY <1>1, Remainder
  <2> QED BY <1>1, <2>1, <2>2, <2>3 DEF Bytes
<1>3. CASE a < b
  <2>1. (a - b) + Base \in 0..(Base - 1)
    BY <1>1, <1>3
  <2>2. (a - b) % Base = (a - b) + Base
    <3> DEFINE h == Base
               c == a - b
    <3>1. h \in Nat \ {0} /\ c \in Int /\ c < 0 /\ c + h >= 0
      BY <1>1, <1>3
    <3> HIDE DEF h, c
    <3>2. c % h = c + h
      BY <3>1
    <3> QED BY <3>2 DEF h, c
  <2>3. ((a - b) + Base) + b = a + Base /\ (a + Base) % Base = a
    BY <1>1, Remainder
  <2> QED BY <1>1, <2>1, <2>2, <2>3 DEF Bytes
<1> QED BY <1>1, <1>2, <1>3

\* The number that starts behind position p.
LEMMA NumberRead ==
  ASSUME NEW P \in Seq(Bytes), NEW p \in Nat, p + OFFW <= Len(P), NEW x \in Int,
         Fits(Abs(x)), \A i \in 1..OFFW : P[p + i] = offtout(x)[i]
  PROVE  offtin(SubSeq(P, p + 1, p + OFFW)) = x
<1>1. OFFW \in Nat \ {0}
  BY BsdiffAssumption
<1>2. SubSeq(P, p + 1, p + OFFW) = offtout(x)
  <2>1. /\ SubSeq(P, p + 1, p + OFFW) \in Seq(Bytes)
        /\ Len(SubSeq(P, p + 1, p + OFFW)) = OFFW
        /\ \A i \in 1..OFFW : SubSeq(P, p + 1, p + OFFW)[i] = P[p + i]
    BY <1>1
  <2>2. offtout(x) \in [1..OFFW -> Bytes]
    BY Encoded
  <2> QED BY <1>1, <2>1, <2>2
<1> QED BY <1>2, Decoded

LEMMA Join ==
  ASSUME NEW u \in Seq(Bytes), NEW v \in Seq(Bytes)
  PROVE  /\ u \o v \in Seq(Bytes) /\ Len(u \o v) = Len(u) + Len(v)
         /\ \A i \in 1..Len(u) : (u \o v)[i] = u[i]
         /\ \A i \in 1..Len(v) : (u \o v)[Len(u) + i] = v[i]
<1> DEFINE m == Len(u)
           n == Len(v)
           c == u \o v
<1>1. /\ c \in Seq(Bytes) /\ Len(c) = m + n
      /\ \A i \in 1..(m + n) : c[i] = IF i <= m THEN u[i] ELSE v[i - m]
  BY ConcatProperties
<1>2. m \in Nat /\ n \in Nat
  OBVIOUS
<1> HIDE DEF m, n, c
<1>3. ASSUME NEW i \in 1..m PROVE c[i] = u[i]
  BY <1>1, <1>2
<1>4. ASSUME NEW i \in 1..n PROVE c[m + i] = v[i]
  <2>1. m + i \in 1..(m + n) /\ ~(m + i <= m) /\ (m + i) - m = i
    BY <1>2
  <2> QED BY <1>1, <2>1
<1> QED BY <1>1, <1>3, <1>4 DEF m, n, c

LEMMA Cut ==
  ASSUME NEW u \in Seq(Bytes), NEW m \in Nat, NEW n \in Nat, m + n <= Len(u)
  PROVE  /\ SubSeq(u, m + 1, m + n) \in Seq(Bytes) /\ Len(SubSeq(u, m + 1, m + n)) = n
         /\ \A i \in 1..n : SubSeq(u, m + 1, m + n)[i] = u[m + i]
<1>1. \A i \in (m + 1)..(m + n) : u[i] \in Bytes
  BY LenProperties
<1>2. /\ SubSeq(u, m + 1, m + n) \in Seq(Bytes)
      /\ Len(SubSeq(u, m + 1, m + n)) =
           IF m + 1 <= m + n THEN (m + n) - (m + 1) + 1 ELSE 0
      /\ \A i \in 1..((m + n) - (m + 1) + 1) : SubSeq(u, m + 1, m + n)[i] = u[(m + 1) + i - 1]
  BY <1>1, SubSeqProperties
<1>3. /\ (m + n) - (m + 1) + 1 = n /\ (~(m + 1 <= m + n) => n = 0)
      /\ \A i \in 1..n : (m + 1) + i - 1 = m + i
  OBVIOUS
<1> QED BY <1>2, <1>3

\* What bspatch has at a place.
Reader(w, s) == [p |-> s.p, oldpos |-> s.oldpos, new |-> SubSeq(w, 1, s.scan)]

LEMMA Prefix ==
  ASSUME NEW w \in Seq(Bytes), NEW n \in 0..Len(w)
  PROVE  /\ SubSeq(w, 1, n) \in Seq(Bytes) /\ Len(SubSeq(w, 1, n)) = n
         /\ \A i \in 1..n : SubSeq(w, 1, n)[i] = w[i]
         /\ SubSeq(w, 1, n) # NoFile
<1>1. /\ SubSeq(w, 1, n) \in Seq(Bytes) /\ Len(SubSeq(w, 1, n)) = n
      /\ \A i \in 1..n : SubSeq(w, 1, n)[i] = w[i]
  OBVIOUS
<1>2. SubSeq(w, 1, n) # NoFile
  <2> SUFFICES ASSUME SubSeq(w, 1, n) = NoFile PROVE FALSE
    OBVIOUS
  <2>1. Len(NoFile) = 1 /\ NoFile[1] = -1
    BY DEF NoFile
  <2>2. n = 1 /\ w[1] = -1
    <3> HIDE DEF NoFile
    <3>1. n = 1
      BY <1>1, <2>1
    <3> QED BY <1>1, <2>1, <3>1
  <2>3. w[1] \in Bytes
    BY <2>2
  <2> QED BY <2>2, <2>3, BaseAssumption DEF Bytes
<1> QED BY <1>1, <1>2

LEMMA ReaderTurns ==
  ASSUME NEW o \in Seq(Bytes), NEW w \in Seq(Bytes), NEW P \in Seq(Bytes),
         NEW s \in Place, NEW t \in Place, Piece(o, w, P, s, t),
         NEW size \in Nat, s.scan < size, t.scan <= size
  PROVE  PatchEntry(o, P, size, Reader(w, s)) = Reader(w, t)
<1> PICK f \in Nat, x \in Nat, a \in Int :
        /\ EntryAt(o, w, P, s.p, s.oldpos, s.scan, f, x, a)
        /\ t = [p |-> s.p + 3 * OFFW + f + x, oldpos |-> s.oldpos + f + a,
                scan |-> s.scan + f + x]
  BY DEF Piece
<1> DEFINE p == s.p
           op == s.oldpos
           sc == s.scan
<1>fields. t.p = p + 3 * OFFW + f + x /\ t.oldpos = op + f + a /\ t.scan = sc + f + x
  OBVIOUS
<1>types. p \in Nat /\ op \in Nat /\ sc \in Nat /\ EntryAt(o, w, P, p, op, sc, f, x, a)
      /\ sc < size /\ sc + f + x <= size
  BY DEF Place
<1> USE <1>types
<1> HIDE DEF p, op, sc
<1> DEFINE r == [p |-> p, oldpos |-> op, new |-> SubSeq(w, 1, sc)]
           ctrl(k) == offtin(SubSeq(P, r.p + (k - 1) * OFFW + 1, r.p + k * OFFW))
           add(k) == IF r.oldpos + k - 1 \in 0..(Len(o) - 1) THEN At(o, r.oldpos + k - 1) ELSE 0
           q == r.p + 3 * OFFW
           ends == q + ctrl(1) + ctrl(2)
           diff == [k \in 1..ctrl(1) |-> (P[q + k] + add(k)) % Base]
           extra == SubSeq(P, q + ctrl(1) + 1, ends)
           lP == Len(P)
           lw == Len(w)
           lo == Len(o)
<1>1. PatchEntry(o, P, size, r) =
        IF r.new = NoFile \/ Len(r.new) >= size THEN r
        ELSE IF \/ q > lP
                \/ Len(r.new) + ctrl(1) > size
                \/ Len(r.new) + ctrl(1) + ctrl(2) > size
                \/ ends > lP
             THEN [r EXCEPT !.new = NoFile]
             ELSE [p |-> ends, oldpos |-> r.oldpos + ctrl(1) + ctrl(3),
                   new |-> r.new \o diff \o extra]
  BY DEF PatchEntry
<1>2. lP \in Nat /\ lw \in Nat /\ lo \in Nat /\ OFFW \in Nat
  BY BsdiffAssumption
<1>3. r.p = p /\ r.oldpos = op /\ r.new = SubSeq(w, 1, sc)
  OBVIOUS
<1> HIDE DEF r
<1>4. p + 3 * OFFW + f + x <= lP /\ sc + f + x <= lw /\ op + f <= lo
  BY DEF EntryAt
<1>5. /\ \A i \in 1..f : P[p + 3 * OFFW + i] = (w[sc + i] - o[op + i]) % Base
      /\ \A i \in 1..x : P[p + 3 * OFFW + f + i] = w[sc + f + i]
  BY DEF EntryAt
<1>6. r.new \in Seq(Bytes) /\ Len(r.new) = sc /\ r.new # NoFile
      /\ \A i \in 1..sc : r.new[i] = w[i]
  <2>1. sc \in 0..lw
    <3> HIDE DEF lw
    <3> QED BY <1>2, <1>4
  <2> QED BY <1>3, <2>1, Prefix
<1>7. ctrl(1) = f /\ ctrl(2) = x /\ ctrl(3) = a
  <2>1. ctrl(1) = offtin(SubSeq(P, p + 1, p + OFFW))
    <3>1. r.p + (1 - 1) * OFFW + 1 = p + 1 /\ r.p + 1 * OFFW = p + OFFW
      BY <1>2, <1>3
    <3> QED BY <3>1
  <2>2. ctrl(2) = offtin(SubSeq(P, (p + OFFW) + 1, (p + OFFW) + OFFW))
    <3>1. r.p + (2 - 1) * OFFW + 1 = (p + OFFW) + 1 /\ r.p + 2 * OFFW = (p + OFFW) + OFFW
      BY <1>2, <1>3
    <3> QED BY <3>1
  <2>3. ctrl(3) = offtin(SubSeq(P, (p + 2 * OFFW) + 1, (p + 2 * OFFW) + OFFW))
    <3>1. r.p + (3 - 1) * OFFW + 1 = (p + 2 * OFFW) + 1
          /\ r.p + 3 * OFFW = (p + 2 * OFFW) + OFFW
      BY <1>2, <1>3
    <3> QED BY <3>1
  <2> HIDE DEF ctrl
  <2>4. /\ p + OFFW \in Nat /\ p + 2 * OFFW \in Nat /\ f \in Int /\ x \in Int
        /\ p + OFFW <= lP /\ (p + OFFW) + OFFW <= lP /\ (p + 2 * OFFW) + OFFW <= lP
    <3> HIDE DEF lP, lw, lo
    <3> QED BY <1>2, <1>4
  <2>5. /\ \A i \in 1..OFFW : P[p + i] = offtout(f)[i]
        /\ \A i \in 1..OFFW : P[(p + OFFW) + i] = offtout(x)[i]
        /\ \A i \in 1..OFFW : P[(p + 2 * OFFW) + i] = offtout(a)[i]
        /\ Fits(Abs(f)) /\ Fits(Abs(x)) /\ Fits(Abs(a))
    BY DEF EntryAt, Abs
  <2>6. offtin(SubSeq(P, p + 1, p + OFFW)) = f
    BY <2>4, <2>5, NumberRead
  <2>7. offtin(SubSeq(P, (p + OFFW) + 1, (p + OFFW) + OFFW)) = x
    <3> DEFINE m == p + OFFW
    <3>1. m \in Nat /\ m + OFFW <= Len(P) /\ \A i \in 1..OFFW : P[m + i] = offtout(x)[i]
      BY <2>4, <2>5
    <3> HIDE DEF m
    <3>2. offtin(SubSeq(P, m + 1, m + OFFW)) = x
      BY <2>4, <2>5, <3>1, NumberRead
    <3> QED BY <3>2 DEF m
  <2>8. offtin(SubSeq(P, (p + 2 * OFFW) + 1, (p + 2 * OFFW) + OFFW)) = a
    <3> DEFINE m == p + 2 * OFFW
    <3>1. m \in Nat /\ m + OFFW <= Len(P) /\ \A i \in 1..OFFW : P[m + i] = offtout(a)[i]
      BY <2>4, <2>5
    <3> HIDE DEF m
    <3>2. offtin(SubSeq(P, m + 1, m + OFFW)) = a
      BY <2>5, <3>1, NumberRead
    <3> QED BY <3>2 DEF m
  <2> QED BY <2>1, <2>2, <2>3, <2>6, <2>7, <2>8
<1> HIDE DEF ctrl
<1>8. q \in Nat /\ ends \in Nat /\ q = p + 3 * OFFW /\ ends = (q + f) + x
  <2>1. q = p + 3 * OFFW /\ ends = (q + f) + x
    BY <1>3, <1>7
  <2>2. q \in Nat
    BY <1>2, <2>1
  <2> HIDE DEF q, ends
  <2>3. (q + f) + x \in Nat
    BY <2>2
  <2> QED BY <2>1, <2>2, <2>3
<1>9. q + f + x <= lP
  BY <1>4, <1>8
<1> HIDE DEF q, ends
<1>10. PatchEntry(o, P, size, r) = [p |-> ends, oldpos |-> r.oldpos + ctrl(1) + ctrl(3),
                                    new |-> r.new \o diff \o extra]
  <2> HIDE DEF diff, extra, lP
  <2>1. ~(r.new = NoFile \/ Len(r.new) >= size)
    BY <1>6
  <2>2. ~(q > lP) /\ ~(Len(r.new) + ctrl(1) > size)
        /\ ~(Len(r.new) + ctrl(1) + ctrl(2) > size) /\ ~(ends > lP)
    <3>1. q <= lP /\ sc + f <= size /\ sc + f + x <= size /\ ends <= lP
      BY <1>2, <1>8, <1>9
    <3>2. Len(r.new) = sc /\ ctrl(1) = f /\ ctrl(2) = x
      BY <1>6, <1>7
    <3>3. q \in Int /\ ends \in Int /\ lP \in Int
      BY <1>2, <1>8
    <3> QED BY <3>1, <3>2, <3>3
  <2> QED BY <1>1, <2>1, <2>2
<1>11. diff \in Seq(Bytes) /\ Len(diff) = f /\ \A i \in 1..f : diff[i] = w[sc + i]
  <2>1. ASSUME NEW i \in 1..f PROVE (P[q + i] + add(i)) % Base = w[sc + i]
                                    /\ w[sc + i] \in Bytes
    <3>1. /\ op + i - 1 \in 0..(lo - 1) /\ (op + i - 1) + 1 = op + i
          /\ op + i \in 1..lo /\ sc + i \in 1..lw
      <4> HIDE DEF lo, lw
      <4> QED BY <1>2, <1>4
    <3>2. add(i) = o[op + i]
      BY <1>3, <3>1 DEF At
    <3>3. o[op + i] \in Bytes /\ w[sc + i] \in Bytes
      <4>1. (\A j \in 1..lo : o[j] \in Bytes) /\ (\A j \in 1..lw : w[j] \in Bytes)
        BY LenProperties
      <4> HIDE DEF lo, lw
      <4> QED BY <3>1, <4>1
    <3>4. P[q + i] = (w[sc + i] - o[op + i]) % Base
      BY <1>5, <1>8
    <3> HIDE DEF add
    <3> QED BY <3>2, <3>3, <3>4, ByteBack
  <2> HIDE DEF add
  <2>2. diff = [k \in 1..f |-> (P[q + k] + add(k)) % Base]
    BY <1>7
  <2>3. /\ diff \in [1..f -> Bytes] /\ \A i \in 1..f : diff[i] = w[sc + i]
    BY <2>1, <2>2
  <2> HIDE DEF diff
  <2> QED BY <2>3
<1>12. extra \in Seq(Bytes) /\ Len(extra) = x /\ \A i \in 1..x : extra[i] = w[sc + f + i]
  <2> DEFINE m == q + f
  <2>1. m \in Nat /\ m + x <= lP /\ ends = m + x
    BY <1>2, <1>8, <1>9
  <2>4. extra = SubSeq(P, m + 1, m + x)
    BY <1>7, <2>1
  <2>2. \A i \in 1..x : P[m + i] = w[sc + f + i]
    BY <1>5, <1>8
  <2> HIDE DEF m, extra
  <2>3. /\ extra \in Seq(Bytes) /\ Len(extra) = x /\ \A i \in 1..x : extra[i] = P[m + i]
    <3>1. m + x <= Len(P)
      BY <2>1
    <3>2. /\ SubSeq(P, m + 1, m + x) \in Seq(Bytes) /\ Len(SubSeq(P, m + 1, m + x)) = x
          /\ \A i \in 1..x : SubSeq(P, m + 1, m + x)[i] = P[m + i]
      BY <2>1, <3>1, Cut
    <3> QED BY <2>4, <3>2
  <2> QED BY <2>2, <2>3
<1> HIDE DEF diff, extra
<1>13. r.new \o diff \o extra = SubSeq(w, 1, sc + f + x)
  <2> DEFINE u == r.new \o diff
             v == u \o extra
             m == sc + f
             n == m + x
  <2>1. m \in Nat /\ n \in Nat /\ n \in 0..lw
    BY <1>2, <1>4
  <2>2. /\ u \in Seq(Bytes) /\ Len(u) = m
        /\ \A i \in 1..sc : u[i] = r.new[i]
        /\ \A i \in 1..f : u[sc + i] = diff[i]
    <3> DEFINE head == r.new
    <3>1. head \in Seq(Bytes) /\ Len(head) = sc /\ diff \in Seq(Bytes) /\ Len(diff) = f
      BY <1>6, <1>11
    <3> HIDE DEF head
    <3>2. /\ head \o diff \in Seq(Bytes) /\ Len(head \o diff) = Len(head) + Len(diff)
          /\ \A i \in 1..Len(head) : (head \o diff)[i] = head[i]
          /\ \A i \in 1..Len(diff) : (head \o diff)[Len(head) + i] = diff[i]
      BY <3>1, Join
    <3> QED BY <3>1, <3>2, Zenon DEF head
  <2>3. ASSUME NEW i \in 1..m PROVE u[i] = w[i]
    <3> HIDE DEF u
    <3>1. CASE i \in 1..sc
      BY <1>6, <2>2, <3>1
    <3>2. CASE i \notin 1..sc
      <4>1. i - sc \in 1..f /\ sc + (i - sc) = i
        BY <3>2
      <4>2. diff[i - sc] = w[sc + (i - sc)]
        BY <1>11, <4>1
      <4>3. u[sc + (i - sc)] = diff[i - sc]
        BY <2>2, <4>1
      <4> QED BY <4>1, <4>2, <4>3
    <3> QED BY <3>1, <3>2
  <2> HIDE DEF u
  <2>4. \A k \in 1..x : extra[k] = w[m + k]
    BY <1>12
  <2> HIDE DEF m
  <2>5. /\ v \in Seq(Bytes) /\ Len(v) = n
        /\ \A i \in 1..m : v[i] = u[i]
        /\ \A i \in 1..x : v[m + i] = extra[i]
    <3>1. extra \in Seq(Bytes) /\ Len(extra) = x /\ m \in Nat /\ u \in Seq(Bytes) /\ Len(u) = m
      BY <1>12, <2>1, <2>2
    <3>2. /\ u \o extra \in Seq(Bytes) /\ Len(u \o extra) = Len(u) + Len(extra)
          /\ \A i \in 1..Len(u) : (u \o extra)[i] = u[i]
          /\ \A i \in 1..Len(extra) : (u \o extra)[Len(u) + i] = extra[i]
      BY <3>1, Join
    <3> QED BY <3>1, <3>2, Zenon
  <2>6. ASSUME NEW i \in 1..n PROVE v[i] = w[i]
    <3> HIDE DEF v
    <3>1. CASE i \in 1..m
      BY <2>3, <2>5, <3>1
    <3>2. CASE i \notin 1..m
      <4>1. i - m \in 1..x /\ m + (i - m) = i
        BY <2>1, <3>2
      <4> QED BY <2>4, <2>5, <4>1
    <3> QED BY <3>1, <3>2
  <2> HIDE DEF v, n
  <2>7. /\ SubSeq(w, 1, n) \in Seq(Bytes) /\ Len(SubSeq(w, 1, n)) = n
        /\ \A i \in 1..n : SubSeq(w, 1, n)[i] = w[i]
    BY <2>1, Prefix
  <2>8. v = SubSeq(w, 1, n)
    BY <2>5, <2>6, <2>7, SeqEqual
  <2> QED BY <2>8 DEF u, v, n, m
<1>14. r.oldpos + ctrl(1) + ctrl(3) = op + f + a /\ ends = p + 3 * OFFW + f + x
  BY <1>2, <1>3, <1>7, <1>8
<1>15. PatchEntry(o, P, size, r) = [p |-> t.p, oldpos |-> t.oldpos, new |-> SubSeq(w, 1, t.scan)]
  BY <1>fields, <1>10, <1>13, <1>14
<1> QED BY <1>15, Zenon DEF r, Reader, p, op, sc

LEMMA ReaderStops ==
  ASSUME NEW o, NEW w \in Seq(Bytes), NEW P, NEW size \in 0..Len(w), NEW s,
         s.new = SubSeq(w, 1, size)
  PROVE  PatchEntry(o, P, size, s) = s
<1>1. Len(s.new) = size /\ size \in Nat
  BY Prefix
<1>2. Len(s.new) >= size
  BY <1>1
<1> QED BY <1>2, Zenon DEF PatchEntry

\* The places T[0] .. T[n] lead through the whole of P.
Trace(o, w, P, n, T) ==
  /\ n \in Nat /\ T \in [0..n -> Place]
  /\ \A k \in 0..n : k <= T[k].p /\ T[k].scan <= T[n].scan
  /\ T[n].p = Len(P)
  /\ \A k \in 0..(n - 1) : T[k].scan < Len(w) /\ Piece(o, w, P, T[k], T[k + 1])

LEMMA PatchRuns ==
  ASSUME NEW o \in Seq(Bytes), NEW w \in Seq(Bytes), NEW P \in Seq(Bytes),
         NEW n, NEW T, Trace(o, w, P, n, T),
         NEW p \in Nat, T[0] = [p |-> p, oldpos |-> 0, scan |-> 0],
         NEW size \in 0..Len(w), T[n].scan = size
  PROVE  bspatch(o, P, size, p) = SubSeq(w, 1, size)
<1> DEFINE at(k) == Reader(w, T[k])
           S == {at(k) : k \in 0..n}
           turn(s) == PatchEntry(o, P, size, s)
           first == [p |-> p, oldpos |-> 0, new |-> <<>>]
           step == [s \in S |-> turn(s)]
           E(run) == run = [k \in Nat |-> IF k = 0 THEN first ELSE turn(run[k - 1])]
           run == CHOOSE r : E(r)
<1>1. bspatch(o, P, size, p) = run[Len(P)].new
  BY DEF bspatch
<1>2. n \in Nat /\ size \in Nat /\ size <= Len(w) /\ (\A k \in 0..n : T[k] \in Place /\ T[k].scan \in Nat)
  BY DEF Trace, Place
<1>3. ASSUME NEW k \in 0..n
      PROVE  \/ T[k].scan = size /\ turn(at(k)) = at(k)
             \/ k + 1 \in 0..n /\ T[k].scan < size /\ turn(at(k)) = at(k + 1)
  <2>1. T[k].scan <= size
    BY DEF Trace
  <2>2. CASE T[k].scan = size
    <3>1. at(k).new = SubSeq(w, 1, size)
      BY <2>2 DEF Reader
    <3> HIDE DEF at
    <3> QED BY <2>2, <3>1, ReaderStops
  <2>3. CASE T[k].scan < size
    <3>1. k # n
      BY <1>2, <2>3
    <3>2. k \in 0..(n - 1) /\ k + 1 \in 0..n
      BY <1>2, <3>1
    <3>3. Piece(o, w, P, T[k], T[k + 1]) /\ T[k + 1].scan <= size
      BY <3>2 DEF Trace
    <3>4. turn(at(k)) = at(k + 1)
      BY <1>2, <2>3, <3>2, <3>3, ReaderTurns
    <3> QED BY <2>3, <3>2, <3>4
  <2> QED BY <1>2, <2>1, <2>2, <2>3
<1>4. first = at(0)
  <2>1. SubSeq(w, 1, 0) = <<>>
    OBVIOUS
  <2> QED BY <2>1 DEF Reader
<1> HIDE DEF at, turn
<1>5. first \in S /\ step \in [S -> S] /\ \A s \in S : step[s] = turn(s)
  BY <1>2, <1>3, <1>4
<1>6. E(run)
  <2>1. PICK f \in [Nat -> S] : f[0] = first /\ \A k \in Nat : f[k + 1] = turn(f[k])
    <3> HIDE DEF step, S, first
    <3>1. PICK f : IsLoop(f, S, first, step)
      BY <1>5, Iterate
    <3> QED BY <1>5, <3>1 DEF IsLoop
  <2> HIDE DEF S, first
  <2>2. E(f)
    <3>1. ASSUME NEW k \in Nat PROVE f[k] = IF k = 0 THEN first ELSE turn(f[k - 1])
      <4>1. CASE k # 0
        <5>1. k - 1 \in Nat /\ (k - 1) + 1 = k
          BY <4>1
        <5> QED BY <2>1, <4>1, <5>1
      <4> QED BY <2>1, <4>1
    <3> QED BY <2>1, <3>1
  <2> HIDE DEF E
  <2> QED BY <2>2
<1> HIDE DEF run
<1>7. run[0] = at(0) /\ \A k \in Nat : run[k + 1] = turn(run[k])
  <2> HIDE DEF first
  <2>1. ASSUME NEW k \in Nat PROVE run[k + 1] = turn(run[k])
    <3>1. k + 1 \in Nat /\ k + 1 # 0 /\ (k + 1) - 1 = k
      OBVIOUS
    <3> QED BY <1>6, <3>1
  <2>2. run[0] = first
    BY <1>6
  <2> QED BY <1>4, <2>1, <2>2
<1> DEFINE done == SubSeq(w, 1, size)
           K == {k \in Nat : run[k].new = done \/ (k \in 0..n /\ run[k] = at(k))}
<1> HIDE DEF done
<1>8. Nat \subseteq K
  <2>1. 0 \in K
    BY <1>2, <1>7
  <2>2. ASSUME NEW k \in Nat, k \in K PROVE k + 1 \in K
    <3>1. CASE run[k].new = done
      <4>1. turn(run[k]) = run[k]
        BY <3>1, ReaderStops DEF turn, done
      <4>2. run[k + 1].new = done /\ k + 1 \in Nat
        <5>1. run[k + 1] = run[k]
          BY <1>7, <4>1
        <5> QED BY <3>1, <5>1
      <4> QED BY <4>2
    <3>2. CASE k \in 0..n /\ run[k] = at(k) /\ T[k].scan = size
      <4>1. run[k + 1] = at(k)
        <5>1. ~(T[k].scan < size)
          BY <1>2, <3>2
        <5>2. turn(at(k)) = at(k)
          BY <1>3, <3>2, <5>1
        <5> QED BY <1>7, <3>2, <5>2
      <4>2. at(k).new = done
        BY <3>2 DEF at, Reader, done
      <4> QED BY <4>1, <4>2
    <3>3. CASE k \in 0..n /\ run[k] = at(k) /\ T[k].scan # size
      <4>1. run[k + 1] = at(k + 1) /\ k + 1 \in 0..n
        BY <1>3, <1>7, <3>3
      <4> QED BY <4>1
    <3> QED BY <2>2, <3>1, <3>2, <3>3
  <2> HIDE DEF K
  <2> QED BY <2>1, <2>2, Induction
<1>9. CASE run[Len(P)].new = done
  BY <1>1, <1>9 DEF done
<1>10. CASE Len(P) \in 0..n /\ run[Len(P)] = at(Len(P))
  <2>1. n <= Len(P) /\ Len(P) \in Nat
    BY <1>2 DEF Trace
  <2>2. Len(P) = n
    BY <1>2, <1>10, <2>1
  <2>3. at(n).new = done
    BY DEF at, Reader, done
  <2> QED BY <1>1, <1>10, <2>2, <2>3 DEF done
<1>11. Len(P) \in Nat
  OBVIOUS
<1> QED BY <1>8, <1>9, <1>10, <1>11

\* Q has a copy of P behind its first m bytes.
Holds(Q, m, P) == m + Len(P) <= Len(Q) /\ \A i \in 1..Len(P) : Q[m + i] = P[i]

Moved(m, s) == [p |-> m + s.p, oldpos |-> s.oldpos, scan |-> s.scan]

LEMMA PieceMoved ==
  ASSUME NEW o \in Seq(Bytes), NEW w \in Seq(Bytes), NEW P \in Seq(Bytes), NEW Q \in Seq(Bytes),
         NEW m \in Nat, Holds(Q, m, P), NEW s \in Place, NEW t, Piece(o, w, P, s, t)
  PROVE  Piece(o, w, Q, Moved(m, s), Moved(m, t))
<1> PICK f \in Nat, x \in Nat, a \in Int :
        /\ EntryAt(o, w, P, s.p, s.oldpos, s.scan, f, x, a)
        /\ t = [p |-> s.p + 3 * OFFW + f + x, oldpos |-> s.oldpos + f + a,
                scan |-> s.scan + f + x]
  BY DEF Piece
<1> DEFINE p == s.p
           op == s.oldpos
           sc == s.scan
           lP == Len(P)
           lQ == Len(Q)
<1>1. /\ p \in Nat /\ op \in Nat /\ sc \in Nat /\ lP \in Nat /\ lQ \in Nat
      /\ EntryAt(o, w, P, p, op, sc, f, x, a) /\ OFFW \in Nat
  <2>1. p \in Nat /\ op \in Nat /\ sc \in Nat
    BY DEF Place
  <2>2. OFFW \in Nat /\ lP \in Nat /\ lQ \in Nat
    BY BsdiffAssumption
  <2>3. EntryAt(o, w, P, p, op, sc, f, x, a)
    OBVIOUS
  <2> HIDE DEF p, op, sc, lP, lQ
  <2> QED BY <2>1, <2>2, <2>3
<1>2. p + 3 * OFFW + f + x <= lP
  BY DEF EntryAt
<1>3. m + lP <= lQ /\ \A j \in 1..lP : Q[m + j] = P[j]
  BY DEF Holds
<1>4. /\ sc + f + x <= Len(w) /\ op + f <= Len(o) /\ Abs(a) <= Len(o) /\ Fits(f) /\ Fits(x) /\ Fits(Abs(a))
      /\ \A i \in 1..OFFW : P[p + i] = offtout(f)[i]
      /\ \A i \in 1..OFFW : P[p + OFFW + i] = offtout(x)[i]
      /\ \A i \in 1..OFFW : P[p + 2 * OFFW + i] = offtout(a)[i]
      /\ \A i \in 1..f : P[p + 3 * OFFW + i] = (w[sc + i] - o[op + i]) % Base
      /\ \A i \in 1..x : P[p + 3 * OFFW + f + i] = w[sc + f + i]
  BY DEF EntryAt
<1>5. t.p = p + 3 * OFFW + f + x /\ t.oldpos = op + f + a /\ t.scan = sc + f + x
  OBVIOUS
<1>6. Moved(m, s) = [p |-> m + p, oldpos |-> op, scan |-> sc]
  BY DEF Moved
<1> HIDE DEF p, op, sc, lP, lQ
<1>7. ASSUME NEW i \in 1..OFFW
      PROVE  /\ Q[m + p + i] = P[p + i] /\ Q[m + p + OFFW + i] = P[p + OFFW + i]
             /\ Q[m + p + 2 * OFFW + i] = P[p + 2 * OFFW + i]
  <2>1. p + i \in 1..lP /\ p + OFFW + i \in 1..lP /\ p + 2 * OFFW + i \in 1..lP
    BY <1>1, <1>2
  <2>2. /\ m + p + i = m + (p + i) /\ m + p + OFFW + i = m + (p + OFFW + i)
        /\ m + p + 2 * OFFW + i = m + (p + 2 * OFFW + i)
    BY <1>1
  <2> QED BY <1>3, <2>1, <2>2
<1>8. ASSUME NEW i \in 1..f PROVE Q[m + p + 3 * OFFW + i] = P[p + 3 * OFFW + i]
  <2>1. p + 3 * OFFW + i \in 1..lP /\ m + p + 3 * OFFW + i = m + (p + 3 * OFFW + i)
    BY <1>1, <1>2
  <2> QED BY <1>3, <2>1
<1>9. ASSUME NEW i \in 1..x PROVE Q[m + p + 3 * OFFW + f + i] = P[p + 3 * OFFW + f + i]
  <2>1. p + 3 * OFFW + f + i \in 1..lP
        /\ m + p + 3 * OFFW + f + i = m + (p + 3 * OFFW + f + i)
    BY <1>1, <1>2
  <2> QED BY <1>3, <2>1
<1>10. m + p + 3 * OFFW + f + x <= lQ
  <2> DEFINE z == p + 3 * OFFW + f + x
  <2>1. z \in Int /\ z <= lP /\ m + p + 3 * OFFW + f + x = m + z
    BY <1>1, <1>2
  <2> HIDE DEF z
  <2>2. m + z <= lQ
    BY <1>1, <1>3, <2>1
  <2> QED BY <2>1, <2>2
<1>11. EntryAt(o, w, Q, m + p, op, sc, f, x, a)
  <2>1. \A i \in 1..OFFW : Q[m + p + i] = offtout(f)[i]
    BY <1>4, <1>7
  <2>2. \A i \in 1..OFFW : Q[m + p + OFFW + i] = offtout(x)[i]
    BY <1>4, <1>7
  <2>3. \A i \in 1..OFFW : Q[m + p + 2 * OFFW + i] = offtout(a)[i]
    BY <1>4, <1>7
  <2>4. \A i \in 1..f : Q[m + p + 3 * OFFW + i] = (w[sc + i] - o[op + i]) % Base
    BY <1>4, <1>8
  <2>5. \A i \in 1..x : Q[m + p + 3 * OFFW + f + i] = w[sc + f + i]
    BY <1>4, <1>9
  <2>6. m + p + 3 * OFFW + f + x <= Len(Q)
    BY <1>10 DEF lQ
  <2>7. sc + f + x <= Len(w) /\ op + f <= Len(o) /\ Abs(a) <= Len(o) /\ Fits(f) /\ Fits(x) /\ Fits(Abs(a))
    BY <1>4
  <2> QED BY <2>1, <2>2, <2>3, <2>4, <2>5, <2>6, <2>7, Zenon DEF EntryAt
<1>12. Moved(m, t) = [p |-> m + p + 3 * OFFW + f + x, oldpos |-> op + f + a, scan |-> sc + f + x]
  <2>1. m + t.p = m + p + 3 * OFFW + f + x
    BY <1>1, <1>5
  <2> QED BY <1>5, <2>1 DEF Moved
<1> DEFINE S == Moved(m, s)
           R == Moved(m, t)
<1>13. S.p = m + p /\ S.oldpos = op /\ S.scan = sc
  BY <1>6
<1>14. /\ EntryAt(o, w, Q, S.p, S.oldpos, S.scan, f, x, a)
       /\ R = [p |-> S.p + 3 * OFFW + f + x, oldpos |-> S.oldpos + f + a, scan |-> S.scan + f + x]
  BY <1>11, <1>12, <1>13
<1> HIDE DEF S, R
<1>15. Piece(o, w, Q, S, R)
  BY <1>14 DEF Piece
<1> QED BY <1>15 DEF S, R

LEMMA EntryWritten ==
  ASSUME NEW o \in Seq(Bytes), NEW w \in Seq(Bytes), NEW e, Aligned(o, w, e),
         \A y \in 0..Len(o) : Fits(y), \A y \in 0..Len(w) : Fits(y)
  PROVE  LET x == Extend(o, w, e)
             u == Entry(o, w, e, x)
         IN  /\ u \in Seq(Bytes) /\ x.f \in Nat /\ x.b \in Nat
             /\ Piece(o, w, u, [p |-> 0, oldpos |-> e.lastpos, scan |-> e.lastscan],
                      [p |-> Len(u), oldpos |-> e.pos - x.b, scan |-> e.scan - x.b])
<1> DEFINE f == Extend(o, w, e).f
           b == Extend(o, w, e).b
           op == e.lastpos
           sc == e.lastscan
           scan == e.scan
           pos == e.pos
           x == (scan - b) - (sc + f)
           a == (pos - b) - (op + f)
           lo == Len(o)
           lw == Len(w)
           c1 == offtout(f)
           c2 == offtout(x)
           c3 == offtout(a)
           diff == [k \in 1..f |-> (w[sc + k] - o[op + k]) % Base]
           extra == SubSeq(w, sc + f + 1, scan - b)
           u1 == c1 \o c2
           u2 == u1 \o c3
           u3 == u2 \o diff
           u == u3 \o extra
<1>1. Entry(o, w, e, Extend(o, w, e)) = u
  BY DEF Entry
<1>2. /\ scan \in 0..lw /\ sc \in 0..scan /\ pos \in 0..lo /\ op \in 0..lo
      /\ f \in 0..(lo - op) /\ b \in 0..pos /\ f + b <= scan - sc
      /\ lo \in Nat /\ lw \in Nat /\ OFFW \in Nat
  BY ExtendBounds, BsdiffAssumption DEF Aligned
<1>3. (\A y \in 0..lo : Fits(y)) /\ (\A y \in 0..lw : Fits(y))
  OBVIOUS
<1>4. /\ \A i \in 1..lo : o[i] \in Bytes
      /\ \A i \in 1..lw : w[i] \in Bytes
  BY LenProperties
<1>5. ASSUME sc + f \in Nat, x \in Nat, (sc + f) + x <= lw
      PROVE  /\ extra \in Seq(Bytes) /\ Len(extra) = x
             /\ \A i \in 1..x : extra[i] = w[sc + f + i]
  <2>1. (sc + f) + x = scan - b
    <3> HIDE DEF lw, lo, scan, sc, f, b
    <3> QED BY <1>2
  <2> DEFINE m == sc + f
  <2>2. extra = SubSeq(w, m + 1, m + x)
    BY <2>1
  <2>3. m \in Nat /\ x \in Nat /\ m + x <= Len(w)
    BY <1>5
  <2> HIDE DEF m, extra, x
  <2>4. /\ SubSeq(w, m + 1, m + x) \in Seq(Bytes) /\ Len(SubSeq(w, m + 1, m + x)) = x
        /\ \A i \in 1..x : SubSeq(w, m + 1, m + x)[i] = w[m + i]
    BY <2>3, Cut
  <2> QED BY <2>2, <2>4 DEF m
<1> HIDE DEF lo, lw, scan, sc, pos, op, f, b, extra
<1>6. /\ f \in Nat /\ b \in Nat /\ x \in Nat /\ a \in Int /\ sc \in Nat /\ op \in Nat
      /\ scan \in Nat /\ pos \in Nat
      /\ f \in 0..lo /\ x \in 0..lw /\ Abs(a) \in 0..lo
      /\ sc + f + x <= lw /\ op + f <= lo
  BY <1>2 DEF Abs
<1>7. (sc + f) + x = scan - b /\ (op + f) + a = pos - b
  BY <1>2
<1> HIDE DEF x, a
<1>8. Fits(f) /\ Fits(x) /\ Fits(Abs(a))
  BY <1>3, <1>6
<1>9. /\ extra \in Seq(Bytes) /\ Len(extra) = x /\ \A i \in 1..x : extra[i] = w[sc + f + i]
  BY <1>5, <1>6
<1>10. ASSUME NEW i \in 1..f PROVE (w[sc + i] - o[op + i]) % Base \in Bytes
  <2>1. sc + i \in 1..lw /\ op + i \in 1..lo
    BY <1>6, <1>2
  <2> QED BY <1>4, <2>1, ByteBack
<1>11. diff \in [1..f -> Bytes] /\ \A i \in 1..f : diff[i] = (w[sc + i] - o[op + i]) % Base
  BY <1>10
<1> HIDE DEF diff
<1>12. diff \in Seq(Bytes) /\ Len(diff) = f
  BY <1>6, <1>11
<1>13. /\ c1 \in Seq(Bytes) /\ Len(c1) = OFFW
       /\ c2 \in Seq(Bytes) /\ Len(c2) = OFFW
       /\ c3 \in Seq(Bytes) /\ Len(c3) = OFFW
  <2>1. f \in Int /\ x \in Int
    BY <1>6
  <2>2. c1 \in [1..OFFW -> Bytes] /\ c2 \in [1..OFFW -> Bytes] /\ c3 \in [1..OFFW -> Bytes]
    BY <1>6, <2>1, Encoded
  <2> HIDE DEF c1, c2, c3
  <2> QED BY <1>2, <2>2
<1> HIDE DEF c1, c2, c3
<1>14. /\ u1 \in Seq(Bytes) /\ Len(u1) = OFFW + OFFW
       /\ \A i \in 1..OFFW : u1[i] = c1[i]
       /\ \A i \in 1..OFFW : u1[OFFW + i] = c2[i]
  BY <1>13, Join
<1> HIDE DEF u1
<1>15. /\ u2 \in Seq(Bytes) /\ Len(u2) = Len(u1) + OFFW
       /\ \A i \in 1..Len(u1) : u2[i] = u1[i]
       /\ \A i \in 1..OFFW : u2[Len(u1) + i] = c3[i]
  <2>1. u1 \in Seq(Bytes) /\ c3 \in Seq(Bytes) /\ Len(c3) = OFFW
    BY <1>13, <1>14
  <2> QED BY <2>1, Join
<1> HIDE DEF u2
<1>16. /\ u3 \in Seq(Bytes) /\ Len(u3) = Len(u2) + f
       /\ \A i \in 1..Len(u2) : u3[i] = u2[i]
       /\ \A i \in 1..f : u3[Len(u2) + i] = diff[i]
  BY <1>12, <1>15, Join
<1> HIDE DEF u3
<1>17. /\ u \in Seq(Bytes) /\ Len(u) = Len(u3) + x
       /\ \A i \in 1..Len(u3) : u[i] = u3[i]
       /\ \A i \in 1..x : u[Len(u3) + i] = extra[i]
  BY <1>9, <1>16, Join
<1> HIDE DEF u
<1> DEFINE n1 == OFFW + OFFW
           n2 == n1 + OFFW
           n3 == n2 + f
<1>18. Len(u1) = n1 /\ Len(u2) = n2 /\ Len(u3) = n3 /\ Len(u) = n3 + x
  BY <1>14, <1>15, <1>16, <1>17
<1>19. /\ n1 \in Nat /\ n2 \in Nat /\ n3 \in Nat /\ OFFW <= n1 /\ n1 <= n2 /\ n2 <= n3
       /\ 0 + 2 * OFFW = n1 /\ 0 + 3 * OFFW = n2 /\ 0 + 3 * OFFW + f = n3
       /\ 0 + 3 * OFFW + f + x = n3 + x
  <2>1. OFFW \in Nat /\ f \in Nat /\ x \in Nat
    BY <1>2, <1>6
  <2>2. n1 \in Nat /\ OFFW <= n1 /\ 0 + 2 * OFFW = n1
    BY <2>1
  <2>3. n2 \in Nat /\ n1 <= n2 /\ 0 + 3 * OFFW = n2
    BY <2>1
  <2>4. n3 \in Nat /\ n2 <= n3
    BY <2>1, <2>3
  <2> QED BY <2>1, <2>2, <2>3, <2>4
<1>20. /\ \A i \in 1..n1 : u[i] = u1[i]
       /\ \A i \in 1..n2 : u[i] = u2[i]
  <2> HIDE DEF n1, n2, n3
  <2>1. \A i \in 1..n1 : i \in 1..n2 /\ i \in 1..n3
    BY <1>19
  <2>2. \A i \in 1..n2 : i \in 1..n3
    BY <1>19
  <2> QED BY <1>15, <1>16, <1>17, <1>18, <2>1, <2>2
<1>21. ASSUME NEW i \in 1..OFFW
       PROVE  u[0 + i] = c1[i] /\ u[0 + OFFW + i] = c2[i] /\ u[0 + 2 * OFFW + i] = c3[i]
  <2>1. /\ i \in 1..n1 /\ OFFW + i \in 1..n1 /\ n1 + i \in 1..n2 
        /\ 0 + i = i /\ 0 + OFFW + i = OFFW + i /\ 0 + 2 * OFFW + i = n1 + i
    BY <1>2
  <2> HIDE DEF n1, n2, n3
  <2> QED BY <1>14, <1>15, <1>18, <1>20, <2>1
<1>22. ASSUME NEW i \in 1..f PROVE u[0 + 3 * OFFW + i] = diff[i]
  <2>1. n2 + i \in 1..n3 /\ 0 + 3 * OFFW + i = n2 + i
    BY <1>2, <1>6
  <2> HIDE DEF n1, n2, n3
  <2> QED BY <1>16, <1>17, <1>18, <2>1
<1>23. ASSUME NEW i \in 1..x PROVE u[0 + 3 * OFFW + f + i] = extra[i]
  <2>1. 0 + 3 * OFFW + f + i = n3 + i
    BY <1>2, <1>6
  <2> HIDE DEF n1, n2, n3
  <2> QED BY <1>17, <1>18, <2>1
<1>24. EntryAt(o, w, u, 0, op, sc, f, x, a)
  <2>1. /\ \A i \in 1..OFFW : u[0 + i] = offtout(f)[i]
        /\ \A i \in 1..OFFW : u[0 + OFFW + i] = offtout(x)[i]
        /\ \A i \in 1..OFFW : u[0 + 2 * OFFW + i] = offtout(a)[i]
    BY <1>21 DEF c1, c2, c3
  <2>2. \A i \in 1..f : u[0 + 3 * OFFW + i] = (w[sc + i] - o[op + i]) % Base
    BY <1>11, <1>22
  <2>3. \A i \in 1..x : u[0 + 3 * OFFW + f + i] = w[sc + f + i]
    BY <1>9, <1>23
  <2>4. 0 + 3 * OFFW + f + x <= Len(u)
    <3>1. n3 + x \in Nat
      BY <1>6, <1>19
    <3> HIDE DEF n1, n2, n3
    <3> QED BY <1>18, <1>19, <3>1
  <2>5. sc + f + x <= Len(w) /\ op + f <= Len(o) /\ Abs(a) <= Len(o)
    BY <1>6, <1>2 DEF lo, lw
  <2> QED BY <1>8, <2>1, <2>2, <2>3, <2>4, <2>5, Zenon DEF EntryAt
<1> DEFINE s == [p |-> 0, oldpos |-> op, scan |-> sc]
           t == [p |-> Len(u), oldpos |-> pos - b, scan |-> scan - b]
<1>25. Piece(o, w, u, s, t)
  <2>1. s.p = 0 /\ s.oldpos = op /\ s.scan = sc
    OBVIOUS
  <2>2. t = [p |-> 0 + 3 * OFFW + f + x, oldpos |-> op + f + a, scan |-> sc + f + x]
    BY <1>7, <1>18, <1>19
  <2> HIDE DEF s, t
  <2>3. /\ EntryAt(o, w, u, s.p, s.oldpos, s.scan, f, x, a)
        /\ t = [p |-> s.p + 3 * OFFW + f + x, oldpos |-> s.oldpos + f + a, scan |-> s.scan + f + x]
    BY <1>24, <2>1, <2>2
  <2> QED BY <1>6, <2>3 DEF Piece
<1> QED BY <1>1, <1>6, <1>17, <1>25 DEF s, t, f, b, op, sc, pos, scan

----------------------------------------------------------------------------
(* The whole patch.                                                        *)

\* From position p on, P makes the first sc bytes of the new image and has the old
\* one at op.
Leads(o, w, P, p, op, sc) ==
  \E n, T : /\ Trace(o, w, P, n, T)
            /\ T[0] = [p |-> p, oldpos |-> 0, scan |-> 0]
            /\ T[n] = [p |-> Len(P), oldpos |-> op, scan |-> sc]

LEMMA LeadsToPatch ==
  ASSUME NEW o \in Seq(Bytes), NEW w \in Seq(Bytes), NEW P \in Seq(Bytes), NEW p \in Nat,
         NEW op, NEW sc \in 0..Len(w), Leads(o, w, P, p, op, sc)
  PROVE  bspatch(o, P, sc, p) = SubSeq(w, 1, sc)
<1>1. PICK n, T : /\ Trace(o, w, P, n, T)
                  /\ T[0] = [p |-> p, oldpos |-> 0, scan |-> 0]
                  /\ T[n] = [p |-> Len(P), oldpos |-> op, scan |-> sc]
  BY DEF Leads
<1>2. T[n].scan = sc
  BY <1>1
<1> QED BY <1>1, <1>2, PatchRuns, SMTT(60)

LEMMA LeadsFirst ==
  ASSUME NEW o, NEW w
  PROVE  Leads(o, w, <<>>, 0, 0, 0)
<1> DEFINE T == [k \in 0..0 |-> [p |-> 0, oldpos |-> 0, scan |-> 0]]
<1>1. T[0] = [p |-> 0, oldpos |-> 0, scan |-> 0] /\ Len(<<>>) = 0
  OBVIOUS
<1>2. Trace(o, w, <<>>, 0, T)
  BY DEF Trace, Place
<1> HIDE DEF T
<1> QED BY <1>1, <1>2 DEF Leads

LEMMA LeadsOn ==
  ASSUME NEW o \in Seq(Bytes), NEW w \in Seq(Bytes), NEW P \in Seq(Bytes), NEW u \in Seq(Bytes),
         NEW op \in Nat, NEW sc \in Nat, NEW op2 \in Nat, NEW sc2 \in Nat,
         Leads(o, w, P, 0, op, sc), sc < Len(w),
         Piece(o, w, u, [p |-> 0, oldpos |-> op, scan |-> sc],
               [p |-> Len(u), oldpos |-> op2, scan |-> sc2])
  PROVE  Leads(o, w, P \o u, 0, op2, sc2)
<1> DEFINE s == [p |-> 0, oldpos |-> op, scan |-> sc]
           t == [p |-> Len(u), oldpos |-> op2, scan |-> sc2]
           Q == P \o u
           lP == Len(P)
           lu == Len(u)
<1>1. PICK n, T : /\ Trace(o, w, P, n, T)
                  /\ T[0] = [p |-> 0, oldpos |-> 0, scan |-> 0]
                  /\ T[n] = [p |-> lP, oldpos |-> op, scan |-> sc]
  BY DEF Leads
<1>2. /\ n \in Nat /\ T \in [0..n -> Place]
      /\ \A k \in 0..n : k <= T[k].p /\ T[k].scan <= sc
      /\ \A k \in 0..(n - 1) : T[k].scan < Len(w) /\ Piece(o, w, P, T[k], T[k + 1])
      /\ n <= lP
  BY <1>1 DEF Trace
<1>3. lP \in Nat /\ lu \in Nat
  OBVIOUS
<1>4. Q \in Seq(Bytes) /\ Len(Q) = lP + lu /\ Holds(Q, 0, P) /\ Holds(Q, lP, u)
  <2>1. /\ Q \in Seq(Bytes) /\ Len(Q) = lP + lu
        /\ \A i \in 1..lP : Q[i] = P[i]
        /\ \A i \in 1..lu : Q[lP + i] = u[i]
    BY Join
  <2> HIDE DEF Q
  <2>2. 0 + lP <= lP + lu /\ lP + lu <= lP + lu /\ \A i \in 1..lP : 0 + i = i
    BY <1>3
  <2> QED BY <2>1, <2>2 DEF Holds
<1> HIDE DEF Q
<1>5. lu > 0 /\ sc <= sc2
  <2>1. PICK f \in Nat, x \in Nat, a \in Int :
          t = [p |-> s.p + 3 * OFFW + f + x, oldpos |-> s.oldpos + f + a,
               scan |-> s.scan + f + x]
    BY DEF Piece
  <2>2. t.p = lu /\ t.scan = sc2 /\ s.p = 0 /\ s.scan = sc
    OBVIOUS
  <2>3. lu = 0 + 3 * OFFW + f + x /\ sc2 = sc + f + x
    BY <2>1, <2>2
  <2> HIDE DEF lu
  <2>4. OFFW \in Nat \ {0}
    BY BsdiffAssumption
  <2> QED BY <2>3, <2>4
<1> DEFINE last == [p |-> lP + lu, oldpos |-> op2, scan |-> sc2]
           T2 == [k \in 0..(n + 1) |-> IF k \in 0..n THEN T[k] ELSE last]
<1>6. ASSUME NEW k \in 0..n PROVE k \in 0..(n + 1) /\ T2[k] = T[k] /\ T[k] \in Place
  BY <1>2
<1>7. T2[n + 1] = last /\ n + 1 \in 0..(n + 1) /\ n + 1 \in Nat /\ last \in Place
  <2>1. n + 1 \notin 0..n /\ n + 1 \in 0..(n + 1) /\ n + 1 \in Nat
    BY <1>2
  <2> QED BY <1>3, <2>1 DEF Place
<1>8. T2 \in [0..(n + 1) -> Place]
  <2> HIDE DEF last
  <2> QED BY <1>2, <1>7
<1>9. last.p = lP + lu /\ last.scan = sc2
  OBVIOUS
<1> HIDE DEF T2, last, lu
<1>10. ASSUME NEW k \in 0..(n + 1) PROVE k <= T2[k].p /\ T2[k].scan <= T2[n + 1].scan
  <2>1. CASE k \in 0..n
    <3>1. T[k].scan \in Nat /\ T[k].scan <= sc /\ k <= T[k].p
      BY <1>2, <1>6, <2>1 DEF Place
    <3>2. T[k].scan <= sc2
      BY <1>5, <3>1
    <3> QED BY <1>6, <1>7, <1>9, <2>1, <3>1, <3>2
  <2>2. CASE k \notin 0..n
    <3>1. k = n + 1
      BY <1>2, <2>2
    <3>2. n + 1 <= lP + lu
      BY <1>2, <1>3, <1>5
    <3>3. k <= T2[k].p
      BY <1>7, <1>9, <3>1, <3>2
    <3> QED BY <1>7, <1>9, <3>1, <3>3
  <2> QED BY <2>1, <2>2
<1>11. ASSUME NEW k \in 0..n PROVE T2[k].scan < Len(w) /\ Piece(o, w, Q, T2[k], T2[k + 1])
  <2>1. CASE k = n
    <3>1. s \in Place
      BY DEF Place
    <3>2. Piece(o, w, Q, Moved(lP, s), Moved(lP, t))
      BY <1>3, <1>4, <3>1, PieceMoved
    <3>3. Moved(lP, s) = T[n] /\ Moved(lP, t) = last
      BY <1>1, <1>3 DEF Moved, last, lu
    <3>4. T2[k] = T[n] /\ T2[k + 1] = last
      BY <1>6, <1>7, <2>1
    <3>5. T[n].scan = sc
      BY <1>1
    <3> QED BY <3>2, <3>3, <3>4, <3>5
  <2>2. CASE k # n
    <3>1. k \in 0..(n - 1) /\ k + 1 \in 0..n /\ 0 \in Nat
      BY <1>2, <2>2
    <3>2. /\ Piece(o, w, P, T[k], T[k + 1]) /\ T[k] \in Place /\ T[k + 1] \in Place
          /\ T[k].scan < Len(w)
      BY <1>2, <3>1
    <3>3. Piece(o, w, Q, Moved(0, T[k]), Moved(0, T[k + 1]))
      BY <1>4, <3>1, <3>2, PieceMoved
    <3>4. \A r \in Place : Moved(0, r) = r
      BY DEF Moved, Place
    <3> QED BY <1>6, <3>1, <3>2, <3>3, <3>4
  <2> QED BY <2>1, <2>2
<1>12. Trace(o, w, Q, n + 1, T2)
  <2>1. (n + 1) - 1 = n
    BY <1>2
  <2>2. T2[n + 1].p = Len(Q)
    BY <1>4, <1>7, <1>9
  <2> QED BY <1>7, <1>8, <1>10, <1>11, <2>1, <2>2 DEF Trace
<1>13. T2[0] = [p |-> 0, oldpos |-> 0, scan |-> 0]
  <2>1. 0 \in 0..n
    BY <1>2
  <2> QED BY <1>1, <1>6, <2>1
<1>14. T2[n + 1] = [p |-> Len(Q), oldpos |-> op2, scan |-> sc2]
  BY <1>4, <1>7 DEF last
<1>15. Leads(o, w, Q, 0, op2, sc2)
  BY <1>12, <1>13, <1>14 DEF Leads
<1> QED BY <1>15 DEF Q

\* A header in front.
LEMMA LeadsBehind ==
  ASSUME NEW o \in Seq(Bytes), NEW w \in Seq(Bytes), NEW P \in Seq(Bytes), NEW h \in Seq(Bytes),
         NEW op, NEW sc, Leads(o, w, P, 0, op, sc)
  PROVE  Leads(o, w, h \o P, Len(h), op, sc)
<1> DEFINE Q == h \o P
           m == Len(h)
           lP == Len(P)
<1>1. PICK n, T : /\ Trace(o, w, P, n, T)
                  /\ T[0] = [p |-> 0, oldpos |-> 0, scan |-> 0]
                  /\ T[n] = [p |-> lP, oldpos |-> op, scan |-> sc]
  BY DEF Leads
<1>2. /\ n \in Nat /\ T \in [0..n -> Place]
      /\ \A k \in 0..n : k <= T[k].p /\ T[k].scan <= T[n].scan
      /\ \A k \in 0..(n - 1) : T[k].scan < Len(w) /\ Piece(o, w, P, T[k], T[k + 1])
  BY <1>1 DEF Trace
<1>3. lP \in Nat /\ m \in Nat
  OBVIOUS
<1>4. Q \in Seq(Bytes) /\ Len(Q) = m + lP /\ Holds(Q, m, P)
  <2>1. /\ Q \in Seq(Bytes) /\ Len(Q) = m + lP
        /\ \A i \in 1..lP : Q[m + i] = P[i]
    BY Join
  <2> HIDE DEF Q, m
  <2>2. m + lP <= m + lP
    BY <1>3
  <2> QED BY <2>1, <2>2 DEF Holds
<1> HIDE DEF Q, m, lP
<1> DEFINE T2 == [k \in 0..n |-> Moved(m, T[k])]
<1>5. ASSUME NEW k \in 0..n
      PROVE  /\ T2[k] = Moved(m, T[k]) /\ T[k] \in Place
             /\ T2[k].p = m + T[k].p /\ T2[k].scan = T[k].scan /\ T2[k] \in Place
             /\ T[k].p \in Nat
  <2> DEFINE r == T[k]
  <2>1. T2[k] = Moved(m, r) /\ r \in Place
    BY <1>2
  <2> HIDE DEF r, T2
  <2>2. r.p \in Nat /\ r.oldpos \in Nat /\ r.scan \in Nat
    BY <2>1 DEF Place
  <2>3. Moved(m, r) \in Place /\ Moved(m, r).p = m + r.p /\ Moved(m, r).scan = r.scan
    BY <1>3, <2>2 DEF Moved, Place
  <2> QED BY <2>1, <2>2, <2>3 DEF r
<1>6. T2 \in [0..n -> Place]
  <2>1. T2 = [k \in 0..n |-> T2[k]]
    OBVIOUS
  <2> HIDE DEF T2
  <2> QED BY <1>5, <2>1
<1> HIDE DEF T2
<1>7. n \in 0..n /\ 0 \in 0..n
  BY <1>2
<1>8. ASSUME NEW k \in 0..n PROVE k <= T2[k].p /\ T2[k].scan <= T2[n].scan
  <2>1. k <= T[k].p /\ T[k].scan <= T[n].scan
    BY <1>2
  <2>2. k <= m + T[k].p
    BY <1>3, <1>5, <2>1
  <2> QED BY <1>5, <1>7, <2>1, <2>2
<1>9. ASSUME NEW k \in 0..(n - 1) PROVE T2[k].scan < Len(w) /\ Piece(o, w, Q, T2[k], T2[k + 1])
  <2>1. k \in 0..n /\ k + 1 \in 0..n
    BY <1>2
  <2>2. T[k] \in Place /\ T2[k] = Moved(m, T[k]) /\ T2[k + 1] = Moved(m, T[k + 1])
    BY <1>5, <2>1
  <2>3. T[k].scan < Len(w) /\ Piece(o, w, P, T[k], T[k + 1])
    BY <1>2
  <2>4. Piece(o, w, Q, Moved(m, T[k]), Moved(m, T[k + 1]))
    BY <1>3, <1>4, <2>2, <2>3, PieceMoved
  <2> QED BY <1>5, <2>1, <2>2, <2>3, <2>4
<1>10. T2[n] = [p |-> Len(Q), oldpos |-> op, scan |-> sc]
  BY <1>1, <1>4, <1>5, <1>7 DEF Moved
<1>11. T2[0] = [p |-> m, oldpos |-> 0, scan |-> 0]
  BY <1>1, <1>3, <1>5, <1>7 DEF Moved
<1>12. Trace(o, w, Q, n, T2)
  <2>1. T2[n].p = Len(Q)
    BY <1>10
  <2> QED BY <1>2, <1>6, <1>8, <1>9, <2>1 DEF Trace
<1>13. Leads(o, w, Q, m, op, sc)
  BY <1>10, <1>11, <1>12 DEF Leads
<1> QED BY <1>13 DEF Q, m

\* What pipeline_diff_command writes.
IsPatch(o, w, P) ==
  /\ P \in Seq(Bytes) /\ MAGICLEN + OFFW <= Len(P)
  /\ \A i \in 1..MAGICLEN : P[i] = MAGIC
  /\ \A i \in 1..OFFW : P[MAGICLEN + i] = offtout(Len(w))[i]
  /\ \E op : Leads(o, w, P, MAGICLEN + OFFW, op, Len(w))

\* PatchedBy reads the size of the new image from the header.
LEMMA HeaderRead ==
  ASSUME NEW o \in Seq(Bytes), NEW w \in Seq(Bytes), NEW P \in Seq(Bytes), NEW op,
         Fits(Len(w)), Leads(o, w, P, 0, op, Len(w))
  PROVE  IsPatch(o, w, Header(w) \o P) /\ PatchedBy(o, Header(w) \o P) = w
<1> DEFINE magic == [k \in 1..MAGICLEN |-> MAGIC]
           num == offtout(Len(w))
           h == magic \o num
           Q == h \o P
           n == Len(w)
<1>1. /\ n \in Nat /\ n \in Int /\ MAGICLEN \in Nat /\ OFFW \in Nat \ {0} /\ n \in 0..n
      /\ ~(n < 0)
  BY BsdiffAssumption
<1>2. magic \in Seq(Bytes) /\ Len(magic) = MAGICLEN
  <2>1. MAGIC \in Bytes
    BY BsdiffAssumption DEF Bytes, Base
  <2>2. magic \in [1..MAGICLEN -> Bytes]
    BY <2>1
  <2> HIDE DEF magic
  <2> QED BY <1>1, <2>2
<1>3. num \in Seq(Bytes) /\ Len(num) = OFFW
  <2>1. num \in [1..OFFW -> Bytes]
    BY <1>1, Encoded
  <2> HIDE DEF num
  <2> QED BY <1>1, <2>1
<1>4. Header(w) = h
  BY DEF Header
<1> HIDE DEF magic, num
<1>5. /\ h \in Seq(Bytes) /\ Len(h) = MAGICLEN + OFFW
      /\ \A i \in 1..OFFW : h[MAGICLEN + i] = num[i]
      /\ \A i \in 1..MAGICLEN : h[i] = magic[i]
  BY <1>2, <1>3, Join
<1> HIDE DEF h
<1>6. /\ Q \in Seq(Bytes) /\ Len(Q) = Len(h) + Len(P)
      /\ \A i \in 1..Len(h) : Q[i] = h[i]
  BY <1>5, Join
<1>7. Leads(o, w, Q, MAGICLEN + OFFW, op, n)
  BY <1>5, LeadsBehind
<1> HIDE DEF Q
<1>8. MAGICLEN + OFFW <= Len(Q) /\ MAGICLEN + OFFW \in Nat /\ Len(Q) \in Nat
  <2>1. Len(P) \in Nat
    OBVIOUS
  <2> QED BY <1>1, <1>5, <1>6, <2>1
<1>9. \A i \in 1..OFFW : Q[MAGICLEN + i] = num[i]
  <2>1. \A i \in 1..OFFW : MAGICLEN + i \in 1..(MAGICLEN + OFFW)
    BY <1>1
  <2> QED BY <1>5, <1>6, <2>1
<1> HIDE DEF n
<1>10. Abs(n) = n
  BY <1>1 DEF Abs
<1>11. Fits(Abs(n)) /\ num = offtout(n)
  BY <1>10 DEF n, num
<1>12. offtin(SubSeq(Q, MAGICLEN + 1, MAGICLEN + OFFW)) = n
  BY <1>1, <1>6, <1>8, <1>9, <1>11, NumberRead
<1>13. bspatch(o, Q, n, MAGICLEN + OFFW) = SubSeq(w, 1, n)
  <2>1. n \in 0..Len(w)
    BY <1>1 DEF n
  <2> QED BY <1>6, <1>7, <1>8, <2>1, LeadsToPatch
<1>14. SubSeq(w, 1, n) = w
  BY DEF n
<1>15. ~(Len(Q) < MAGICLEN + OFFW)
  BY <1>8
<1>16. PatchedBy(o, Q) = w
  BY <1>1, <1>12, <1>13, <1>14, <1>15 DEF PatchedBy
<1>17. \A i \in 1..MAGICLEN : Q[i] = MAGIC
  <2>1. \A i \in 1..MAGICLEN : i \in 1..Len(h) /\ magic[i] = MAGIC
    BY <1>1, <1>5 DEF magic
  <2> QED BY <1>5, <1>6, <2>1
<1>18. IsPatch(o, w, Q)
  <2>1. Q \in Seq(Bytes) /\ Leads(o, w, Q, MAGICLEN + OFFW, op, Len(w))
    BY <1>6, <1>7 DEF n
  <2>2. \A i \in 1..OFFW : Q[MAGICLEN + i] = offtout(Len(w))[i]
    BY <1>9 DEF num, n
  <2> QED BY <1>8, <1>17, <2>1, <2>2, Zenon DEF IsPatch
<1> QED BY <1>4, <1>16, <1>18 DEF Q

----------------------------------------------------------------------------
(* The loop of bsdiff_internal.                                            *)

Images(o, w) ==
  /\ o \in Seq(Bytes) /\ w \in Seq(Bytes)
  /\ \A y \in 0..Len(o) : Fits(y)
  /\ \A y \in 0..Len(w) : Fits(y)

Shape(e) ==
  e = [scan |-> e.scan, scsc |-> e.scsc, oldscore |-> e.oldscore, len |-> e.len, pos |-> e.pos,
       lastscan |-> e.lastscan, lastpos |-> e.lastpos, lastoffset |-> e.lastoffset, out |-> e.out]

\* What was written leads to lastscan.
Traced(o, w, e) ==
  /\ Shape(e) /\ Aligned(o, w, e)
  /\ e.out \in Seq(Bytes) /\ Leads(o, w, e.out, 0, e.lastpos, e.lastscan)

\* While a match is looked for there is something left to write.
Scanning(o, w, e) == Traced(o, w, e) /\ e.lastscan < Len(w)

\* A match has been found at scan.
Found(o, w, e) ==
  Scanning(o, w, e) /\ e.scan < Len(w) /\ e.len \in Nat /\ e.scan + e.len <= Len(w)

\* At the head of the loop: when the loop ends, the entries reach the end.
Between(o, w, e) ==
  /\ Traced(o, w, e)
  /\ e.scan < Len(w) => e.len \in Nat /\ e.scan + e.len <= Len(w)
  /\ ~(e.scan < Len(w)) => e.lastscan = Len(w)

LEMMA DiffKeeps ==
  ASSUME NEW o, NEW w, Images(o, w), NEW e, Between(o, w, e), e.scan < Len(w)
  PROVE  Scanning(o, w, ScanStart(e))
<1> DEFINE g == ScanStart(e)
<1>1. Shape(e) /\ Traced(o, w, e) /\ e.len \in Nat /\ e.scan + e.len <= Len(w)
  BY DEF Between, Traced
<1>2. /\ Shape(g) /\ g.scan = e.scan + e.len /\ g.lastscan = e.lastscan /\ g.pos = e.pos
      /\ g.lastpos = e.lastpos /\ g.out = e.out
  <2> DEFINE reach == e.scan + e.len
  <2>1. g = [e EXCEPT !.scan = reach, !.scsc = reach, !.oldscore = 0]
    BY DEF ScanStart
  <2>2. reach = e.scan + e.len
    OBVIOUS
  <2> HIDE DEF g, reach
  <2> QED BY <1>1, <2>1, <2>2 DEF Shape
<1> HIDE DEF g
<1>3. Aligned(o, w, g)
  <2>1. Aligned(o, w, e) /\ Len(w) \in Nat
    BY <1>1 DEF Traced, Scanning, Images
  <2> QED BY <1>1, <1>2, <2>1 DEF Aligned
<1>4. g.lastscan < Len(w)
  BY <1>1, <1>2 DEF Traced, Aligned, Images
<1>5. Scanning(o, w, g)
  BY <1>1, <1>2, <1>3, <1>4 DEF Traced, Scanning
<1> QED BY <1>5 DEF g

LEMMA ScoredKeeps ==
  ASSUME NEW o, NEW w, Images(o, w), NEW A \in [0..Len(o) -> 0..Len(o)],
         NEW e, Scanning(o, w, e), e.scan < Len(w)
  PROVE  Found(o, w, Scored(A, o, w, e))
<1> DEFINE g == Scored(A, o, w, e)
           m == search(A, o, From(w, e.scan))
<1>1. Shape(e) /\ Aligned(o, w, e) /\ o \in Seq(Bytes) /\ w \in Seq(Bytes) /\ Len(w) \in Nat
  BY DEF Traced, Scanning, Images
<1>2. /\ Shape(g) /\ g.scan = e.scan /\ g.lastscan = e.lastscan /\ g.len = m.len /\ g.pos = m.pos
      /\ g.lastpos = e.lastpos /\ g.out = e.out
  <2> DEFINE gained == Cardinality({k \in e.scsc..(e.scan + m.len - 1) :
                                     Same(o, k + e.lastoffset, w, k)})
             reach == e.scan + m.len
  <2>1. g = [e EXCEPT !.len = m.len, !.pos = m.pos, !.oldscore = @ + gained,
                      !.scsc = IF @ < reach THEN reach ELSE @]
    BY DEF Scored
  <2> HIDE DEF g, gained, reach, m
  <2> QED BY <1>1, <2>1 DEF Shape
<1>3. e.scan \in 0..Len(w)
  BY <1>1 DEF Aligned
<1>4. From(w, e.scan) \in Seq(Bytes) /\ Len(From(w, e.scan)) = Len(w) - e.scan
  BY <1>1, <1>3, FromType
<1>5. m.pos \in 0..Len(o) /\ m.len \in 0..(Len(w) - e.scan)
  <2> DEFINE rest == From(w, e.scan)
  <2>1. rest \in Seq(Bytes) /\ Len(rest) = Len(w) - e.scan
    BY <1>4
  <2> HIDE DEF rest
  <2>2. search(A, o, rest).pos \in 0..Len(o) /\ search(A, o, rest).len \in 0..Len(rest)
    BY <1>1, <2>1, SearchBounds
  <2> QED BY <2>1, <2>2 DEF rest
<1> HIDE DEF g, m
<1>6. m.len \in Nat /\ e.scan + m.len <= Len(w)
  BY <1>1, <1>3, <1>5
<1>7. Aligned(o, w, g)
  BY <1>1, <1>2, <1>5 DEF Aligned
<1>8. Found(o, w, g)
  BY <1>2, <1>6, <1>7 DEF Found, Traced, Scanning
<1> QED BY <1>8 DEF g

LEMMA ScanOnKeeps ==
  ASSUME NEW o, NEW w, Images(o, w), NEW e, Found(o, w, e)
  PROVE  Scanning(o, w, ScanOn(o, w, e))
<1> DEFINE g == ScanOn(o, w, e)
<1>1. Shape(e) /\ Aligned(o, w, e) /\ Len(w) \in Nat /\ e.scan < Len(w)
  BY DEF Found, Traced, Scanning, Images
<1>2. /\ Shape(g) /\ g.scan = e.scan + 1 /\ g.lastscan = e.lastscan /\ g.pos = e.pos
      /\ g.lastpos = e.lastpos /\ g.out = e.out
  <2> DEFINE score == IF Same(o, e.scan + e.lastoffset, w, e.scan) THEN e.oldscore - 1
                      ELSE e.oldscore
             next == e.scan + 1
  <2>1. g = [e EXCEPT !.scan = next, !.oldscore = score]
    BY DEF ScanOn
  <2>2. next = e.scan + 1
    OBVIOUS
  <2> HIDE DEF g, score, next
  <2> QED BY <1>1, <2>1, <2>2 DEF Shape
<1> HIDE DEF g
<1>3. Aligned(o, w, g)
  BY <1>1, <1>2 DEF Aligned
<1>4. Scanning(o, w, g)
  BY <1>2, <1>3 DEF Found, Traced, Scanning
<1> QED BY <1>4 DEF g

LEMMA WriteKeeps ==
  ASSUME NEW o, NEW w, Images(o, w), NEW e,
         Found(o, w, e) \/ (Scanning(o, w, e) /\ ~(e.scan < Len(w)))
  PROVE  Between(o, w, DiffStep(o, w, e))
<1>1. Shape(e) /\ Aligned(o, w, e) /\ Scanning(o, w, e) /\ Len(w) \in Nat
  BY DEF Found, Traced, Scanning, Images
<1>2. e.scan \in Nat /\ e.scan <= Len(w)
  BY <1>1 DEF Aligned
<1>3. CASE e.len = e.oldscore /\ e.scan # Len(w)
  <2>1. DiffStep(o, w, e) = e
    BY <1>3 DEF DiffStep
  <2>2. e.scan < Len(w)
    BY <1>1, <1>2, <1>3
  <2>3. Found(o, w, e)
    BY <2>2
  <2> QED BY <2>1, <2>2, <2>3 DEF Between, Found, Scanning
<1>4. CASE ~(e.len = e.oldscore /\ e.scan # Len(w))
  <2> DEFINE x == Extend(o, w, e)
             u == Entry(o, w, e, x)
             g == DiffStep(o, w, e)
  <2>1. g = [e EXCEPT !.out = @ \o u, !.lastscan = e.scan - x.b, !.lastpos = e.pos - x.b,
                      !.lastoffset = e.pos - e.scan]
    BY <1>4 DEF DiffStep
  <2>2. /\ Shape(g) /\ g.scan = e.scan /\ g.lastscan = e.scan - x.b /\ g.len = e.len
        /\ g.pos = e.pos /\ g.lastpos = e.pos - x.b /\ g.out = e.out \o u
    <3> HIDE DEF g, u, x
    <3> QED BY <1>1, <2>1 DEF Shape
  <2>3. /\ x.b \in 0..e.pos /\ x.f \in Nat /\ x.f + x.b <= e.scan - e.lastscan
        /\ e.scan = Len(w) => x.b = 0
    <3>1. o \in Seq(Bytes) /\ w \in Seq(Bytes)
      BY DEF Images
    <3> QED BY <1>1, <3>1, ExtendBounds
  <2>4. /\ u \in Seq(Bytes)
        /\ Piece(o, w, u, [p |-> 0, oldpos |-> e.lastpos, scan |-> e.lastscan],
                 [p |-> Len(u), oldpos |-> e.pos - x.b, scan |-> e.scan - x.b])
    BY <1>1, EntryWritten DEF Images
  <2> HIDE DEF x, u, g
  <2>5. /\ e.pos \in 0..Len(o) /\ e.lastscan \in Nat /\ e.lastpos \in Nat
        /\ e.lastscan <= e.scan /\ Len(o) \in Nat
    BY <1>1 DEF Aligned, Images
  <2>6. /\ e.scan - x.b \in 0..e.scan /\ e.pos - x.b \in 0..Len(o)
        /\ e.scan - x.b \in Nat /\ e.pos - x.b \in Nat
    <3>1. x.b \in Nat /\ x.b <= e.pos /\ e.pos \in Nat /\ e.pos <= Len(o)
      BY <2>3, <2>5
    <3>2. x.b <= e.scan
      BY <1>2, <2>3, <2>5, <3>1
    <3> QED BY <1>2, <2>5, <3>1, <3>2
  <2>7. Aligned(o, w, g)
    BY <1>1, <2>2, <2>6 DEF Aligned
  <2>8. /\ g.out \in Seq(Bytes) /\ Leads(o, w, g.out, 0, g.lastpos, g.lastscan)
    <3>1. /\ e.out \in Seq(Bytes) /\ Leads(o, w, e.out, 0, e.lastpos, e.lastscan)
          /\ o \in Seq(Bytes) /\ w \in Seq(Bytes)
      BY DEF Images, Traced, Scanning, Found
    <3> DEFINE P == e.out
               op == e.lastpos
               sc == e.lastscan
               op2 == e.pos - x.b
               sc2 == e.scan - x.b
    <3>2. /\ P \in Seq(Bytes) /\ op \in Nat /\ sc \in Nat /\ op2 \in Nat /\ sc2 \in Nat
          /\ Leads(o, w, P, 0, op, sc) /\ sc < Len(w)
          /\ Piece(o, w, u, [p |-> 0, oldpos |-> op, scan |-> sc],
                   [p |-> Len(u), oldpos |-> op2, scan |-> sc2])
      BY <1>1, <2>4, <2>5, <2>6, <3>1 DEF Scanning
    <3> HIDE DEF P, op, sc, op2, sc2
    <3>3. Leads(o, w, P \o u, 0, op2, sc2)
      BY <2>4, <3>1, <3>2, LeadsOn
    <3>4. P \o u \in Seq(Bytes)
      BY <2>4, <3>2, Join
    <3> QED BY <2>2, <3>3, <3>4 DEF P, op2, sc2
  <2>9. Traced(o, w, g)
    BY <2>2, <2>7, <2>8 DEF Traced
  <2>10. g.scan < Len(w) => g.len \in Nat /\ g.scan + g.len <= Len(w)
    BY <2>2 DEF Found
  <2>11. ~(g.scan < Len(w)) => g.lastscan = Len(w)
    <3> SUFFICES ASSUME ~(g.scan < Len(w)) PROVE g.lastscan = Len(w)
      OBVIOUS
    <3>1. e.scan = Len(w)
      BY <1>1, <1>2, <2>2
    <3> QED BY <1>1, <2>2, <2>3, <3>1
  <2> QED BY <2>9, <2>10, <2>11 DEF Between, g
<1> QED BY <1>3, <1>4

----------------------------------------------------------------------------
(* The specification.                                                      *)

\* The inductive invariant: each point of the loop with what holds there.
DiffInv ==
  /\ chain \in {"delta", "patch"} =>
       Images(old, new) /\ SortSuffixes(old) \in [0..Len(old) -> 0..Len(old)]
  /\ phase \in {"sort", "diff", "scan", "extend"} => chain \in {"delta", "patch"}
  /\ phase \in {"diff", "scan", "extend"} => I \in [0..Len(old) -> 0..Len(old)]
  /\ phase = "sort" => d = DiffStart
  /\ phase = "diff" => Between(old, new, d)
  /\ phase = "scan" => Scanning(old, new, d)
  /\ phase = "extend" => Found(old, new, d)
  /\ phase \in {"compress", "receive"} /\ chain \in {"delta", "patch"}
       => IsPatch(old, new, patch)
  /\ ToolPatches

LEMMA ImagesOfPair ==
  ASSUME NEW pair \in Deltas \cup Pairs
  PROVE  /\ Images(pair[1], pair[2])
         /\ SortSuffixes(pair[1]) \in [0..Len(pair[1]) -> 0..Len(pair[1])]
<1>1. /\ pair[1] \in Seq(Bytes) /\ pair[2] \in Seq(Bytes)
      /\ SortSuffixes(pair[1]) \in [0..Len(pair[1]) -> 0..Len(pair[1])]
      /\ \A x \in 0..Len(pair[1]) : Quotients(x)[OFFW - 1] < Base \div 2
      /\ \A x \in 0..Len(pair[2]) : Quotients(x)[OFFW - 1] < Base \div 2
  BY ImagesAssumption
<1>2. Len(pair[1]) \in Nat /\ Len(pair[2]) \in Nat
  BY <1>1
<1> QED BY <1>1, <1>2 DEF Images, Fits

LEMMA StartIsBetween ==
  ASSUME NEW o, NEW w, Images(o, w)
  PROVE  Between(o, w, DiffStart)
<1> DEFINE e == DiffStart
<1>1. /\ Shape(e) /\ e.scan = 0 /\ e.len = 0 /\ e.pos = 0 /\ e.lastscan = 0 /\ e.lastpos = 0
      /\ e.out = <<>>
  BY DEF DiffStart, Shape
<1>2. Len(o) \in Nat /\ Len(w) \in Nat
  BY DEF Images
<1> HIDE DEF e
<1>3. Aligned(o, w, e)
  BY <1>1, <1>2 DEF Aligned
<1>4. e.out \in Seq(Bytes) /\ Leads(o, w, e.out, 0, e.lastpos, e.lastscan)
  BY <1>1, LeadsFirst
<1>5. Between(o, w, e)
  BY <1>1, <1>2, <1>3, <1>4 DEF Between, Traced, Scanning
<1> QED BY <1>5 DEF e

LEMMA InitDiff == Init => DiffInv
<1> SUFFICES ASSUME Init PROVE DiffInv
  OBVIOUS
<1>1. chain \in {"delta", "patch"} =>
        phase = "sort" /\ patch = <<>> /\ \E pair \in Deltas \cup Pairs : old = pair[1] /\ new = pair[2]
  BY DEF Init
<1>2. chain \notin {"delta", "patch"} => phase \in {"compress", "receive"}
  BY DEF Init
<1>3. chain \in {"delta", "patch"} =>
        Images(old, new) /\ SortSuffixes(old) \in [0..Len(old) -> 0..Len(old)]
  BY <1>1, ImagesOfPair
<1>4. d = DiffStart
  BY DEF Init
<1>5. ToolPatches
  BY <1>1 DEF ToolPatches
<1> QED BY <1>1, <1>2, <1>3, <1>4, <1>5 DEF DiffInv

\* The images and the patch stay as they are, whatever the phase.
LEMMA KeptDiff ==
  ASSUME DiffInv, UNCHANGED <<chain, old, new, patch>>
  PROVE  /\ chain' \in {"delta", "patch"} =>
              Images(old', new') /\ SortSuffixes(old') \in [0..Len(old') -> 0..Len(old')]
         /\ ToolPatches'
BY DEF DiffInv, ToolPatches

LEMMA NextDiff == DiffInv /\ [Next]_vars => DiffInv'
<1> SUFFICES ASSUME DiffInv, [Next]_vars PROVE DiffInv'
  OBVIOUS
<1> USE DEF DiffInv
<1>1. CASE Sort
  <2>1. /\ UNCHANGED <<chain, old, new, patch>> /\ phase = "sort" /\ phase' = "diff"
        /\ I' = SortSuffixes(old) /\ d' = d
    BY <1>1 DEF Sort
  <2>2. chain \in {"delta", "patch"} /\ Images(old, new)
        /\ I' \in [0..Len(old) -> 0..Len(old)] /\ d' = DiffStart
    BY <2>1
  <2>3. Between(old, new, d')
    BY <2>2, StartIsBetween
  <2> QED BY <2>1, <2>2, <2>3, KeptDiff
<1>2. CASE Diff
  <2>1. /\ UNCHANGED <<chain, old, new, patch, I>> /\ phase = "diff" /\ phase' = "scan"
        /\ d.scan < Len(new) /\ d' = ScanStart(d)
    BY <1>2 DEF Diff
  <2>2. Scanning(old, new, d')
    BY <2>1, DiffKeeps
  <2> QED BY <2>1, <2>2, KeptDiff
<1>3. CASE Scan
  <2> DEFINE g == Scored(I, old, new, d)
  <2>1. /\ UNCHANGED <<chain, old, new, patch, I>> /\ phase = "scan"
        /\ d.scan < Len(new)
        /\ \/ d' = g /\ phase' = "extend"
           \/ d' = ScanOn(old, new, g) /\ phase' = phase
    BY <1>3 DEF Scan
  <2>2. Found(old, new, g)
    BY <2>1, ScoredKeeps
  <2> HIDE DEF g
  <2>3. Scanning(old, new, ScanOn(old, new, g))
    BY <2>1, <2>2, ScanOnKeeps
  <2> QED BY <2>1, <2>2, <2>3, KeptDiff
<1>4. CASE Write
  <2>1. /\ UNCHANGED <<chain, old, new, patch, I>> /\ phase' = "diff"
        /\ phase = "extend" \/ (phase = "scan" /\ d.scan >= Len(new))
        /\ d' = DiffStep(old, new, d)
    BY <1>4 DEF Write
  <2>2. Images(old, new) /\ chain \in {"delta", "patch"} /\ phase \in {"scan", "extend"}
    BY <2>1
  <2>3. Found(old, new, d) \/ (Scanning(old, new, d) /\ ~(d.scan < Len(new)))
    <3>1. CASE phase = "scan" /\ d.scan >= Len(new)
      <4>1. d.scan \in Nat /\ Len(new) \in Nat
        BY <2>2, <3>1 DEF Traced, Scanning, Aligned, Images
      <4> QED BY <3>1, <4>1
    <3> QED BY <2>1, <3>1
  <2>4. Between(old, new, d')
    BY <2>1, <2>2, <2>3, WriteKeeps
  <2> QED BY <2>1, <2>2, <2>4, KeptDiff
<1>5. CASE Written
  <2>1. /\ UNCHANGED <<chain, old, new>> /\ phase = "diff" /\ phase' \in {"compress", "receive"}
        /\ d.scan >= Len(new) /\ patch' = Header(new) \o d.out
    BY <1>5 DEF Written
  <2>2. Images(old, new) /\ Between(old, new, d)
    BY <2>1
  <2>3. d.scan \in Nat /\ Len(new) \in Nat
    BY <2>2 DEF Between, Traced, Scanning, Aligned, Images
  <2>4. d.lastscan = Len(new)
    BY <2>1, <2>2, <2>3 DEF Between
  <2>5. /\ d.out \in Seq(Bytes) /\ Leads(old, new, d.out, 0, d.lastpos, Len(new))
        /\ Fits(Len(new)) /\ old \in Seq(Bytes) /\ new \in Seq(Bytes)
    <3>1. Len(new) \in 0..Len(new)
      BY <2>3
    <3> QED BY <2>2, <2>4, <3>1 DEF Between, Traced, Scanning, Images
  <2>6. IsPatch(old, new, patch') /\ PatchedBy(old, patch') = new
    BY <2>1, <2>5, HeaderRead
  <2>7. ToolPatches'
    BY <2>1, <2>6 DEF ToolPatches
  <2> QED BY <2>1, <2>2, <2>6, <2>7
<1>6. CASE Compress
  <2>1. UNCHANGED <<chain, old, new, patch>> /\ phase = "compress" /\ phase' = "compress"
    BY <1>6 DEF Compress
  <2> QED BY <2>1, KeptDiff
<1>7. CASE Flush
  <2>1. UNCHANGED <<chain, old, new, patch>> /\ phase = "compress" /\ phase' = "receive"
    BY <1>7 DEF Flush
  <2> QED BY <2>1, KeptDiff
<1>8. CASE Receive
  <2>1. UNCHANGED <<chain, old, new, patch>> /\ phase = "receive" /\ phase' = "receive"
    BY <1>8 DEF Receive, tool
  <2> QED BY <2>1, KeptDiff
<1>9. CASE UNCHANGED vars
  <2>1. UNCHANGED <<chain, old, new, patch, phase, I, d>>
    BY <1>9 DEF vars, tool
  <2> QED BY <2>1, KeptDiff
<1> QED BY <1>1, <1>2, <1>3, <1>4, <1>5, <1>6, <1>7, <1>8, <1>9 DEF Next

\* Every entry bsdiff_internal writes continues the patch without a gap or an
\* overlap, for all images: at every turn of the loop, what was written makes the
\* part of the new image before lastscan from the old one.
THEOREM DiffCorrect == Spec => []DiffSoFar
<1>1. DiffInv => DiffSoFar
  <2> SUFFICES ASSUME DiffInv, phase \in {"diff", "scan", "extend"}
               PROVE  bspatch(old, d.out, d.lastscan, 0) = SubSeq(new, 1, d.lastscan)
    BY DEF DiffSoFar
  <2>1. Traced(old, new, d) /\ Images(old, new)
    BY DEF DiffInv, Between, Found, Scanning
  <2>2. /\ old \in Seq(Bytes) /\ new \in Seq(Bytes) /\ d.out \in Seq(Bytes)
        /\ d.lastscan \in 0..Len(new) /\ Leads(old, new, d.out, 0, d.lastpos, d.lastscan)
    BY <2>1 DEF Traced, Scanning, Images, Aligned
  <2> QED BY <2>2, LeadsToPatch
<1> QED BY <1>1, InitDiff, NextDiff, PTL DEF Spec

\* The patch of pipeline_diff_command makes the new image from the old one, for all
\* images: bspatch of the tool, given the old image and the size that the header
\* says, finds every entry where bsdiff wrote it and ends with the last byte of the
\* new image.  How pipeline_patch_command loads the old image is not part of it.
THEOREM PatchCorrect == Spec => []ToolPatches
<1>1. DiffInv => ToolPatches
  BY DEF DiffInv
<1> QED BY <1>1, InitDiff, NextDiff, PTL DEF Spec

----------------------------------------------------------------------------
(* The numbers of a patch as the device reads them.                        *)

\* A number that leaves the sign bit of its first half free.
Small(y) == y \in Nat /\ Quotients(y)[OFFW \div 2 - 1] < Base \div 2

LEMMA HalfWidth ==
  OFFW \div 2 \in Nat \ {0} /\ OFFW = (OFFW \div 2) + (OFFW \div 2)
<1>1. OFFW \in Nat \ {0} /\ OFFW % 2 = 0
  BY BsdiffAssumption
<1> QED BY <1>1

LEMMA ZeroOnwards ==
  ASSUME NEW y \in Nat, NEW m \in Nat, Quotients(y)[m] < Base
  PROVE  \A k \in Nat : Quotients(y)[m + 1 + k] = 0
<1> DEFINE q == Quotients(y)
<1>1. q \in [Nat -> Nat] /\ \A k \in Nat : q[k + 1] = q[k] \div Base
  BY QuotientsUnfold
<1>2. Base \in Nat \ {0} /\ q[m] < Base
  BY BaseAssumption
<1> HIDE DEF q
<1>3. \A z \in Nat : z < Base => z \div Base = 0
  <2> SUFFICES ASSUME NEW z \in Nat, z < Base PROVE z \div Base = 0
    OBVIOUS
  <2> DEFINE b == Base
  <2>1. b \in Nat \ {0} /\ z < b
    BY <1>2
  <2> HIDE DEF b
  <2>2. z \div b = 0
    BY <2>1
  <2> QED BY <2>2 DEF b
<1> DEFINE T == {k \in Nat : q[m + 1 + k] = 0}
<1>4. 0 \in T
  <2>1. q[m + 1] = 0
    BY <1>1, <1>2, <1>3
  <2> QED BY <2>1
<1>5. ASSUME NEW k \in Nat, k \in T PROVE k + 1 \in T
  <2>1. m + 1 + k \in Nat /\ m + 1 + (k + 1) = (m + 1 + k) + 1
    OBVIOUS
  <2>2. q[m + 1 + (k + 1)] = q[m + 1 + k] \div Base
    BY <1>1, <2>1
  <2> QED BY <1>2, <1>3, <1>5, <2>2
<1>6. Nat \subseteq T
  <2> HIDE DEF T
  <2> QED BY <1>4, <1>5, Induction
<1> QED BY <1>6 DEF q

LEMMA CtrlDecoded ==
  ASSUME NEW x \in Int, Small(Abs(x)), NEW c, c = offtout(x)
  PROVE  CtrlValue(c) = x
<1> DEFINE q == Quotients(Abs(x))
           h == Base \div 2
           m == OFFW \div 2
           D == 0..(m - 1)
           E(v) == v = [k \in 0..(OFFW \div 2 - 1) |->
                          IF k = 0 THEN c[OFFW \div 2] ELSE v[k - 1] * Base + c[OFFW \div 2 - k]]
           g == [k \in D |-> q[m - 1 - k]]
           v == CHOOSE u : E(u)
<1>1. Abs(x) \in Nat /\ OFFW \in Nat \ {0} /\ m \in Nat \ {0} /\ OFFW = m + m
  BY BsdiffAssumption, HalfWidth DEF Abs
<1>2. /\ q \in [Nat -> Nat] /\ q[0] = Abs(x)
      /\ \A k \in Nat : q[k + 1] = q[k] \div Base
      /\ q[m - 1] < h
  BY <1>1, QuotientsUnfold DEF Small
<1>3. h \in Nat \ {0} /\ Base = h + h /\ Base \in Nat \ {0}
  BY Half, BaseAssumption
<1>4. q[OFFW - 1] = 0
  <2>1. m - 1 \in Nat /\ q[m - 1] \in Nat /\ (m - 1) + 1 + (m - 1) = OFFW - 1
    BY <1>1, <1>2
  <2>2. q[m - 1] < Base
    <3> HIDE DEF h, q, m
    <3> QED BY <1>2, <1>3, <2>1
  <2>3. \A k \in Nat : q[(m - 1) + 1 + k] = 0
    <3> HIDE DEF m
    <3> QED BY <1>1, <2>1, <2>2, ZeroOnwards
  <2>4. q[(m - 1) + 1 + (m - 1)] = 0
    BY <2>1, <2>3
  <2> HIDE DEF q, m
  <2> QED BY <2>1, <2>4
<1>5. /\ \A k \in 1..(OFFW - 1) : c[k] = q[k - 1] % Base
      /\ c[OFFW] = IF x < 0 THEN ((q[OFFW - 1] % Base) % h) + h ELSE q[OFFW - 1] % Base
  BY <1>1 DEF offtout, Abs
<1>6. CtrlValue(c) = LET y == IF c[m] >= h THEN v[m - 1] - Base^m ELSE v[m - 1]
                     IN  IF c[OFFW] >= h THEN -y ELSE y
  BY DEF CtrlValue, Low
<1> HIDE DEF q, v, h
<1>7. c[OFFW] >= h <=> x < 0
  <2>1. 0 % Base = 0 /\ 0 % h = 0
    BY <1>3, Remainder
  <2>2. c[OFFW] = IF x < 0 THEN 0 + h ELSE 0
    BY <1>4, <1>5, <2>1
  <2> QED BY <1>3, <2>2
<1>8. c[m] = q[m - 1] /\ ~(c[m] >= h)
  <2>1. m \in 1..(OFFW - 1) /\ m - 1 \in Nat /\ q[m - 1] \in Nat
    BY <1>1, <1>2
  <2>2. q[m - 1] \in 0..(Base - 1)
    BY <1>2, <1>3, <2>1
  <2>3. q[m - 1] % Base = q[m - 1]
    BY <1>3, <2>2, Remainder
  <2>4. c[m] = q[m - 1]
    BY <1>5, <2>1, <2>3
  <2> QED BY <1>2, <1>3, <2>1, <2>4
<1>9. ASSUME NEW k \in D, k # 0
      PROVE  q[m - 1 - k] = q[m - k] * Base + c[m - k]
  <2> DEFINE r == m - 1 - k
  <2>1. r \in Nat /\ r + 1 = m - k /\ m - k \in 1..(OFFW - 1) /\ (m - k) - 1 = r
    <3> HIDE DEF m
    <3> QED BY <1>1, <1>9
  <2>2. q[m - k] = q[r] \div Base /\ c[m - k] = q[r] % Base /\ q[r] \in Nat
    BY <1>2, <1>5, <2>1
  <2> HIDE DEF r
  <2>3. Base * (q[r] \div Base) + (q[r] % Base) = q[r] /\ q[r] \div Base \in Nat
    BY <1>3, <2>2, Division
  <2>4. (q[r] \div Base) * Base = Base * (q[r] \div Base)
    BY <1>3, <2>3
  <2> QED BY <2>2, <2>3, <2>4 DEF r
<1>10. E(g)
  <2>1. ASSUME NEW k \in D
        PROVE  g[k] = IF k = 0 THEN c[m] ELSE g[k - 1] * Base + c[m - k]
    <3>1. CASE k = 0
      <4>1. m - 1 - 0 = m - 1
        <5> HIDE DEF m
        <5> QED BY <1>1
      <4> QED BY <1>8, <3>1, <4>1
    <3>2. CASE k # 0
      <4>1. k - 1 \in D /\ m - 1 - (k - 1) = m - k
        <5> HIDE DEF m
        <5> QED BY <1>1, <3>2
      <4> QED BY <1>9, <3>2, <4>1
    <3> QED BY <3>1, <3>2
  <2> QED BY <2>1
<1>11. E(v)
  <2> HIDE DEF E, g
  <2> QED BY <1>10 DEF v
<1>12. \A k \in Nat : k \in D => v[k] = g[k]
  <2> DEFINE T == {k \in Nat : k \in D => v[k] = g[k]}
  <2>1. 0 \in T
    <3>1. 0 \in D
      <4> HIDE DEF m
      <4> QED BY <1>1
    <3> QED BY <1>10, <1>11, <3>1
  <2>2. ASSUME NEW k \in Nat, k \in T PROVE k + 1 \in T
    <3> SUFFICES ASSUME k + 1 \in D PROVE v[k + 1] = g[k + 1]
      OBVIOUS
    <3>1. k \in D /\ k + 1 # 0 /\ (k + 1) - 1 = k
      <4> HIDE DEF m
      <4> QED BY <1>1
    <3>2. v[k] = g[k]
      BY <2>2, <3>1
    <3>3. v[k + 1] = v[k] * Base + c[m - (k + 1)]
      BY <1>11, <3>1
    <3>4. g[k + 1] = g[k] * Base + c[m - (k + 1)]
      BY <1>10, <3>1
    <3> QED BY <3>2, <3>3, <3>4
  <2>3. Nat \subseteq T
    <3> HIDE DEF T
    <3> QED BY <2>1, <2>2, Induction
  <2> QED BY <2>3
<1>13. v[m - 1] = Abs(x)
  <2>1. m - 1 \in Nat /\ m - 1 \in D /\ m - 1 - (m - 1) = 0
    <3> HIDE DEF m
    <3> QED BY <1>1
  <2> QED BY <1>2, <1>12, <2>1
<1>14. CtrlValue(c) = IF x < 0 THEN -Abs(x) ELSE Abs(x)
  <2> HIDE DEF m
  <2> QED BY <1>6, <1>7, <1>8, <1>13
<1> QED BY <1>14 DEF Abs

----------------------------------------------------------------------------
(* The patching stage.  BsAt says where the coroutine is and what came out *)
(* of it once it has had the first m bytes of a patch.                     *)

\* From position b on, P makes the rest of the new image behind its first sc bytes,
\* with the old one at op.
RestAt(o, w, P, b, op, sc) ==
  \E n, T : \E k \in 0..n : /\ Trace(o, w, P, n, T)
                            /\ T[k] = [p |-> b, oldpos |-> op, scan |-> sc]
                            /\ T[n].scan = Len(w)

InEntry(o, w, P, b, op, sc, f, x, a) ==
  /\ b \in Nat /\ op \in Nat /\ sc \in Nat /\ f \in Nat /\ x \in Nat /\ a \in Int
  /\ EntryAt(o, w, P, b, op, sc, f, x, a)
  /\ RestAt(o, w, P, b + 3 * OFFW + f + x, op + f + a, sc + f + x)

LEMMA RestUnfold ==
  ASSUME NEW o, NEW w, NEW P, NEW b, NEW op, NEW sc, RestAt(o, w, P, b, op, sc)
  PROVE  /\ b \in Nat /\ op \in Nat /\ sc \in Nat
         /\ \/ sc = Len(w) /\ b = Len(P)
            \/ sc < Len(w) /\ \E f, x, a : InEntry(o, w, P, b, op, sc, f, x, a)
<1> DEFINE s == [p |-> b, oldpos |-> op, scan |-> sc]
<1>1. PICK n, T : \E k \in 0..n : /\ Trace(o, w, P, n, T) /\ T[k] = s /\ T[n].scan = Len(w)
  BY DEF RestAt
<1>2. PICK k \in 0..n : Trace(o, w, P, n, T) /\ T[k] = s /\ T[n].scan = Len(w)
  BY <1>1
<1>3. /\ n \in Nat /\ T \in [0..n -> Place] /\ T[n].p = Len(P)
      /\ \A i \in 0..(n - 1) : T[i].scan < Len(w) /\ Piece(o, w, P, T[i], T[i + 1])
  BY <1>2 DEF Trace
<1>4. s.p = b /\ s.oldpos = op /\ s.scan = sc
  OBVIOUS
<1> HIDE DEF s
<1>5. b \in Nat /\ op \in Nat /\ sc \in Nat
  <2>1. s \in Place
    BY <1>2, <1>3
  <2> QED BY <1>4, <2>1 DEF Place
<1>6. CASE k = n
  BY <1>2, <1>3, <1>4, <1>5, <1>6
<1>7. CASE k # n
  <2>1. k \in 0..(n - 1) /\ k + 1 \in 0..n
    BY <1>3, <1>7
  <2>2. T[k].scan < Len(w) /\ Piece(o, w, P, s, T[k + 1])
    BY <1>2, <1>3, <2>1
  <2>3. PICK f \in Nat, x \in Nat, a \in Int :
          /\ EntryAt(o, w, P, s.p, s.oldpos, s.scan, f, x, a)
          /\ T[k + 1] = [p |-> s.p + 3 * OFFW + f + x, oldpos |-> s.oldpos + f + a,
                         scan |-> s.scan + f + x]
    BY <2>2 DEF Piece
  <2>4. RestAt(o, w, P, b + 3 * OFFW + f + x, op + f + a, sc + f + x)
    BY <1>2, <1>4, <2>1, <2>3 DEF RestAt
  <2>5. InEntry(o, w, P, b, op, sc, f, x, a)
    BY <1>4, <1>5, <2>3, <2>4 DEF InEntry
  <2> QED BY <1>2, <1>4, <1>5, <2>2, <2>5
<1> QED BY <1>6, <1>7

IsBs(p) ==
  p = [at |-> p.at, j |-> p.j, c |-> p.c, ctrl |-> p.ctrl, newsize |-> p.newsize,
       i |-> p.i, oldpos |-> p.oldpos, newpos |-> p.newpos]

AtHeader(P, m, p, out) ==
  /\ p.at = "header" /\ p.j = m /\ m \in 0..(MAGICLEN + OFFW - 1)
  /\ p.newpos = 0 /\ p.oldpos = 0 /\ out = <<>>
  /\ p.c \in Seq(Bytes) /\ Len(p.c) = (IF m <= MAGICLEN THEN 0 ELSE m - MAGICLEN)
  /\ \A i \in 1..Len(p.c) : p.c[i] = P[MAGICLEN + i]

\* The number that starts at e is being read, and is the one after those in p.ctrl.
AtNumber(P, m, p, e) ==
  /\ p.c \in Seq(Bytes) /\ Len(p.c) < OFFW /\ m = e + Len(p.c)
  /\ \A i \in 1..Len(p.c) : p.c[i] = P[e + i]

AtCtrl(w, P, m, p, out, b, op, sc, f, x) ==
  /\ p.at = "ctrl" /\ p.newpos = sc /\ p.oldpos = op /\ out = SubSeq(w, 1, sc)
  /\ \/ p.ctrl = <<>> /\ AtNumber(P, m, p, b)
     \/ p.ctrl = <<f>> /\ AtNumber(P, m, p, b + OFFW)
     \/ p.ctrl = <<f, x>> /\ AtNumber(P, m, p, b + 2 * OFFW)

AtDiff(w, m, p, out, b, op, sc, f, x, a) ==
  /\ p.at = "diff" /\ p.newpos = sc /\ p.oldpos = op /\ p.ctrl = <<f, x, a>>
  /\ p.i \in Nat /\ p.i < f /\ m = b + 3 * OFFW + p.i
  /\ out = SubSeq(w, 1, sc + p.i)

AtExtra(w, m, p, out, b, op, sc, f, x, a) ==
  /\ p.at = "extra" /\ p.newpos = sc + f /\ p.oldpos = op + f /\ p.ctrl = <<f, x, a>>
  /\ p.i \in Nat /\ p.i < x /\ m = b + 3 * OFFW + f + p.i
  /\ out = SubSeq(w, 1, sc + f + p.i)

BsAt(o, w, P, m, p, out) ==
  /\ IsBs(p)
  /\ \/ AtHeader(P, m, p, out)
     \/ /\ p.newsize = Len(w)
        /\ \E b, op, sc, f, x, a :
             /\ InEntry(o, w, P, b, op, sc, f, x, a)
             /\ \/ AtCtrl(w, P, m, p, out, b, op, sc, f, x)
                \/ AtDiff(w, m, p, out, b, op, sc, f, x, a)
                \/ AtExtra(w, m, p, out, b, op, sc, f, x, a)
     \/ p.at = "finish" /\ m = Len(P) /\ out = w

\* At the head of the loop.
LEMMA AtNextEntry ==
  ASSUME NEW o, NEW w \in Seq(Bytes), NEW P \in Seq(Bytes), NEW m, NEW op, NEW sc,
         RestAt(o, w, P, m, op, sc), NEW p, IsBs(p), p.newsize = Len(w),
         p.newpos = sc, p.oldpos = op
  PROVE  BsAt(o, w, P, m, NextEntry(p), SubSeq(w, 1, sc))
<1> DEFINE q == NextEntry(p)
           to == IF p.newpos < p.newsize THEN "ctrl" ELSE "finish"
           out == SubSeq(w, 1, sc)
<1>1. q = [p EXCEPT !.at = to, !.c = <<>>, !.ctrl = <<>>, !.i = 0]
  BY DEF NextEntry
<1>2. to = IF sc < Len(w) THEN "ctrl" ELSE "finish"
  OBVIOUS
<1> HIDE DEF q, to
<1>3. /\ IsBs(q) /\ q.at = to /\ q.c = <<>> /\ q.ctrl = <<>> /\ q.newsize = Len(w)
      /\ q.newpos = sc /\ q.oldpos = op
  BY <1>1 DEF IsBs
<1>4. /\ m \in Nat /\ op \in Nat /\ sc \in Nat
      /\ \/ sc = Len(w) /\ m = Len(P)
         \/ sc < Len(w) /\ \E f, x, a : InEntry(o, w, P, m, op, sc, f, x, a)
  BY RestUnfold
<1>5. CASE sc = Len(w) /\ m = Len(P)
  <2>1. to = "finish" /\ out = w
    BY <1>2, <1>4, <1>5
  <2>2. BsAt(o, w, P, m, q, out)
    BY <1>3, <1>5, <2>1, Zenon DEF BsAt
  <2> QED BY <2>2 DEF q
<1>6. CASE sc < Len(w) /\ \E f, x, a : InEntry(o, w, P, m, op, sc, f, x, a)
  <2>1. PICK f, x, a : InEntry(o, w, P, m, op, sc, f, x, a)
    BY <1>6
  <2>2. to = "ctrl"
    BY <1>2, <1>6
  <2>3. AtCtrl(w, P, m, q, out, m, op, sc, f, x)
    <3>1. Len(<<>>) = 0 /\ <<>> \in Seq(Bytes) /\ 0 < OFFW /\ m = m + 0 /\ 1..0 = {}
      BY <1>4, BsdiffAssumption
    <3>2. q.c \in Seq(Bytes) /\ Len(q.c) < OFFW /\ m = m + Len(q.c)
      BY <1>3, <3>1, Zenon
    <3>3. \A i \in 1..Len(q.c) : q.c[i] = P[m + i]
      BY <1>3, <3>1
    <3>4. AtNumber(P, m, q, m)
      BY <3>2, <3>3 DEF AtNumber
    <3> QED BY <1>3, <2>2, <3>4 DEF AtCtrl
  <2>4. BsAt(o, w, P, m, q, out)
    BY <1>3, <2>1, <2>3, Zenon DEF BsAt
  <2> QED BY <2>4 DEF q
<1> QED BY <1>4, <1>5, <1>6

\* What an entry has to do with the images.
LEMMA EntryBounds ==
  ASSUME NEW o \in Seq(Bytes), NEW w \in Seq(Bytes), NEW P \in Seq(Bytes), NEW b, NEW op, NEW sc,
         NEW f, NEW x, NEW a, InEntry(o, w, P, b, op, sc, f, x, a)
  PROVE  /\ b \in Nat /\ op \in Nat /\ sc \in Nat /\ f \in Nat /\ x \in Nat /\ a \in Int
         /\ OFFW \in Nat \ {0} /\ Len(o) \in Nat /\ Len(w) \in Nat /\ Len(P) \in Nat
         /\ b + 3 * OFFW + f + x <= Len(P) /\ sc + f + x <= Len(w) /\ op + f <= Len(o)
BY BsdiffAssumption DEF InEntry, EntryAt

\* The head of the loop over the extra bytes, with p.i of them moved.
LEMMA AtInExtra ==
  ASSUME NEW o \in Seq(Bytes), NEW w \in Seq(Bytes), NEW P \in Seq(Bytes), NEW b, NEW op, NEW sc,
         NEW f, NEW x, NEW a, InEntry(o, w, P, b, op, sc, f, x, a),
         NEW p, IsBs(p), p.newsize = Len(w), p.newpos = sc + f, p.oldpos = op + f,
         p.ctrl = <<f, x, a>>, NEW n \in Nat, p.i = n, n <= x
  PROVE  BsAt(o, w, P, b + 3 * OFFW + f + n, InExtra(p), SubSeq(w, 1, sc + f + n))
<1>1. /\ b \in Nat /\ op \in Nat /\ sc \in Nat /\ f \in Nat /\ x \in Nat /\ a \in Int
      /\ OFFW \in Nat \ {0} /\ Len(w) \in Nat /\ sc + f + x <= Len(w)
  BY EntryBounds
<1>2. p.ctrl[2] = x /\ p.ctrl[3] = a
  OBVIOUS
<1> DEFINE m == b + 3 * OFFW + f + n
           out == SubSeq(w, 1, sc + f + n)
<1>3. CASE n < x
  <2> DEFINE q == [p EXCEPT !.at = "extra"]
  <2>1. InExtra(p) = q
    BY <1>2, <1>3 DEF InExtra
  <2>q. q = [p EXCEPT !.at = "extra"]
    OBVIOUS
  <2> HIDE DEF q
  <2>2. /\ IsBs(q) /\ q.at = "extra" /\ q.newsize = Len(w) /\ q.newpos = sc + f
        /\ q.oldpos = op + f /\ q.ctrl = <<f, x, a>> /\ q.i = n
    BY <2>q DEF IsBs
  <2>3. AtExtra(w, m, q, out, b, op, sc, f, x, a)
    BY <1>3, <2>2 DEF AtExtra
  <2> HIDE DEF m, out
  <2>4. BsAt(o, w, P, m, q, out)
    BY <2>2, <2>3, Zenon DEF BsAt
  <2> QED BY <2>1, <2>4 DEF m, out
<1>4. CASE ~(n < x)
  <2> DEFINE q == [p EXCEPT !.newpos = @ + x, !.oldpos = @ + a]
  <2>1. InExtra(p) = NextEntry(q)
    BY <1>2, <1>4 DEF InExtra
  <2>2. n = x
    BY <1>1, <1>4
  <2>q. q = [p EXCEPT !.newpos = p.newpos + x, !.oldpos = p.oldpos + a]
    OBVIOUS
  <2> HIDE DEF q
  <2>3. IsBs(q) /\ q.newsize = Len(w) /\ q.newpos = sc + f + x /\ q.oldpos = op + f + a
    BY <2>q DEF IsBs
  <2>4. RestAt(o, w, P, m, op + f + a, sc + f + x)
    BY <2>2 DEF InEntry
  <2> HIDE DEF m
  <2>5. BsAt(o, w, P, m, NextEntry(q), SubSeq(w, 1, sc + f + x))
    BY <2>3, <2>4, AtNextEntry
  <2> QED BY <2>1, <2>2, <2>5 DEF m
<1> QED BY <1>3, <1>4

\* The head of the loop over the differences.
LEMMA AtInDiff ==
  ASSUME NEW o \in Seq(Bytes), NEW w \in Seq(Bytes), NEW P \in Seq(Bytes), NEW b, NEW op, NEW sc,
         NEW f, NEW x, NEW a, InEntry(o, w, P, b, op, sc, f, x, a),
         NEW p, IsBs(p), p.newsize = Len(w), p.newpos = sc, p.oldpos = op,
         p.ctrl = <<f, x, a>>, NEW n \in Nat, p.i = n, n <= f
  PROVE  BsAt(o, w, P, b + 3 * OFFW + n, InDiff(p), SubSeq(w, 1, sc + n))
<1>1. /\ b \in Nat /\ op \in Nat /\ sc \in Nat /\ f \in Nat /\ x \in Nat /\ a \in Int
      /\ OFFW \in Nat \ {0} /\ Len(w) \in Nat /\ sc + f + x <= Len(w)
  BY EntryBounds
<1>2. p.ctrl[1] = f /\ p.ctrl[2] = x
  OBVIOUS
<1> DEFINE m == b + 3 * OFFW + n
           out == SubSeq(w, 1, sc + n)
<1>3. CASE n < f
  <2> DEFINE q == [p EXCEPT !.at = "diff"]
  <2>1. InDiff(p) = q
    BY <1>2, <1>3 DEF InDiff
  <2>q. q = [p EXCEPT !.at = "diff"]
    OBVIOUS
  <2> HIDE DEF q
  <2>2. /\ IsBs(q) /\ q.at = "diff" /\ q.newsize = Len(w) /\ q.newpos = sc
        /\ q.oldpos = op /\ q.ctrl = <<f, x, a>> /\ q.i = n
    BY <2>q DEF IsBs
  <2>3. AtDiff(w, m, q, out, b, op, sc, f, x, a)
    BY <1>3, <2>2 DEF AtDiff
  <2> HIDE DEF m, out
  <2>4. BsAt(o, w, P, m, q, out)
    BY <2>2, <2>3, Zenon DEF BsAt
  <2> QED BY <2>1, <2>4 DEF m, out
<1>4. CASE ~(n < f)
  <2> DEFINE q == [p EXCEPT !.newpos = @ + f, !.oldpos = @ + f, !.i = 0]
  <2>1. n = f
    BY <1>1, <1>4
  <2>q. q = [p EXCEPT !.newpos = p.newpos + f, !.oldpos = p.oldpos + f, !.i = 0]
    OBVIOUS
  <2>2. /\ IsBs(q) /\ q.newsize = Len(w) /\ q.newpos = sc + f /\ q.oldpos = op + f
        /\ q.ctrl = <<f, x, a>> /\ q.i = 0
    <3> HIDE DEF q
    <3> QED BY <2>q DEF IsBs
  <2>3. InDiff(p) = InExtra(q)
    <3>1. ~(q.newpos + x > p.newsize)
      <4> HIDE DEF q
      <4> QED BY <1>1, <2>2
    <3> QED BY <1>2, <1>4, <3>1 DEF InDiff
  <2> HIDE DEF q
  <2>4. 0 \in Nat /\ 0 <= x /\ b + 3 * OFFW + f + 0 = m /\ sc + f + 0 = sc + n
    BY <1>1, <2>1
  <2> HIDE DEF m
  <2>5. BsAt(o, w, P, b + 3 * OFFW + f + 0, InExtra(q), SubSeq(w, 1, sc + f + 0))
    BY <2>2, <2>4, AtInExtra
  <2> QED BY <2>3, <2>4, <2>5 DEF m
<1> QED BY <1>3, <1>4

LEMMA AtCtrlRead ==
  ASSUME NEW o \in Seq(Bytes), NEW w \in Seq(Bytes), NEW P \in Seq(Bytes), NEW b, NEW op, NEW sc,
         NEW f, NEW x, NEW a, InEntry(o, w, P, b, op, sc, f, x, a),
         NEW p, IsBs(p), p.newsize = Len(w), p.newpos = sc, p.oldpos = op,
         p.ctrl = <<f, x, a>>
  PROVE  BsAt(o, w, P, b + 3 * OFFW, CtrlRead(p), SubSeq(w, 1, sc))
<1>1. /\ b \in Nat /\ op \in Nat /\ sc \in Nat /\ f \in Nat /\ x \in Nat /\ a \in Int
      /\ OFFW \in Nat \ {0} /\ Len(w) \in Nat /\ sc + f + x <= Len(w)
  BY EntryBounds
<1> DEFINE q == [p EXCEPT !.i = 0]
<1>2. CtrlRead(p) = InDiff(q)
  <2>1. p.ctrl[1] = f /\ ~(sc + f > Len(w))
    BY <1>1
  <2> QED BY <2>1 DEF CtrlRead
<1>3. /\ IsBs(q) /\ q.newsize = Len(w) /\ q.newpos = sc /\ q.oldpos = op
      /\ q.ctrl = <<f, x, a>> /\ q.i = 0
  <2>1. q = [p EXCEPT !.i = 0]
    OBVIOUS
  <2> HIDE DEF q
  <2> QED BY <2>1 DEF IsBs
<1> HIDE DEF q
<1>4. 0 \in Nat /\ 0 <= f /\ b + 3 * OFFW + 0 = b + 3 * OFFW /\ sc + 0 = sc
  BY <1>1
<1>5. BsAt(o, w, P, b + 3 * OFFW + 0, InDiff(q), SubSeq(w, 1, sc + 0))
  BY <1>3, <1>4, AtInDiff
<1> QED BY <1>2, <1>4, <1>5

SmallImages(o, w) == (\A y \in 0..Len(o) : Small(y)) /\ (\A y \in 0..Len(w) : Small(y))

LEMMA Appended ==
  ASSUME NEW c \in Seq(Bytes), NEW byte \in Bytes
  PROVE  /\ Append(c, byte) \in Seq(Bytes) /\ Len(Append(c, byte)) = Len(c) + 1
         /\ \A i \in 1..Len(c) : Append(c, byte)[i] = c[i]
         /\ Append(c, byte)[Len(c) + 1] = byte
OBVIOUS

\* The byte that completes a number.
LEMMA NumberDone ==
  ASSUME NEW P \in Seq(Bytes), NEW b \in Nat, b + OFFW <= Len(P), NEW x \in Int, Small(Abs(x)),
         \A i \in 1..OFFW : P[b + i] = offtout(x)[i],
         NEW c \in Seq(Bytes), Len(c) = OFFW - 1, \A i \in 1..Len(c) : c[i] = P[b + i]
  PROVE  CtrlValue(Append(c, P[b + OFFW])) = x
<1> DEFINE byte == P[b + OFFW]
           e == Append(c, byte)
<1>1. OFFW \in Nat \ {0}
  BY BsdiffAssumption
<1>2. b + OFFW \in 1..Len(P)
  BY <1>1
<1>3. byte \in Bytes
  BY <1>2
<1>4. /\ e \in Seq(Bytes) /\ Len(e) = OFFW
      /\ \A i \in 1..(OFFW - 1) : e[i] = P[b + i]
      /\ e[OFFW] = P[b + OFFW]
  <2> HIDE DEF byte
  <2>1. /\ e \in Seq(Bytes) /\ Len(e) = Len(c) + 1
        /\ \A i \in 1..Len(c) : e[i] = c[i]
        /\ e[Len(c) + 1] = byte
    BY <1>3, Appended
  <2>2. Len(c) + 1 = OFFW
    BY <1>1
  <2> HIDE DEF e
  <2> QED BY <2>1, <2>2 DEF byte
<1> HIDE DEF e, byte
<1>5. \A i \in 1..OFFW : e[i] = offtout(x)[i]
  <2> SUFFICES ASSUME NEW i \in 1..OFFW PROVE e[i] = offtout(x)[i]
    OBVIOUS
  <2>1. i \in 1..(OFFW - 1) \/ i = OFFW
    BY <1>1
  <2> QED BY <1>4, <2>1
<1>6. offtout(x) \in [1..OFFW -> Bytes]
  BY Encoded
<1>7. e = offtout(x)
  BY <1>1, <1>4, <1>5, <1>6
<1>8. CtrlValue(e) = x
  BY <1>7, CtrlDecoded
<1> QED BY <1>8 DEF e, byte

LEMMA BsFacts ==
  ASSUME NEW o \in Seq(Bytes), NEW w \in Seq(Bytes), NEW P, IsPatch(o, w, P), NEW m, NEW p,
         NEW out, BsAt(o, w, P, m, p, out)
  PROVE  /\ p.at # "insane" /\ m \in Nat /\ m <= Len(P)
         /\ m = Len(P) <=> p.at = "finish"
         /\ m = Len(P) => out = w
         /\ \E n \in 0..Len(w) : out = SubSeq(w, 1, n)
<1>1. /\ P \in Seq(Bytes) /\ MAGICLEN + OFFW <= Len(P) /\ MAGICLEN \in Nat /\ OFFW \in Nat \ {0}
      /\ Len(P) \in Nat /\ Len(w) \in Nat
  BY BsdiffAssumption DEF IsPatch
<1>2. CASE AtHeader(P, m, p, out)
  <2>1. p.at = "header" /\ m \in Nat /\ m < MAGICLEN + OFFW /\ out = <<>>
    BY <1>1, <1>2 DEF AtHeader
  <2>2. <<>> = SubSeq(w, 1, 0) /\ 0 \in 0..Len(w)
    BY <1>1
  <2> QED BY <1>1, <2>1, <2>2
<1>3. ASSUME NEW b, NEW op, NEW sc, NEW f, NEW x, NEW a, InEntry(o, w, P, b, op, sc, f, x, a),
             \/ AtCtrl(w, P, m, p, out, b, op, sc, f, x)
             \/ AtDiff(w, m, p, out, b, op, sc, f, x, a)
             \/ AtExtra(w, m, p, out, b, op, sc, f, x, a)
      PROVE  /\ p.at \notin {"insane", "finish"} /\ m \in Nat /\ m < Len(P)
             /\ \E n \in 0..Len(w) : out = SubSeq(w, 1, n)
  <2>1. /\ b \in Nat /\ op \in Nat /\ sc \in Nat /\ f \in Nat /\ x \in Nat
        /\ b + 3 * OFFW + f + x <= Len(P) /\ sc + f + x <= Len(w)
    BY <1>1, <1>3, EntryBounds
  <2>2. CASE AtCtrl(w, P, m, p, out, b, op, sc, f, x)
    <3>1. p.at = "ctrl" /\ out = SubSeq(w, 1, sc) /\ sc \in 0..Len(w)
      BY <1>1, <2>1, <2>2 DEF AtCtrl
    <3>2. AtNumber(P, m, p, b) \/ AtNumber(P, m, p, b + OFFW) \/ AtNumber(P, m, p, b + 2 * OFFW)
      BY <2>2, Zenon DEF AtCtrl
    <3>3. PICK e \in {b, b + OFFW, b + 2 * OFFW} : AtNumber(P, m, p, e)
      BY <3>2
    <3> DEFINE r == Len(p.c)
    <3>r. r \in Nat /\ r < OFFW /\ m = e + r
      BY <3>3 DEF AtNumber
    <3> HIDE DEF r
    <3>4. m \in Nat /\ m < b + 3 * OFFW
      BY <1>1, <2>1, <3>3, <3>r
    <3>5. m < Len(P)
      BY <1>1, <2>1, <3>4
    <3> QED BY <3>1, <3>4, <3>5
  <2>3. CASE AtDiff(w, m, p, out, b, op, sc, f, x, a)
    <3> DEFINE n == p.i
    <3>1. /\ p.at \notin {"insane", "finish"} /\ n \in Nat /\ n < f /\ m = b + 3 * OFFW + n
          /\ out = SubSeq(w, 1, sc + n)
      BY <2>3 DEF AtDiff
    <3> HIDE DEF n
    <3>2. m \in Nat /\ m < Len(P) /\ sc + n \in 0..Len(w)
      BY <1>1, <2>1, <3>1
    <3> QED BY <3>1, <3>2
  <2>4. CASE AtExtra(w, m, p, out, b, op, sc, f, x, a)
    <3> DEFINE n == p.i
    <3>1. /\ p.at \notin {"insane", "finish"} /\ n \in Nat /\ n < x /\ m = b + 3 * OFFW + f + n
          /\ out = SubSeq(w, 1, sc + f + n)
      BY <2>4 DEF AtExtra
    <3> HIDE DEF n
    <3>2. m \in Nat /\ m < Len(P) /\ sc + f + n \in 0..Len(w)
      BY <1>1, <2>1, <3>1
    <3> QED BY <3>1, <3>2
  <2> QED BY <1>3, <2>2, <2>3, <2>4
<1>4. CASE p.at = "finish" /\ m = Len(P) /\ out = w
  <2>1. out = SubSeq(w, 1, Len(w)) /\ Len(w) \in 0..Len(w)
    BY <1>1, <1>4
  <2>2. \E n \in 0..Len(w) : out = SubSeq(w, 1, n)
    BY <2>1, Zenon
  <2>3. m <= Len(P)
    BY <1>1, <1>4
  <2> QED BY <1>1, <1>4, <2>2, <2>3
<1>5. CASE \E b, op, sc, f, x, a :
             /\ InEntry(o, w, P, b, op, sc, f, x, a)
             /\ \/ AtCtrl(w, P, m, p, out, b, op, sc, f, x)
                \/ AtDiff(w, m, p, out, b, op, sc, f, x, a)
                \/ AtExtra(w, m, p, out, b, op, sc, f, x, a)
  <2>1. /\ p.at \notin {"insane", "finish"} /\ m \in Nat /\ m < Len(P)
        /\ \E n \in 0..Len(w) : out = SubSeq(w, 1, n)
    BY <1>3, <1>5
  <2> QED BY <1>1, <2>1
<1> QED BY <1>2, <1>4, <1>5 DEF BsAt

\* What one byte has to do.
StepOK(o, w, P, m, g, out) == ~g.err /\ BsAt(o, w, P, m + 1, g.p, out \o g.emit)

\* Most bytes are only taken.
LEMMA Taken ==
  ASSUME NEW o \in Seq(Bytes), NEW w \in Seq(Bytes), NEW P, IsPatch(o, w, P), NEW m,
         NEW q, NEW out, BsAt(o, w, P, m + 1, q, out),
         NEW g, g = [p |-> q, emit |-> <<>>, err |-> q.at = "insane"]
  PROVE  StepOK(o, w, P, m, g, out)
<1>1. q.at # "insane" /\ \E n \in 0..Len(w) : out = SubSeq(w, 1, n)
  BY BsFacts
<1>2. out \in Seq(Bytes)
  BY <1>1, Prefix
<1>3. out \o <<>> = out
  BY <1>2
<1>4. g.p = q /\ g.emit = <<>> /\ g.err = FALSE
  BY <1>1
<1> QED BY <1>3, <1>4 DEF StepOK

LEMMA StepHeader ==
  ASSUME NEW o \in Seq(Bytes), NEW w \in Seq(Bytes), NEW P, IsPatch(o, w, P), SmallImages(o, w),
         NEW m, NEW p, NEW out, IsBs(p), AtHeader(P, m, p, out)
  PROVE  StepOK(o, w, P, m, PatchByte(p, o, TRUE, P[m + 1]), out)
<1> DEFINE byte == P[m + 1]
           c == Append(p.c, byte)
           g == PatchByte(p, o, TRUE, byte)
<1>1. /\ P \in Seq(Bytes) /\ MAGICLEN + OFFW <= Len(P) /\ MAGICLEN \in Nat \ {0}
      /\ OFFW \in Nat \ {0} /\ Len(P) \in Nat /\ Len(w) \in Nat
  BY BsdiffAssumption DEF IsPatch
<1>2. /\ p.at = "header" /\ p.j = m /\ m \in Nat /\ m < MAGICLEN + OFFW
      /\ p.newpos = 0 /\ p.oldpos = 0 /\ out = <<>>
      /\ p.c \in Seq(Bytes) /\ Len(p.c) = (IF m <= MAGICLEN THEN 0 ELSE m - MAGICLEN)
      /\ \A i \in 1..Len(p.c) : p.c[i] = P[MAGICLEN + i]
  BY <1>1 DEF AtHeader
<1>3. byte \in Bytes
  <2>1. m + 1 \in 1..Len(P)
    BY <1>1, <1>2
  <2> QED BY <1>1, <2>1
<1>4. p.j < MAGICLEN => byte = MAGIC
  <2>1. m < MAGICLEN => m + 1 \in 1..MAGICLEN
    BY <1>1, <1>2
  <2> QED BY <1>2, <2>1 DEF IsPatch
<1> HIDE DEF byte
<1>5. /\ c \in Seq(Bytes) /\ Len(c) = Len(p.c) + 1
      /\ \A i \in 1..Len(p.c) : c[i] = p.c[i]
      /\ c[Len(p.c) + 1] = byte
  BY <1>2, <1>3, Appended
<1>6. CASE m < MAGICLEN + OFFW - 1
  <2> DEFINE e == IF p.j < MAGICLEN THEN <<>> ELSE c
             q == [p EXCEPT !.j = @ + 1, !.c = e]
  <2>1. g = [p |-> q, emit |-> <<>>, err |-> q.at = "insane"]
    <3>1. p.j < MAGICLEN + OFFW - 1
      BY <1>2, <1>6
    <3> QED BY <1>2, <1>4, <3>1 DEF PatchByte
  <2>2. e = IF m < MAGICLEN THEN <<>> ELSE c
    BY <1>2
  <2>3. q = [p EXCEPT !.j = p.j + 1, !.c = e]
    OBVIOUS
  <2> HIDE DEF q, e, c, g
  <2>4. IsBs(q) /\ q.at = "header" /\ q.j = m + 1 /\ q.c = e /\ q.newpos = 0 /\ q.oldpos = 0
    BY <1>2, <2>3 DEF IsBs
  <2>5. /\ e \in Seq(Bytes) /\ Len(e) = (IF m + 1 <= MAGICLEN THEN 0 ELSE (m + 1) - MAGICLEN)
        /\ \A i \in 1..Len(e) : e[i] = P[MAGICLEN + i]
    <3>1. CASE m < MAGICLEN
      <4>1. e = <<>>
        BY <2>2, <3>1
      <4>2. e \in Seq(Bytes) /\ Len(e) = 0 /\ 1..0 = {} /\ m + 1 <= MAGICLEN
        BY <1>1, <1>2, <3>1, <4>1
      <4> QED BY <4>2
    <3>2. CASE ~(m < MAGICLEN)
      <4>1. e = c /\ Len(p.c) = m - MAGICLEN /\ m - MAGICLEN \in Nat
        BY <1>1, <1>2, <2>2, <3>2
      <4> DEFINE n == m - MAGICLEN
      <4>2. n \in Nat /\ n + 1 = (m + 1) - MAGICLEN /\ ~(m + 1 <= MAGICLEN) /\ MAGICLEN + (n + 1) = m + 1
        BY <1>1, <1>2, <4>1
      <4>3. e \in Seq(Bytes) /\ Len(e) = n + 1 /\ e[n + 1] = byte /\ \A i \in 1..n : e[i] = P[MAGICLEN + i]
        BY <1>2, <1>5, <4>1
      <4> HIDE DEF n
      <4>4. ASSUME NEW i \in 1..(n + 1) PROVE e[i] = P[MAGICLEN + i]
        <5>1. i \in 1..n \/ i = n + 1
          BY <4>2
        <5> QED BY <4>2, <4>3, <5>1 DEF byte
      <4> QED BY <4>2, <4>3, <4>4
    <3> QED BY <3>1, <3>2
  <2>6. m + 1 \in 0..(MAGICLEN + OFFW - 1)
    BY <1>1, <1>2, <1>6
  <2>7. AtHeader(P, m + 1, q, out)
    <3>1. /\ q.c \in Seq(Bytes)
          /\ Len(q.c) = (IF m + 1 <= MAGICLEN THEN 0 ELSE (m + 1) - MAGICLEN)
          /\ \A i \in 1..Len(q.c) : q.c[i] = P[MAGICLEN + i]
      BY <2>4, <2>5, Zenon
    <3>2. q.at = "header" /\ q.j = m + 1 /\ q.newpos = 0 /\ q.oldpos = 0 /\ out = <<>>
      BY <1>2, <2>4
    <3> QED BY <2>6, <3>1, <3>2, Zenon DEF AtHeader
  <2>8. BsAt(o, w, P, m + 1, q, out)
    BY <2>4, <2>7, Zenon DEF BsAt
  <2> QED BY <2>1, <2>8, Taken DEF g, byte
<1>7. CASE ~(m < MAGICLEN + OFFW - 1)
  <2> DEFINE size == CtrlValue(c)
             q == [p EXCEPT !.newsize = size]
  <2>0. m \in Nat /\ m < MAGICLEN + OFFW /\ p.j = m
    BY <1>2
  <2>1. /\ m = MAGICLEN + OFFW - 1 /\ m + 1 = MAGICLEN + OFFW /\ ~(p.j < MAGICLEN)
        /\ ~(p.j < MAGICLEN + OFFW - 1)
    BY <1>1, <2>0, <1>7
  <2>2. size = Len(w)
    <3>1. Len(p.c) = OFFW - 1 /\ byte = P[MAGICLEN + OFFW]
      BY <1>1, <1>2, <2>1 DEF byte
    <3>2. Len(w) \in Int /\ Abs(Len(w)) = Len(w) /\ Small(Len(w))
      <4>1. Len(w) \in 0..Len(w)
        BY <1>1
      <4> QED BY <1>1, <4>1 DEF Abs, SmallImages
    <3>3. \A i \in 1..OFFW : P[MAGICLEN + i] = offtout(Len(w))[i]
      BY DEF IsPatch
    <3> DEFINE u == p.c
               x == Len(w)
    <3>4. /\ u \in Seq(Bytes) /\ \A i \in 1..Len(u) : u[i] = P[MAGICLEN + i]
          /\ Len(u) = OFFW - 1 /\ x \in Int /\ Small(Abs(x))
          /\ \A i \in 1..OFFW : P[MAGICLEN + i] = offtout(x)[i]
      BY <1>2, <3>1, <3>2, <3>3
    <3> HIDE DEF u, x
    <3>5. CtrlValue(Append(u, P[MAGICLEN + OFFW])) = x
      <4>1. MAGICLEN \in Nat /\ P \in Seq(Bytes) /\ MAGICLEN + OFFW <= Len(P)
        BY <1>1
      <4>2. u \in Seq(Bytes) /\ x \in Int /\ Small(Abs(x)) /\ Len(u) = OFFW - 1
        BY <3>4
      <4>3. \A i \in 1..Len(u) : u[i] = P[MAGICLEN + i]
        BY <3>4
      <4>4. \A i \in 1..OFFW : P[MAGICLEN + i] = offtout(x)[i]
        BY <3>4
      <4> QED BY <4>1, <4>2, <4>3, <4>4, NumberDone
    <3> QED BY <3>1, <3>5 DEF u, x
  <2>3. g = [p |-> NextEntry(q), emit |-> <<>>, err |-> NextEntry(q).at = "insane"]
    <3>1. ~(size < 0)
      BY <1>1, <2>2
    <3> HIDE DEF size
    <3> QED BY <1>2, <2>1, <3>1 DEF PatchByte, size
  <2>4. q = [p EXCEPT !.newsize = size]
    OBVIOUS
  <2> HIDE DEF q, g, size, c
  <2>5. IsBs(q) /\ q.newsize = Len(w) /\ q.newpos = 0 /\ q.oldpos = 0
    BY <1>2, <2>2, <2>4 DEF IsBs
  <2>6. RestAt(o, w, P, m + 1, 0, 0)
    <3>1. PICK op : Leads(o, w, P, MAGICLEN + OFFW, op, Len(w))
      BY DEF IsPatch
    <3>2. PICK n, T : /\ Trace(o, w, P, n, T)
                      /\ T[0] = [p |-> MAGICLEN + OFFW, oldpos |-> 0, scan |-> 0]
                      /\ T[n] = [p |-> Len(P), oldpos |-> op, scan |-> Len(w)]
      BY <3>1 DEF Leads
    <3>3. 0 \in 0..n /\ T[n].scan = Len(w)
      BY <3>2 DEF Trace
    <3> QED BY <2>1, <3>2, <3>3 DEF RestAt
  <2>7. BsAt(o, w, P, m + 1, NextEntry(q), SubSeq(w, 1, 0))
    BY <1>1, <2>5, <2>6, AtNextEntry
  <2>8. SubSeq(w, 1, 0) = out
    BY <1>2
  <2> DEFINE q2 == NextEntry(q)
  <2>9. BsAt(o, w, P, m + 1, q2, out) /\ g = [p |-> q2, emit |-> <<>>, err |-> q2.at = "insane"]
    BY <2>3, <2>7, <2>8
  <2> HIDE DEF q2
  <2> QED BY <2>9, Taken DEF g, byte
<1> QED BY <1>6, <1>7

\* The numbers of an entry: y is the one at e.
NumberOf(b, f, x, a, e, y) ==
  (e = b /\ y = f) \/ (e = b + OFFW /\ y = x) \/ (e = b + 2 * OFFW /\ y = a)

\* All but its last byte was read into c.
ReadOf(P, e, c) == c \in Seq(Bytes) /\ Len(c) = OFFW - 1 /\ \A i \in 1..Len(c) : c[i] = P[e + i]

LEMMA EntryNumber ==
  ASSUME NEW o \in Seq(Bytes), NEW w \in Seq(Bytes), NEW P \in Seq(Bytes), SmallImages(o, w),
         NEW b, NEW op, NEW sc, NEW f, NEW x, NEW a, InEntry(o, w, P, b, op, sc, f, x, a),
         NEW e, NEW y, NumberOf(b, f, x, a, e, y), NEW c, ReadOf(P, e, c)
  PROVE  CtrlValue(Append(c, P[e + OFFW])) = y
<1>1. /\ b \in Nat /\ op \in Nat /\ sc \in Nat /\ f \in Nat /\ x \in Nat /\ a \in Int
      /\ OFFW \in Nat \ {0} /\ Len(o) \in Nat /\ Len(w) \in Nat /\ Len(P) \in Nat
      /\ b + 3 * OFFW + f + x <= Len(P) /\ sc + f + x <= Len(w) /\ op + f <= Len(o)
  BY EntryBounds
<1>2. Abs(a) \in 0..Len(o) /\ f \in 0..Len(o) /\ x \in 0..Len(w)
  <2>1. Abs(a) <= Len(o)
    BY DEF InEntry, EntryAt
  <2> QED BY <1>1, <2>1 DEF Abs
<1>3. Abs(f) = f /\ Abs(x) = x
  BY <1>1 DEF Abs
<1>4. /\ \A i \in 1..OFFW : P[b + i] = offtout(f)[i]
      /\ \A i \in 1..OFFW : P[b + OFFW + i] = offtout(x)[i]
      /\ \A i \in 1..OFFW : P[b + 2 * OFFW + i] = offtout(a)[i]
  BY DEF InEntry, EntryAt
<1>5. y \in Int /\ Small(Abs(y)) /\ \A i \in 1..OFFW : P[e + i] = offtout(y)[i]
  <2>1. CASE e = b /\ y = f
    BY <1>1, <1>2, <1>3, <1>4, <2>1 DEF SmallImages
  <2>2. CASE e = b + OFFW /\ y = x
    BY <1>1, <1>2, <1>3, <1>4, <2>2 DEF SmallImages
  <2>3. CASE e = b + 2 * OFFW /\ y = a
    BY <1>1, <1>2, <1>4, <2>3 DEF SmallImages
  <2> QED BY <2>1, <2>2, <2>3 DEF NumberOf
<1>6. e \in Nat /\ e + OFFW <= Len(P)
  <2>1. e \in {b, b + OFFW, b + 2 * OFFW}
    BY Zenon DEF NumberOf
  <2>2. ASSUME e = b PROVE e \in Nat /\ e + OFFW <= Len(P)
    BY <1>1, <2>2
  <2>3. ASSUME e = b + OFFW PROVE e \in Nat /\ e + OFFW <= Len(P)
    BY <1>1, <2>3
  <2>4. ASSUME e = b + 2 * OFFW PROVE e \in Nat /\ e + OFFW <= Len(P)
    BY <1>1, <2>4
  <2> QED BY <2>1, <2>2, <2>3, <2>4
<1>7. \A i \in 1..OFFW : P[e + i] = offtout(y)[i]
  BY <1>5
<1>8. y \in Int /\ Small(Abs(y)) /\ c \in Seq(Bytes) /\ Len(c) = OFFW - 1
  BY <1>5 DEF ReadOf
<1>9. \A i \in 1..Len(c) : c[i] = P[e + i]
  BY DEF ReadOf
<1> QED BY <1>6, <1>7, <1>8, <1>9, NumberDone

LEMMA SameSequence ==
  ASSUME NEW S, NEW s \in Seq(S), NEW u \in Seq(S), Len(s) = Len(u), \A i \in 1..Len(s) : s[i] = u[i]
  PROVE  s = u
OBVIOUS

LEMMA AppendAny ==
  ASSUME NEW S, NEW s \in Seq(S), NEW e \in S
  PROVE  /\ Append(s, e) \in Seq(S) /\ Len(Append(s, e)) = Len(s) + 1
         /\ \A i \in 1..Len(s) : Append(s, e)[i] = s[i]
         /\ Append(s, e)[Len(s) + 1] = e
OBVIOUS

LEMMA Triples ==
  ASSUME NEW f \in Int, NEW x \in Int, NEW a \in Int
  PROVE  /\ Append(<<>>, f) = <<f>> /\ Append(<<f>>, x) = <<f, x>> /\ Append(<<f, x>>, a) = <<f, x, a>>
         /\ Len(<<f>>) = 1 /\ Len(<<f, x>>) = 2 /\ Len(<<f, x, a>>) = 3
<1>1. Len(<<>>) = 0 /\ Len(<<f>>) = 1 /\ Len(<<f, x>>) = 2 /\ Len(<<f, x, a>>) = 3
  OBVIOUS
<1>2. Append(<<>>, f) = <<f>>
  OBVIOUS
<1>3. Append(<<f>>, x) = <<f, x>>
  <2> DEFINE s == Append(<<f>>, x)
             u == <<f, x>>
  <2>1. s \in Seq(Int) /\ Len(s) = 2 /\ s[1] = f /\ s[2] = x
    <3>1. <<f>> \in Seq(Int) /\ Len(<<f>>) = 1 /\ <<f>>[1] = f
      OBVIOUS
    <3> DEFINE v == <<f>>
    <3> HIDE DEF v
    <3>2. Append(v, x) \in Seq(Int) /\ Len(Append(v, x)) = 2 /\ Append(v, x)[1] = f /\ Append(v, x)[2] = x
      BY <3>1 DEF v
    <3> QED BY <3>2 DEF v
  <2>2. u \in Seq(Int) /\ Len(u) = 2 /\ u[1] = f /\ u[2] = x
    OBVIOUS
  <2> HIDE DEF s, u
  <2>3. \A i \in 1..2 : s[i] = u[i]
    <3>1. \A i \in 1..2 : i = 1 \/ i = 2
      OBVIOUS
    <3> QED BY <2>1, <2>2, <3>1
  <2>4. s = u
    BY <2>1, <2>2, <2>3, SameSequence
  <2> QED BY <2>4 DEF s, u
<1>4. Append(<<f, x>>, a) = <<f, x, a>>
  <2> DEFINE s == Append(<<f, x>>, a)
             u == <<f, x, a>>
             v == <<f, x>>
  <2>1. v \in Seq(Int) /\ Len(v) = 2 /\ v[1] = f /\ v[2] = x
    OBVIOUS
  <2>2. u \in Seq(Int) /\ Len(u) = 3 /\ u[1] = f /\ u[2] = x /\ u[3] = a
    OBVIOUS
  <2>3. s = Append(v, a)
    OBVIOUS
  <2> HIDE DEF u, s, v
  <2>4. s \in Seq(Int) /\ Len(s) = 3
    <3>1. s \in Seq(Int) /\ Len(s) = Len(v) + 1
      BY <2>1, <2>3, AppendAny
    <3> QED BY <2>1, <3>1
  <2>5. \A i \in 1..3 : s[i] = u[i]
    <3>1. \A i \in 1..3 : i = 1 \/ i = 2 \/ i = 3
      OBVIOUS
    <3>0. v \in Seq(Int)
      BY <2>1
    <3>2. (\A i \in 1..Len(v) : s[i] = v[i]) /\ s[Len(v) + 1] = a
      BY <2>3, <3>0, AppendAny, ZenonT(60)
    <3>3. 1 \in 1..2 /\ 2 \in 1..2 /\ Len(v) + 1 = 3
      BY <2>1
    <3>4. s[1] = f /\ s[2] = x /\ s[3] = a
      BY <2>1, <3>2, <3>3
    <3> QED BY <2>2, <3>1, <3>4
  <2>6. s = u
    BY <2>2, <2>4, <2>5, SameSequence
  <2> QED BY <2>6 DEF s, u
<1> QED BY <1>1, <1>2, <1>3, <1>4

\* A byte of a control number: e is where the number starts, y what it is.
LEMMA StepNumber ==
  ASSUME NEW o \in Seq(Bytes), NEW w \in Seq(Bytes), NEW P, IsPatch(o, w, P), SmallImages(o, w),
         NEW b, NEW op, NEW sc, NEW f, NEW x, NEW a, InEntry(o, w, P, b, op, sc, f, x, a),
         NEW m, NEW p, NEW out, IsBs(p), p.newsize = Len(w),
         p.at = "ctrl", p.newpos = sc, p.oldpos = op, out = SubSeq(w, 1, sc),
         NEW e, NEW y, NEW before, NEW after,
         \/ before = <<>> /\ e = b /\ y = f /\ after = <<f>>
         \/ before = <<f>> /\ e = b + OFFW /\ y = x /\ after = <<f, x>>
         \/ before = <<f, x>> /\ e = b + 2 * OFFW /\ y = a /\ after = <<f, x, a>>,
         p.ctrl = before, AtNumber(P, m, p, e)
  PROVE  StepOK(o, w, P, m, PatchByte(p, o, TRUE, P[m + 1]), out)
<1> DEFINE byte == P[m + 1]
           c == Append(p.c, byte)
           g == PatchByte(p, o, TRUE, byte)
           r == Len(p.c)
<1>1. P \in Seq(Bytes)
  BY DEF IsPatch
<1>2. /\ b \in Nat /\ OFFW \in Nat \ {0} /\ Len(P) \in Nat /\ f \in Nat /\ x \in Nat
      /\ b + 3 * OFFW + f + x <= Len(P)
  BY <1>1, EntryBounds
<1>3. /\ p.c \in Seq(Bytes) /\ r < OFFW /\ r \in Nat /\ m = e + r
      /\ \A i \in 1..r : p.c[i] = P[e + i]
  BY DEF AtNumber
<1>4. e \in Nat /\ e + OFFW <= Len(P)
  BY <1>2
<1>5. byte \in Bytes
  <2> HIDE DEF r
  <2>1. m + 1 \in 1..Len(P)
    BY <1>2, <1>3, <1>4
  <2> QED BY <1>1, <2>1
<1> HIDE DEF byte
<1>6. /\ c \in Seq(Bytes) /\ Len(c) = r + 1
      /\ \A i \in 1..r : c[i] = p.c[i]
      /\ c[r + 1] = byte
  BY <1>3, <1>5, Appended
<1>7. m + 1 = e + (r + 1)
  <2> HIDE DEF r
  <2> QED BY <1>3, <1>4
<1>8. \A i \in 1..(r + 1) : c[i] = P[e + i]
  <2> HIDE DEF c, r
  <2> SUFFICES ASSUME NEW i \in 1..(r + 1) PROVE c[i] = P[e + i]
    OBVIOUS
  <2>1. i \in 1..r \/ i = r + 1
    BY <1>3
  <2> QED BY <1>3, <1>6, <1>7, <2>1 DEF byte
<1>9. CASE r + 1 < OFFW
  <2> DEFINE q == [p EXCEPT !.c = c]
  <2>1. g = [p |-> q, emit |-> <<>>, err |-> q.at = "insane"]
    <3>1. Len(c) < OFFW
      BY <1>6, <1>9
    <3> HIDE DEF c
    <3> QED BY <1>3, <3>1 DEF PatchByte, c
  <2>2. q = [p EXCEPT !.c = c]
    OBVIOUS
  <2> HIDE DEF q, g, c
  <2>3. /\ IsBs(q) /\ q.at = "ctrl" /\ q.newsize = Len(w) /\ q.newpos = sc /\ q.oldpos = op
        /\ q.ctrl = before /\ q.c = c
    BY <1>3, <2>2 DEF IsBs
  <2>4. AtNumber(P, m + 1, q, e)
    <3> HIDE DEF r
    <3>1. q.c \in Seq(Bytes) /\ Len(q.c) = r + 1 /\ Len(q.c) < OFFW
      BY <1>6, <1>9, <2>3
    <3>2. m + 1 = e + Len(q.c)
      BY <1>7, <3>1, Zenon
    <3>3. \A i \in 1..Len(q.c) : q.c[i] = P[e + i]
      BY <1>8, <2>3, <3>1, Zenon
    <3> QED BY <3>1, <3>2, <3>3 DEF AtNumber
  <2>5. AtCtrl(w, P, m + 1, q, out, b, op, sc, f, x)
    BY <2>3, <2>4, Zenon DEF AtCtrl
  <2>6. BsAt(o, w, P, m + 1, q, out)
    BY <2>3, <2>5, Zenon DEF BsAt
  <2> QED BY <2>1, <2>6, Taken DEF g, byte
<1>10. CASE ~(r + 1 < OFFW)
  <2>1. r = OFFW - 1 /\ r + 1 = OFFW /\ m + 1 = e + OFFW /\ ~(Len(c) < OFFW)
    <3> HIDE DEF r, c
    <3> QED BY <1>2, <1>3, <1>4, <1>6, <1>7, <1>10
  <2>2. CtrlValue(c) = y
    <3> DEFINE u == p.c
    <3>1. u \in Seq(Bytes) /\ Len(u) = OFFW - 1 /\ \A i \in 1..Len(u) : u[i] = P[e + i]
      BY <1>3, <2>1
    <3> HIDE DEF u
    <3>2. CtrlValue(Append(u, P[e + OFFW])) = y
      <4>1. NumberOf(b, f, x, a, e, y)
        BY Zenon DEF NumberOf
      <4>2. ReadOf(P, e, u)
        BY <3>1 DEF ReadOf
      <4> HIDE DEF r, c, g
      <4> QED BY <1>1, <4>1, <4>2, EntryNumber
    <3> QED BY <2>1, <3>2 DEF u, byte
  <2> DEFINE ctrl == Append(p.ctrl, CtrlValue(c))
             q == [p EXCEPT !.c = <<>>, !.ctrl = ctrl]
  <2>3. q = [p EXCEPT !.c = <<>>, !.ctrl = ctrl]
    OBVIOUS
  <2>4. ctrl = after /\ (Len(after) < 3 <=> before # <<f, x>>)
    <3>1. ctrl = Append(before, y)
      BY <2>2
    <3> HIDE DEF ctrl
    <3>2. \/ before = <<>> /\ ctrl = <<f>> /\ after = <<f>> /\ Len(before) = 0 /\ Len(after) = 1
          \/ before = <<f>> /\ ctrl = <<f, x>> /\ after = <<f, x>> /\ Len(before) = 1 /\ Len(after) = 2
          \/ before = <<f, x>> /\ ctrl = <<f, x, a>> /\ after = <<f, x, a>> /\ Len(after) = 3
      <4>1. Len(<<>>) = 0
        OBVIOUS
      <4>2. f \in Int /\ x \in Int /\ a \in Int
        BY <1>1, EntryBounds
      <4> QED BY <3>1, <4>1, <4>2, Triples, ZenonT(60)
    <3>3. Len(<<f, x>>) = 2
      OBVIOUS
    <3>4. CASE before = <<>> /\ ctrl = <<f>> /\ after = <<f>> /\ Len(before) = 0 /\ Len(after) = 1
      <4>1. before # <<f, x>> /\ Len(after) < 3
        BY <3>3, <3>4
      <4> QED BY <3>4, <4>1, Zenon
    <3>5. CASE before = <<f>> /\ ctrl = <<f, x>> /\ after = <<f, x>> /\ Len(before) = 1 /\ Len(after) = 2
      <4>1. before # <<f, x>> /\ Len(after) < 3
        BY <3>3, <3>5
      <4> QED BY <3>5, <4>1, Zenon
    <3>6. CASE before = <<f, x>> /\ ctrl = <<f, x, a>> /\ after = <<f, x, a>> /\ Len(after) = 3
      <4>1. ~(Len(after) < 3)
        BY <3>6
      <4> QED BY <3>6, <4>1, Zenon
    <3> QED BY <3>2, <3>4, <3>5, <3>6
  <2>5. /\ IsBs(q) /\ q.at = "ctrl" /\ q.newsize = Len(w) /\ q.newpos = sc /\ q.oldpos = op
        /\ q.ctrl = after /\ q.c = <<>>
    <3> HIDE DEF q, ctrl
    <3> QED BY <1>3, <2>3, <2>4 DEF IsBs
  <2>6. CASE before # <<f, x>>
    <3>1. Len(ctrl) < 3
      <4> HIDE DEF ctrl
      <4> QED BY <2>4, <2>6
    <3>2. g = [p |-> q, emit |-> <<>>, err |-> q.at = "insane"]
      <4> HIDE DEF c
      <4> QED BY <1>3, <2>1, <3>1 DEF PatchByte, c
    <3> HIDE DEF ctrl, q, g, c
    <3>3. AtNumber(P, m + 1, q, e + OFFW)
      <4>1. Len(<<>>) = 0 /\ <<>> \in Seq(Bytes) /\ 1..0 = {} /\ 0 < OFFW /\ m + 1 = (e + OFFW) + 0
        BY <1>2, <1>4, <2>1
      <4> HIDE DEF r
      <4>2. q.c \in Seq(Bytes) /\ Len(q.c) < OFFW /\ m + 1 = (e + OFFW) + Len(q.c)
        BY <2>5, <4>1, Zenon
      <4>3. \A i \in 1..Len(q.c) : q.c[i] = P[(e + OFFW) + i]
        BY <2>5, <4>1
      <4> QED BY <4>2, <4>3 DEF AtNumber
    <3>4. \/ q.ctrl = <<f>> /\ AtNumber(P, m + 1, q, b + OFFW)
          \/ q.ctrl = <<f, x>> /\ AtNumber(P, m + 1, q, b + 2 * OFFW)
      <4>1. (b + OFFW) + OFFW = b + 2 * OFFW
        BY <1>2
      <4>2. CASE after = <<f>> /\ e = b
        BY <2>5, <3>3, <4>2, Zenon
      <4>3. CASE after = <<f, x>> /\ e = b + OFFW
        BY <2>5, <3>3, <4>1, <4>3, Zenon
      <4> QED BY <2>6, <4>2, <4>3, Zenon
    <3>5. AtCtrl(w, P, m + 1, q, out, b, op, sc, f, x)
      BY <2>5, <3>4, Zenon DEF AtCtrl
    <3>6. BsAt(o, w, P, m + 1, q, out)
      BY <2>5, <3>5, Zenon DEF BsAt
    <3> QED BY <3>2, <3>6, Taken DEF g, byte
  <2>7. CASE before = <<f, x>>
    <3>1. ~(Len(ctrl) < 3)
      <4> HIDE DEF ctrl
      <4> QED BY <2>4, <2>7
    <3>2. g = [p |-> CtrlRead(q), emit |-> <<>>, err |-> CtrlRead(q).at = "insane"]
      <4> HIDE DEF c
      <4> QED BY <1>3, <2>1, <3>1 DEF PatchByte, c
    <3>3. after = <<f, x, a>> /\ e = b + 2 * OFFW
      <4>1. Len(<<>>) = 0 /\ Len(<<f>>) = 1 /\ Len(<<f, x>>) = 2 /\ 2 # 0 /\ 2 # 1
        OBVIOUS
      <4> QED BY <2>7, <4>1, Zenon
    <3> HIDE DEF ctrl, q, g, c
    <3>4. m + 1 = b + 3 * OFFW
      <4> HIDE DEF r
      <4> QED BY <1>2, <2>1, <3>3
    <3>5. q.ctrl = <<f, x, a>>
      BY <2>5, <3>3
    <3>6. BsAt(o, w, P, b + 3 * OFFW, CtrlRead(q), SubSeq(w, 1, sc))
      BY <1>1, <2>5, <3>5, AtCtrlRead
    <3> DEFINE q2 == CtrlRead(q)
    <3>7. BsAt(o, w, P, m + 1, q2, out) /\ g = [p |-> q2, emit |-> <<>>, err |-> q2.at = "insane"]
      BY <3>2, <3>4, <3>6
    <3> HIDE DEF q2
    <3> QED BY <3>7, Taken DEF g, byte
  <2> QED BY <2>6, <2>7
<1> QED BY <1>9, <1>10

LEMMA StepCtrl ==
  ASSUME NEW o \in Seq(Bytes), NEW w \in Seq(Bytes), NEW P, IsPatch(o, w, P), SmallImages(o, w),
         NEW b, NEW op, NEW sc, NEW f, NEW x, NEW a, InEntry(o, w, P, b, op, sc, f, x, a),
         NEW m, NEW p, NEW out, IsBs(p), p.newsize = Len(w),
         AtCtrl(w, P, m, p, out, b, op, sc, f, x)
  PROVE  StepOK(o, w, P, m, PatchByte(p, o, TRUE, P[m + 1]), out)
<1>1. p.at = "ctrl" /\ p.newpos = sc /\ p.oldpos = op /\ out = SubSeq(w, 1, sc)
  BY DEF AtCtrl
<1>2. CASE p.ctrl = <<>> /\ AtNumber(P, m, p, b)
  BY <1>1, <1>2, StepNumber
<1>3. CASE p.ctrl = <<f>> /\ AtNumber(P, m, p, b + OFFW)
  BY <1>1, <1>3, StepNumber, ZenonT(60)
<1>4. CASE p.ctrl = <<f, x>> /\ AtNumber(P, m, p, b + 2 * OFFW)
  BY <1>1, <1>4, StepNumber
<1> QED BY <1>2, <1>3, <1>4, Zenon DEF AtCtrl

\* One more byte of the new image.
LEMMA PrefixOn ==
  ASSUME NEW w \in Seq(Bytes), NEW n \in Nat, n < Len(w), NEW v, v = w[n + 1]
  PROVE  SubSeq(w, 1, n) \o <<v>> = SubSeq(w, 1, n + 1)
<1>1. Len(w) \in Nat /\ n \in 0..Len(w) /\ n + 1 \in 0..Len(w) /\ n + 1 \in 1..Len(w)
  OBVIOUS
<1>2. v \in Bytes /\ <<v>> \in Seq(Bytes) /\ Len(<<v>>) = 1 /\ <<v>>[1] = v
  BY <1>1
<1> DEFINE a == SubSeq(w, 1, n)
           b == SubSeq(w, 1, n + 1)
           u == <<v>>
           c == a \o u
<1>3. a \in Seq(Bytes) /\ Len(a) = n /\ \A i \in 1..n : a[i] = w[i]
  BY <1>1, Prefix
<1>4. b \in Seq(Bytes) /\ Len(b) = n + 1 /\ \A i \in 1..(n + 1) : b[i] = w[i]
  BY <1>1, Prefix
<1> HIDE DEF a, b, u
<1>5. u \in Seq(Bytes) /\ Len(u) = 1 /\ u[1] = v
  BY <1>2 DEF u
<1>6. /\ c \in Seq(Bytes) /\ Len(c) = Len(a) + Len(u)
      /\ \A i \in 1..Len(a) : c[i] = a[i]
      /\ \A i \in 1..Len(u) : c[Len(a) + i] = u[i]
  BY <1>3, <1>5, Join
<1> HIDE DEF c
<1>7. Len(c) = n + 1 /\ c[n + 1] = v
  <2>1. 1 \in 1..Len(u)
    BY <1>5
  <2> QED BY <1>3, <1>5, <1>6, <2>1
<1>8. \A i \in 1..Len(c) : c[i] = b[i]
  <2> SUFFICES ASSUME NEW i \in 1..(n + 1) PROVE c[i] = b[i]
    BY <1>7
  <2>1. i \in 1..n \/ i = n + 1
    OBVIOUS
  <2> QED BY <1>3, <1>4, <1>6, <1>7, <2>1
<1>9. c = b
  BY <1>4, <1>6, <1>7, <1>8, SameSequence
<1> QED BY <1>9 DEF a, b, c, u

\* A byte that is handed on.
LEMMA HandedOn ==
  ASSUME NEW o \in Seq(Bytes), NEW w \in Seq(Bytes), NEW P, IsPatch(o, w, P), NEW m, NEW n \in Nat,
         n < Len(w), NEW v, v = w[n + 1],
         NEW q, BsAt(o, w, P, m + 1, q, SubSeq(w, 1, n + 1)),
         NEW g, g = [p |-> q, emit |-> <<v>>, err |-> q.at = "insane"]
  PROVE  StepOK(o, w, P, m, g, SubSeq(w, 1, n))
<1>1. q.at # "insane"
  BY BsFacts
<1>2. SubSeq(w, 1, n) \o <<v>> = SubSeq(w, 1, n + 1)
  BY PrefixOn
<1>3. g.p = q /\ g.emit = <<v>> /\ g.err = FALSE
  BY <1>1
<1> QED BY <1>2, <1>3 DEF StepOK

LEMMA StepDiff ==
  ASSUME NEW o \in Seq(Bytes), NEW w \in Seq(Bytes), NEW P, IsPatch(o, w, P),
         NEW b, NEW op, NEW sc, NEW f, NEW x, NEW a, InEntry(o, w, P, b, op, sc, f, x, a),
         NEW m, NEW p, NEW out, IsBs(p), p.newsize = Len(w),
         AtDiff(w, m, p, out, b, op, sc, f, x, a)
  PROVE  StepOK(o, w, P, m, PatchByte(p, o, TRUE, P[m + 1]), out)
<1> DEFINE byte == P[m + 1]
           n == p.i
           v == (byte + At(o, p.oldpos + p.i)) % Base
           q == [p EXCEPT !.i = @ + 1]
           g == PatchByte(p, o, TRUE, byte)
           q2 == InDiff(q)
<1>1. P \in Seq(Bytes)
  BY DEF IsPatch
<1>2. /\ b \in Nat /\ op \in Nat /\ sc \in Nat /\ f \in Nat /\ x \in Nat /\ a \in Int
      /\ OFFW \in Nat \ {0} /\ Len(o) \in Nat /\ Len(w) \in Nat /\ Len(P) \in Nat
      /\ b + 3 * OFFW + f + x <= Len(P) /\ sc + f + x <= Len(w) /\ op + f <= Len(o)
  BY <1>1, EntryBounds
<1>3. /\ p.at = "diff" /\ p.newpos = sc /\ p.oldpos = op /\ p.ctrl = <<f, x, a>>
      /\ n \in Nat /\ n < f /\ m = b + 3 * OFFW + n /\ out = SubSeq(w, 1, sc + n)
  BY DEF AtDiff
<1>n. n \in Nat /\ n < f /\ m = b + 3 * OFFW + n
  BY <1>3
<1>4. p.oldpos + p.i \in 0..(Len(o) - 1) /\ p.oldpos + p.i = op + n
  <2>1. p.oldpos + p.i = op + n
    BY <1>3
  <2>2. op + n \in 0..(Len(o) - 1)
    <3> HIDE DEF n
    <3> QED BY <1>2, <1>n
  <2> QED BY <2>1, <2>2
<1>5. g = [p |-> q2, emit |-> <<v>>, err |-> q2.at = "insane"]
  <2> HIDE DEF byte, v
  <2> QED BY <1>3, <1>4 DEF PatchByte, v
<1>6. v = w[(sc + n) + 1]
  <2> DEFINE h == n + 1
  <2>1. h \in 1..f /\ m + 1 = b + 3 * OFFW + h /\ (op + n) + 1 = op + h /\ (sc + n) + 1 = sc + h
    <3> HIDE DEF n
    <3> QED BY <1>2, <1>n
  <2>2. op + h \in 1..Len(o) /\ sc + h \in 1..Len(w)
    <3> HIDE DEF h
    <3> QED BY <1>2, <2>1, SMTT(60)
  <2>3. o[op + h] \in Bytes /\ w[sc + h] \in Bytes
    BY <2>2
  <2>4. byte = (w[sc + h] - o[op + h]) % Base
    <3>1. \A i \in 1..f : P[b + 3 * OFFW + i] = (w[sc + i] - o[op + i]) % Base
      BY DEF InEntry, EntryAt
    <3> HIDE DEF h
    <3> QED BY <2>1, <3>1
  <2>5. At(o, p.oldpos + p.i) = o[op + h]
    BY <1>4, <2>1 DEF At
  <2> HIDE DEF h, byte
  <2>6. (((w[sc + h] - o[op + h]) % Base) + o[op + h]) % Base = w[sc + h]
    BY <2>3, ByteBack
  <2> QED BY <2>1, <2>4, <2>5, <2>6
<1>7. q = [p EXCEPT !.i = n + 1]
  OBVIOUS
<1> HIDE DEF q, g, v
<1>8. /\ IsBs(q) /\ q.newsize = Len(w) /\ q.newpos = sc /\ q.oldpos = op
      /\ q.ctrl = <<f, x, a>> /\ q.i = n + 1
  BY <1>3, <1>7 DEF IsBs
<1> HIDE DEF n, q2
<1>9. /\ n + 1 \in Nat /\ n + 1 <= f /\ m + 1 = b + 3 * OFFW + (n + 1) /\ sc + (n + 1) = (sc + n) + 1
      /\ sc + n \in Nat /\ sc + n < Len(w)
  BY <1>2, <1>3, SMTT(60)
<1>10. BsAt(o, w, P, b + 3 * OFFW + (n + 1), InDiff(q), SubSeq(w, 1, sc + (n + 1)))
  <2> DEFINE z == n + 1
  <2>1. z \in Nat /\ z <= f /\ q.i = z
    BY <1>8, <1>9
  <2> HIDE DEF z
  <2>2. BsAt(o, w, P, b + 3 * OFFW + z, InDiff(q), SubSeq(w, 1, sc + z))
    BY <1>1, <1>8, <2>1, AtInDiff
  <2> QED BY <2>2 DEF z
<1> DEFINE t == sc + n
<1>11. BsAt(o, w, P, m + 1, q2, SubSeq(w, 1, t + 1))
  BY <1>9, <1>10 DEF q2
<1>12. t \in Nat /\ t < Len(w) /\ v = w[t + 1] /\ out = SubSeq(w, 1, t)
  BY <1>3, <1>6, <1>9 DEF n
<1> HIDE DEF t
<1>13. StepOK(o, w, P, m, g, SubSeq(w, 1, t))
  BY <1>5, <1>11, <1>12, HandedOn
<1> QED BY <1>12, <1>13 DEF g

LEMMA StepExtra ==
  ASSUME NEW o \in Seq(Bytes), NEW w \in Seq(Bytes), NEW P, IsPatch(o, w, P),
         NEW b, NEW op, NEW sc, NEW f, NEW x, NEW a, InEntry(o, w, P, b, op, sc, f, x, a),
         NEW m, NEW p, NEW out, IsBs(p), p.newsize = Len(w),
         AtExtra(w, m, p, out, b, op, sc, f, x, a)
  PROVE  StepOK(o, w, P, m, PatchByte(p, o, TRUE, P[m + 1]), out)
<1> DEFINE byte == P[m + 1]
           n == p.i
           q == [p EXCEPT !.i = @ + 1]
           g == PatchByte(p, o, TRUE, byte)
           q2 == InExtra(q)
<1>1. P \in Seq(Bytes)
  BY DEF IsPatch
<1>2. /\ b \in Nat /\ op \in Nat /\ sc \in Nat /\ f \in Nat /\ x \in Nat /\ a \in Int
      /\ OFFW \in Nat \ {0} /\ Len(o) \in Nat /\ Len(w) \in Nat /\ Len(P) \in Nat
      /\ b + 3 * OFFW + f + x <= Len(P) /\ sc + f + x <= Len(w) /\ op + f <= Len(o)
  BY <1>1, EntryBounds
<1>3. /\ p.at = "extra" /\ p.newpos = sc + f /\ p.oldpos = op + f /\ p.ctrl = <<f, x, a>>
      /\ n \in Nat /\ n < x /\ m = b + 3 * OFFW + f + n /\ out = SubSeq(w, 1, sc + f + n)
  BY DEF AtExtra
<1>n. n \in Nat /\ n < x /\ m = b + 3 * OFFW + f + n
  BY <1>3
<1>4. g = [p |-> q2, emit |-> <<byte>>, err |-> q2.at = "insane"]
  <2> HIDE DEF byte
  <2> QED BY <1>3 DEF PatchByte
<1>5. byte = w[(sc + f + n) + 1]
  <2> DEFINE h == n + 1
  <2>1. h \in 1..x /\ m + 1 = b + 3 * OFFW + f + h /\ (sc + f + n) + 1 = sc + f + h
    <3> HIDE DEF n
    <3> QED BY <1>2, <1>n
  <2>2. \A i \in 1..x : P[b + 3 * OFFW + f + i] = w[sc + f + i]
    BY DEF InEntry, EntryAt
  <2> HIDE DEF h
  <2> QED BY <2>1, <2>2
<1>7. q = [p EXCEPT !.i = n + 1]
  OBVIOUS
<1> HIDE DEF q, g, byte
<1>8. /\ IsBs(q) /\ q.newsize = Len(w) /\ q.newpos = sc + f /\ q.oldpos = op + f
      /\ q.ctrl = <<f, x, a>> /\ q.i = n + 1
  BY <1>3, <1>7 DEF IsBs
<1> HIDE DEF n, q2
<1>9. /\ n + 1 \in Nat /\ n + 1 <= x /\ m + 1 = b + 3 * OFFW + f + (n + 1)
      /\ sc + f + (n + 1) = (sc + f + n) + 1
      /\ sc + f + n \in Nat /\ sc + f + n < Len(w)
  BY <1>2, <1>n
<1>10. BsAt(o, w, P, b + 3 * OFFW + f + (n + 1), InExtra(q), SubSeq(w, 1, sc + f + (n + 1)))
  <2> DEFINE z == n + 1
  <2>1. z \in Nat /\ z <= x /\ q.i = z
    BY <1>8, <1>9
  <2> HIDE DEF z
  <2>2. BsAt(o, w, P, b + 3 * OFFW + f + z, InExtra(q), SubSeq(w, 1, sc + f + z))
    BY <1>1, <1>8, <2>1, AtInExtra
  <2> QED BY <2>2 DEF z
<1> DEFINE t == sc + f + n
<1>11. BsAt(o, w, P, m + 1, q2, SubSeq(w, 1, t + 1))
  BY <1>9, <1>10 DEF q2
<1>12. t \in Nat /\ t < Len(w) /\ byte = w[t + 1] /\ out = SubSeq(w, 1, t)
  BY <1>3, <1>5, <1>9 DEF n
<1> HIDE DEF t
<1>13. StepOK(o, w, P, m, g, SubSeq(w, 1, t))
  BY <1>4, <1>11, <1>12, HandedOn
<1> QED BY <1>12, <1>13 DEF g, byte

\* The stage takes every byte of a patch without an error, and hands on the new image.
LEMMA PatchStep ==
  ASSUME NEW o \in Seq(Bytes), NEW w \in Seq(Bytes), NEW P, IsPatch(o, w, P), SmallImages(o, w),
         NEW m, m < Len(P), NEW p, NEW out, BsAt(o, w, P, m, p, out)
  PROVE  StepOK(o, w, P, m, PatchByte(p, o, TRUE, P[m + 1]), out)
<1>1. IsBs(p)
  BY DEF BsAt
<1>2. CASE AtHeader(P, m, p, out)
  BY <1>1, <1>2, StepHeader
<1>3. CASE /\ p.newsize = Len(w)
           /\ \E b, op, sc, f, x, a :
                /\ InEntry(o, w, P, b, op, sc, f, x, a)
                /\ \/ AtCtrl(w, P, m, p, out, b, op, sc, f, x)
                   \/ AtDiff(w, m, p, out, b, op, sc, f, x, a)
                   \/ AtExtra(w, m, p, out, b, op, sc, f, x, a)
  <2>1. PICK b, op, sc, f, x, a :
          /\ InEntry(o, w, P, b, op, sc, f, x, a)
          /\ \/ AtCtrl(w, P, m, p, out, b, op, sc, f, x)
             \/ AtDiff(w, m, p, out, b, op, sc, f, x, a)
             \/ AtExtra(w, m, p, out, b, op, sc, f, x, a)
    BY <1>3
  <2>2. CASE AtCtrl(w, P, m, p, out, b, op, sc, f, x)
    BY <1>1, <1>3, <2>1, <2>2, StepCtrl
  <2>3. CASE AtDiff(w, m, p, out, b, op, sc, f, x, a)
    BY <1>1, <1>3, <2>1, <2>3, StepDiff
  <2>4. CASE AtExtra(w, m, p, out, b, op, sc, f, x, a)
    BY <1>1, <1>3, <2>1, <2>4, StepExtra
  <2> QED BY <2>1, <2>2, <2>3, <2>4
<1>4. ~(p.at = "finish" /\ m = Len(P) /\ out = w)
  BY BsFacts DEF IsPatch
<1> QED BY <1>2, <1>3, <1>4, Zenon DEF BsAt

LEMMA PatchStart ==
  ASSUME NEW o, NEW w, NEW P
  PROVE  BsAt(o, w, P, 0, BspatchInit, <<>>)
<1>1. OFFW \in Nat \ {0} /\ MAGICLEN \in Nat \ {0}
  BY BsdiffAssumption
<1> DEFINE p == BspatchInit
<1>2. IsBs(p) /\ p.at = "header" /\ p.j = 0 /\ p.newpos = 0 /\ p.oldpos = 0 /\ p.c = <<>>
  BY DEF BspatchInit, IsBs
<1> HIDE DEF p
<1>3. 0 \in 0..(MAGICLEN + OFFW - 1) /\ <<>> \in Seq(Bytes) /\ Len(<<>>) = 0 /\ 0 <= MAGICLEN
      /\ 1..0 = {}
  BY <1>1
<1>4. AtHeader(P, 0, p, <<>>)
  BY <1>2, <1>3 DEF AtHeader
<1>5. BsAt(o, w, P, 0, p, <<>>)
  BY <1>2, <1>4, Zenon DEF BsAt
<1> QED BY <1>5 DEF p

----------------------------------------------------------------------------
(* Remainders and powers of two.                                           *)

LEMMA Quotient ==
  ASSUME NEW q \in Nat \ {0}, NEW c \in Nat, NEW r \in 0..(q - 1), NEW x, x = q * c + r
  PROVE  x \div q = c /\ x % q = r
<1> DEFINE e == x \div q
           s == x % q
<1>0. q * c \in Nat /\ x \in Nat
  OBVIOUS
<1>1. e \in Nat /\ s \in 0..(q - 1) /\ q * e + s = x
  BY <1>0, Division
<1> HIDE DEF e, s
<1>2. CASE e < c
  <2>1. c = e + 1 + (c - e - 1) /\ c - e - 1 \in Nat
    BY <1>1, <1>2
  <2> DEFINE h == c - e - 1
  <2>2. h \in Nat /\ c = e + 1 + h
    BY <2>1
  <2> HIDE DEF h
  <2>3. q * c = q * e + q + q * h /\ q * h \in Nat /\ q * e \in Nat
    BY <1>1, <2>2
  <2> QED BY <1>1, <2>3
<1>3. CASE c < e
  <2>1. e = c + 1 + (e - c - 1) /\ e - c - 1 \in Nat
    BY <1>1, <1>3
  <2> DEFINE h == e - c - 1
  <2>2. h \in Nat /\ e = c + 1 + h
    BY <2>1
  <2> HIDE DEF h
  <2>3. q * e = q * c + q + q * h /\ q * h \in Nat /\ q * c \in Nat
    BY <1>1, <2>2
  <2> QED BY <1>1, <2>3
<1>4. CASE e = c
  <2>1. q * e = q * c
    BY <1>4
  <2>2. s = r
    <3> DEFINE z == q * c
    <3>1. z \in Nat /\ x = z + r /\ z + s = x
      BY <1>0, <1>1, <2>1
    <3> HIDE DEF z
    <3> QED BY <1>1, <3>1
  <2> QED BY <1>4, <2>2 DEF e, s
<1> QED BY <1>1, <1>2, <1>3, <1>4

LEMMA HalfOf ==
  ASSUME NEW x \in Nat, NEW q \in Nat \ {0}
  PROVE  x \div (2 * q) = (x \div q) \div 2
<1> DEFINE a == x \div q
           r == x % q
           c == a \div 2
           s == a % 2
<1>1. a \in Nat /\ r \in 0..(q - 1) /\ q * a + r = x
  BY Division
<1>2. c \in Nat /\ s \in 0..1 /\ 2 * c + s = a
  BY <1>1, Division
<1> HIDE DEF a, r, c, s
<1>3. q * a = (2 * q) * c + q * s
  BY <1>1, <1>2
<1>4. q * s = 0 \/ q * s = q
  BY <1>2
<1> DEFINE z == (2 * q) * c
           y == q * s
<1>5. z \in Nat /\ y \in {0, q} /\ x = z + (y + r) /\ y + r \in 0..(2 * q - 1)
  <2>1. q * a = z + y /\ y \in {0, q} /\ z \in Int
    BY <1>1, <1>2, <1>3, <1>4
  <2>2. z \in Nat
    BY <1>2
  <2> HIDE DEF z, y
  <2> QED BY <1>1, <2>1, <2>2
<1>6. x \div (2 * q) = c
  <2> DEFINE k == 2 * q
             f == y + r
  <2>1. k \in Nat \ {0} /\ f \in 0..(k - 1) /\ x = k * c + f
    BY <1>5
  <2> HIDE DEF k, f
  <2>2. x \div k = c
    BY <1>2, <2>1, Quotient
  <2> QED BY <2>2 DEF k
<1> QED BY <1>6 DEF c, a

LEMMA RemainderSum ==
  ASSUME NEW n \in Nat \ {0}, NEW a \in Nat, NEW b \in Nat
  PROVE  ((a % n) + b) % n = (a + b) % n
<1> DEFINE q == a \div n
           r == a % n
           c == (r + b) \div n
           s == (r + b) % n
<1>1. q \in Nat /\ r \in 0..(n - 1) /\ n * q + r = a
  BY Division
<1>2. c \in Nat /\ s \in 0..(n - 1) /\ n * c + s = r + b
  <2>1. r + b \in Nat
    BY <1>1
  <2> QED BY <2>1, Division
<1> HIDE DEF q, r, c, s
<1>3. n * (q + c) = n * q + n * c /\ n * q \in Nat /\ n * c \in Nat /\ q + c \in Nat
  BY <1>1, <1>2
<1>4. a + b = n * (q + c) + s
  BY <1>1, <1>2, <1>3
<1>5. (a + b) % n = s
  <2> DEFINE k == q + c
             x == a + b
  <2>1. k \in Nat /\ x = n * k + s
    BY <1>3, <1>4
  <2> HIDE DEF k, x
  <2>2. x % n = s
    BY <1>2, <2>1, Quotient
  <2> QED BY <2>2 DEF x
<1> QED BY <1>5 DEF s, r

LEMMA RemainderOnce ==
  ASSUME NEW n \in Nat \ {0}, NEW a \in Nat, NEW b \in Nat, a % n = b % n, a <= b, b < a + n
  PROVE  a = b
<1> DEFINE q == a \div n
           r == a % n
           c == b \div n
<1>1. q \in Nat /\ r \in 0..(n - 1) /\ n * q + r = a
  BY Division
<1>2. c \in Nat /\ n * c + r = b
  BY Division
<1> HIDE DEF q, r, c
<1>3. CASE q = c
  BY <1>1, <1>2, <1>3
<1>4. CASE q < c
  <2> DEFINE h == c - q - 1
  <2>1. h \in Nat /\ c = q + 1 + h
    BY <1>1, <1>2, <1>4
  <2> HIDE DEF h
  <2>2. n * c = n * q + n + n * h /\ n * h \in Nat /\ n * q \in Nat
    BY <1>1, <2>1
  <2> QED BY <1>1, <1>2, <2>2
<1>5. CASE c < q
  <2> DEFINE h == q - c - 1
  <2>1. h \in Nat /\ q = c + 1 + h
    BY <1>1, <1>2, <1>5
  <2> HIDE DEF h
  <2>2. n * q = n * c + n + n * h /\ n * h \in Nat /\ n * c \in Nat
    BY <1>2, <2>1
  <2> QED BY <1>1, <1>2, <2>2
<1> QED BY <1>1, <1>2, <1>3, <1>4, <1>5

LEMMA RemainderShift ==
  ASSUME NEW n \in Nat \ {0}, NEW a \in Nat
  PROVE  (a + n) % n = a % n
<1> DEFINE q == a \div n
           r == a % n
           x == a + n
           k == q + 1
<1>1. q \in Nat /\ r \in 0..(n - 1) /\ n * q + r = a
  BY Division
<1> HIDE DEF q, r
<1>2. n * k = n * q + n /\ n * q \in Nat /\ k \in Nat
  BY <1>1
<1>3. x = n * k + r
  BY <1>1, <1>2
<1> HIDE DEF x, k
<1>4. x % n = r
  BY <1>1, <1>2, <1>3, Quotient
<1> QED BY <1>4 DEF x, r

\* The value of the first bits of a sequence.
IsValue(s, n, g) == n \in Nat /\ n = Len(s) /\ g[0] = 0 /\ \A k \in 1..n : g[k] = 2 * g[k - 1] + s[k]

LEMMA ValueBy ==
  ASSUME NEW s, NEW n, NEW g, IsValue(s, n, g)
  PROVE  L!ValueOf(s) = g[n]
<1> USE DEF IsValue
<1> DEFINE E(v) == v = [k \in 0..Len(s) |-> IF k = 0 THEN 0 ELSE 2 * v[k - 1] + s[k]]
           v == CHOOSE u : E(u)
           h == [k \in 0..n |-> g[k]]
<1>1. L!ValueOf(s) = v[n]
  BY DEF L!ValueOf
<1>2. E(h)
  <2>1. ASSUME NEW k \in 0..n PROVE h[k] = IF k = 0 THEN 0 ELSE 2 * h[k - 1] + s[k]
    <3>1. CASE k = 0
      BY <3>1
    <3>2. CASE k # 0
      <4>1. k \in 1..n /\ k - 1 \in 0..n
        BY <3>2
      <4> QED BY <3>2, <4>1
    <3> QED BY <3>1, <3>2
  <2> QED BY <2>1
<1>3. E(v)
  <2> HIDE DEF E, h
  <2> QED BY <1>2 DEF v
<1> HIDE DEF v
<1>4. \A k \in Nat : k <= n => v[k] = g[k]
  <2> DEFINE T == {k \in Nat : k <= n => v[k] = g[k]}
  <2>1. 0 \in T
    BY <1>3
  <2>2. ASSUME NEW k \in Nat, k \in T PROVE k + 1 \in T
    <3> SUFFICES ASSUME k + 1 <= n PROVE v[k + 1] = g[k + 1]
      OBVIOUS
    <3>1. k + 1 \in 0..Len(s) /\ k + 1 \in 1..n /\ (k + 1) - 1 = k /\ k + 1 # 0 /\ k <= n
      OBVIOUS
    <3>2. v[k + 1] = 2 * v[k] + s[k + 1]
      BY <1>3, <3>1
    <3>3. g[k + 1] = 2 * g[k] + s[k + 1]
      BY <3>1
    <3> QED BY <2>2, <3>1, <3>2, <3>3
  <2>3. Nat \subseteq T
    <3> HIDE DEF T
    <3> QED BY <2>1, <2>2, Induction
  <2> QED BY <2>3
<1> QED BY <1>1, <1>4

\* A loop whose turns are numbered.
IsRun(f, S, first, step) ==
  f \in [Nat -> S] /\ f[0] = first /\ \A n \in Nat : f[n + 1] = step[<<n, f[n]>>]

LEMMA Numbered ==
  ASSUME NEW S, NEW first \in S, NEW step \in [Nat \X S -> S]
  PROVE  \E f : IsRun(f, S, first, step)
<1> DEFINE S2 == Nat \X S
           first2 == <<0, first>>
           step2 == [z \in S2 |-> <<z[1] + 1, step[z]>>]
<1>1. first2 \in S2 /\ step2 \in [S2 -> S2]
  OBVIOUS
<1>2. PICK h : IsLoop(h, S2, first2, step2)
  <2> HIDE DEF S2, first2, step2
  <2> QED BY <1>1, Iterate
<1>3. h \in [Nat -> S2] /\ h[0] = first2 /\ \A n \in Nat : h[n + 1] = step2[h[n]]
  BY <1>2 DEF IsLoop
<1>4. \A n \in Nat : h[n][1] = n
  <2> DEFINE T == {n \in Nat : h[n][1] = n}
  <2>1. 0 \in T
    BY <1>3
  <2>2. ASSUME NEW n \in Nat, n \in T PROVE n + 1 \in T
    <3>1. h[n] \in S2 /\ h[n + 1] = step2[h[n]]
      BY <1>3
    <3>2. h[n + 1] = <<h[n][1] + 1, step[h[n]]>>
      BY <3>1
    <3> QED BY <2>2, <3>2
  <2>3. Nat \subseteq T
    <3> HIDE DEF T
    <3> QED BY <2>1, <2>2, Induction
  <2> QED BY <2>3
<1> DEFINE f == [n \in Nat |-> h[n][2]]
<1>5. f \in [Nat -> S] /\ f[0] = first
  BY <1>3
<1>6. ASSUME NEW n \in Nat PROVE f[n + 1] = step[<<n, f[n]>>]
  <2>1. h[n] \in S2 /\ n + 1 \in Nat
    BY <1>3
  <2>2. h[n] = <<n, f[n]>>
    BY <1>4, <2>1
  <2>3. h[n + 1] = step2[h[n]]
    <3> HIDE DEF S2, step2, f
    <3> QED BY <1>3
  <2>4. h[n + 1] = <<h[n][1] + 1, step[h[n]]>>
    BY <2>1, <2>3
  <2> QED BY <2>1, <2>2, <2>4
<1> QED BY <1>5, <1>6 DEF IsRun

Bits == {0, 1}

LEMMA ValueTable ==
  ASSUME NEW s \in Seq(Bits)
  PROVE  \E g : g \in [Nat -> Nat] /\ g[0] = 0 /\ \A k \in 1..Len(s) : g[k] = 2 * g[k - 1] + s[k]
<1> DEFINE n == Len(s)
           step == [z \in Nat \X Nat |-> IF z[1] + 1 \in 1..n THEN 2 * z[2] + s[z[1] + 1] ELSE 0]
<1>1. n \in Nat /\ \A k \in 1..n : s[k] \in Nat
  BY DEF Bits
<1> HIDE DEF n
<1>2. step \in [Nat \X Nat -> Nat]
  BY <1>1
<1>3. \A z \in Nat \X Nat : step[z] = IF z[1] + 1 \in 1..n THEN 2 * z[2] + s[z[1] + 1] ELSE 0
  OBVIOUS
<1> HIDE DEF step
<1>4. PICK g : g \in [Nat -> Nat] /\ g[0] = 0 /\ \A k \in Nat : g[k + 1] = step[<<k, g[k]>>]
  <2>1. \E g : IsRun(g, Nat, 0, step)
    BY <1>2, Numbered
  <2> QED BY <2>1 DEF IsRun
<1>5. ASSUME NEW k \in 1..n PROVE g[k] = 2 * g[k - 1] + s[k]
  <2>1. k - 1 \in Nat /\ (k - 1) + 1 = k
    BY <1>1
  <2>2. g[k] = step[<<k - 1, g[k - 1]>>]
    BY <1>4, <2>1
  <2>3. <<k - 1, g[k - 1]>> \in Nat \X Nat
    BY <1>4, <2>1
  <2> QED BY <1>3, <2>1, <2>2, <2>3
<1> QED BY <1>4, <1>5 DEF n

\* The bits of B behind position p.
LEMMA ValueOn ==
  ASSUME NEW B \in Seq(Bits), NEW p \in Nat, NEW n \in Nat, p + n < Len(B)
  PROVE  /\ L!ValueOf(SubSeq(B, p + 1, p + n)) \in Nat
         /\ L!ValueOf(SubSeq(B, p + 1, p + (n + 1)))
              = 2 * L!ValueOf(SubSeq(B, p + 1, p + n)) + B[p + (n + 1)]
<1> DEFINE s == SubSeq(B, p + 1, p + (n + 1))
           t == SubSeq(B, p + 1, p + n)
<1>0. Len(B) \in Nat
  OBVIOUS
<1>1. s \in Seq(Bits) /\ Len(s) = n + 1 /\ \A i \in 1..(n + 1) : s[i] = B[p + i]
  BY <1>0
<1>2. Len(t) = n /\ \A i \in 1..n : t[i] = B[p + i]
  BY <1>0
<1> HIDE DEF s, t
<1>3. PICK g : g \in [Nat -> Nat] /\ g[0] = 0 /\ \A k \in 1..Len(s) : g[k] = 2 * g[k - 1] + s[k]
  BY <1>1, ValueTable
<1>4. L!ValueOf(s) = g[n + 1]
  <2> DEFINE m == n + 1
  <2>1. m \in Nat /\ m = Len(s) /\ \A k \in 1..m : g[k] = 2 * g[k - 1] + s[k]
    BY <1>1, <1>3
  <2> HIDE DEF m
  <2>2. L!ValueOf(s) = g[m]
    BY <1>3, <2>1, ValueBy DEF IsValue
  <2> QED BY <2>2 DEF m
<1>5. L!ValueOf(t) = g[n]
  <2>1. \A k \in 1..n : g[k] = 2 * g[k - 1] + t[k]
    <3> SUFFICES ASSUME NEW k \in 1..n PROVE g[k] = 2 * g[k - 1] + t[k]
      OBVIOUS
    <3>1. k \in 1..(n + 1) /\ k \in 1..Len(s)
      BY <1>1
    <3>2. t[k] = s[k]
      BY <1>1, <1>2, <3>1
    <3> QED BY <1>3, <3>1, <3>2
  <2>2. IsValue(t, n, g)
    BY <1>2, <1>3, <2>1 DEF IsValue
  <2> QED BY <2>2, ValueBy
<1>6. g[n] \in Nat /\ g[n + 1] = 2 * g[n] + s[n + 1]
  <2>1. n + 1 \in 1..Len(s) /\ (n + 1) - 1 = n
    BY <1>1
  <2> QED BY <1>3, <2>1
<1>7. s[n + 1] = B[p + (n + 1)]
  BY <1>1
<1>8. L!ValueOf(t) \in Nat /\ L!ValueOf(s) = 2 * L!ValueOf(t) + B[p + (n + 1)]
  BY <1>4, <1>5, <1>6, <1>7
<1> QED BY <1>8 DEF s, t

LEMMA ValueNone ==
  ASSUME NEW B \in Seq(Bits), NEW p \in Nat
  PROVE  L!ValueOf(SubSeq(B, p + 1, p)) = 0
<1> DEFINE s == SubSeq(B, p + 1, p)
           g == [k \in Nat |-> 0]
<1>1. Len(s) = 0 /\ 1..0 = {}
  OBVIOUS
<1> HIDE DEF s
<1>2. IsValue(s, 0, g)
  BY <1>1 DEF IsValue
<1>3. g[0] = 0
  OBVIOUS
<1> HIDE DEF g
<1>4. L!ValueOf(s) = g[0]
  BY <1>2, ValueBy
<1> QED BY <1>3, <1>4 DEF s

\* The powers of two that the assumptions speak of.
Pow(k) == 2^k
Widths == 0..(BITS + EI + EJ)

LEMMA Powers ==
  /\ BITS \in Nat \ {0, 1} /\ EI \in Nat \ {0} /\ EJ \in Nat \ {0}
  /\ Pow(0) = 1
  /\ \A k \in Widths : Pow(k) \in Nat \ {0} /\ Pow(k + 1) = 2 * Pow(k)
BY PowersAssumption, LzssAssumption, BsdiffAssumption DEF Pow, Widths

LEMMA BitsAre ==
  ASSUME NEW x \in Nat, NEW n \in Widths
  PROVE  /\ L!BitsOf(x, n) \in Seq(Bits) /\ Len(L!BitsOf(x, n)) = n
         /\ \A b \in 1..n : L!BitsOf(x, n)[b] = (x \div Pow(n - b)) % 2
<1> DEFINE s == L!BitsOf(x, n)
<1>1. n \in Nat
  BY Powers DEF Widths
<1>2. s = [b \in 1..n |-> (x \div Pow(n - b)) % 2]
  BY DEF L!BitsOf, Pow
<1> HIDE DEF s
<1>3. ASSUME NEW b \in 1..n PROVE (x \div Pow(n - b)) % 2 \in Bits
  <2>1. n - b \in Widths
    BY <1>1, Powers DEF Widths
  <2> DEFINE z == x \div Pow(n - b)
  <2>2. z \in Nat
    <3>1. Pow(n - b) \in Nat \ {0}
      BY <2>1, Powers
    <3> QED BY <3>1, Division
  <2> HIDE DEF z
  <2>3. z % 2 \in Bits
    BY <2>2 DEF Bits
  <2> QED BY <2>3 DEF z
<1>4. s \in [1..n -> Bits]
  BY <1>2, <1>3
<1>5. s \in Seq(Bits) /\ Len(s) = n
  BY <1>1, <1>4
<1> QED BY <1>2, <1>5 DEF s

\* What the encoder writes with BitsOf, the decoders read back.
LEMMA ReadBack ==
  ASSUME NEW n \in Widths, NEW x \in Nat, x < Pow(n), NEW s, Len(s) = n,
         \A b \in 1..n : s[b] = L!BitsOf(x, n)[b]
  PROVE  L!ValueOf(s) = x
<1>1. n \in Nat
  BY Powers DEF Widths
<1> DEFINE g == [k \in 0..n |-> x \div Pow(n - k)]
<1>2. g[0] = 0
  <2>1. n - 0 = n /\ 0 \in 0..n /\ Pow(n) \in Nat \ {0}
    BY <1>1, Powers
  <2> DEFINE q == Pow(n)
  <2>2. q \in Nat \ {0} /\ x < q
    BY <2>1
  <2> HIDE DEF q
  <2>3. x \div q = 0
    BY <2>2
  <2> QED BY <2>1, <2>3 DEF q
<1>3. ASSUME NEW k \in 1..n PROVE g[k] = 2 * g[k - 1] + s[k]
  <2>1. /\ k \in 0..n /\ k - 1 \in 0..n /\ n - (k - 1) = (n - k) + 1 /\ n - k \in Widths
    BY <1>1, Powers DEF Widths
  <2> DEFINE q == Pow(n - k)
             z == x \div q
  <2>2. q \in Nat \ {0} /\ Pow((n - k) + 1) = 2 * q
    BY <2>1, Powers
  <2>3. s[k] = z % 2
    BY BitsAre
  <2>4. g[k - 1] = x \div (2 * q) /\ g[k] = z
    BY <2>1, <2>2
  <2> HIDE DEF q, g
  <2>5. x \div (2 * q) = z \div 2 /\ z \in Nat
    BY <2>2, HalfOf, Division
  <2> HIDE DEF z
  <2>6. 2 * (z \div 2) + (z % 2) = z
    BY <2>5, Division
  <2> QED BY <2>3, <2>4, <2>5, <2>6
<1>4. g[n] = x
  <2>1. n - n = 0 /\ n \in 0..n /\ x \div 1 = x
    BY <1>1
  <2> QED BY <2>1, Powers
<1> HIDE DEF g
<1>5. IsValue(s, n, g)
  BY <1>1, <1>2, <1>3 DEF IsValue
<1>6. L!ValueOf(s) = g[n]
  BY <1>5, ValueBy
<1> QED BY <1>4, <1>6

LEMMA WriteBack ==
  ASSUME NEW n \in Widths, NEW s \in Seq(Bits), Len(s) = n
  PROVE  /\ L!ValueOf(s) \in Nat /\ L!ValueOf(s) < Pow(n)
         /\ \A b \in 1..n : L!BitsOf(L!ValueOf(s), n)[b] = s[b]
<1>1. n \in Nat
  BY Powers DEF Widths
<1>2. PICK g : g \in [Nat -> Nat] /\ g[0] = 0 /\ \A k \in 1..n : g[k] = 2 * g[k - 1] + s[k]
  BY ValueTable
<1>3. L!ValueOf(s) = g[n]
  <2>1. IsValue(s, n, g)
    BY <1>1, <1>2 DEF IsValue
  <2> QED BY <2>1, ValueBy
<1>4. \A k \in 1..n : s[k] \in {0, 1}
  BY DEF Bits
<1>5. \A k \in Nat : k <= n => g[k] < Pow(k)
  <2> DEFINE T == {k \in Nat : k <= n => g[k] < Pow(k)}
  <2>1. 0 \in T
    BY <1>2, Powers
  <2>2. ASSUME NEW k \in Nat, k \in T PROVE k + 1 \in T
    <3> SUFFICES ASSUME k + 1 <= n PROVE g[k + 1] < Pow(k + 1)
      OBVIOUS
    <3>1. k + 1 \in 1..n /\ k <= n /\ (k + 1) - 1 = k /\ k \in Widths
      BY <1>1, Powers DEF Widths
    <3>2. g[k + 1] = 2 * g[k] + s[k + 1] /\ s[k + 1] \in {0, 1} /\ g[k] \in Nat
      BY <1>2, <1>4, <3>1
    <3>3. Pow(k + 1) = 2 * Pow(k) /\ Pow(k) \in Nat \ {0} /\ g[k] < Pow(k)
      BY <2>2, <3>1, Powers
    <3> QED BY <3>2, <3>3
  <2>3. Nat \subseteq T
    <3> HIDE DEF T
    <3> QED BY <2>1, <2>2, Induction
  <2> QED BY <2>3
<1>6. ASSUME NEW k \in 1..n PROVE g[k] \div 2 = g[k - 1] /\ g[k] % 2 = s[k]
  <2>1. g[k] = 2 * g[k - 1] + s[k] /\ s[k] \in 0..1 /\ k - 1 \in Nat
    BY <1>2, <1>4
  <2>2. g[k - 1] \in Nat
    BY <1>2, <2>1
  <2> DEFINE x == g[k]
             c == g[k - 1]
             e == s[k]
  <2>3. c \in Nat /\ e \in 0..(2 - 1) /\ x = 2 * c + e /\ 2 \in Nat \ {0}
    BY <2>1, <2>2
  <2> HIDE DEF x, c, e
  <2>4. x \div 2 = c /\ x % 2 = e
    BY <2>3, Quotient
  <2> QED BY <2>4 DEF x, c, e
<1>7. \A j \in Nat : j <= n => g[n] \div Pow(j) = g[n - j]
  <2> DEFINE T == {j \in Nat : j <= n => g[n] \div Pow(j) = g[n - j]}
  <2>1. 0 \in T
    <3>1. g[n] \in Nat /\ n - 0 = n
      BY <1>1, <1>2
    <3>2. g[n] \div 1 = g[n]
      BY <3>1
    <3> QED BY <3>1, <3>2, Powers
  <2>2. ASSUME NEW j \in Nat, j \in T PROVE j + 1 \in T
    <3> SUFFICES ASSUME j + 1 <= n PROVE g[n] \div Pow(j + 1) = g[n - (j + 1)]
      OBVIOUS
    <3>1. j \in Widths /\ j <= n /\ n - j \in 1..n /\ (n - j) - 1 = n - (j + 1)
      BY <1>1, Powers DEF Widths
    <3>2. Pow(j + 1) = 2 * Pow(j) /\ Pow(j) \in Nat \ {0} /\ g[n] \in Nat
      BY <1>1, <1>2, <3>1, Powers
    <3>3. g[n] \div (2 * Pow(j)) = (g[n] \div Pow(j)) \div 2
      BY <3>2, HalfOf
    <3>4. g[n] \div Pow(j) = g[n - j]
      BY <2>2, <3>1
    <3> QED BY <1>6, <3>1, <3>2, <3>3, <3>4
  <2>3. Nat \subseteq T
    <3> HIDE DEF T
    <3> QED BY <2>1, <2>2, Induction
  <2> QED BY <2>3
<1>8. ASSUME NEW b \in 1..n PROVE L!BitsOf(g[n], n)[b] = s[b]
  <2>1. n - b \in Nat /\ n - b <= n /\ n - (n - b) = b
    BY <1>1
  <2>2. g[n] \in Nat
    BY <1>1, <1>2
  <2>3. L!BitsOf(g[n], n)[b] = (g[n] \div Pow(n - b)) % 2
    BY <2>2, BitsAre
  <2>4. g[n] \div Pow(n - b) = g[b]
    BY <1>7, <2>1
  <2> QED BY <1>6, <2>3, <2>4
<1> QED BY <1>1, <1>2, <1>3, <1>5, <1>8

----------------------------------------------------------------------------
(* Tokens.  Both decoders go through the bits token by token; a is what    *)
(* they have at the beginning of one: its position, the window and what    *)
(* came out so far.                                                        *)

Val(B, p, n) == L!ValueOf(SubSeq(B, p + 1, p + n))

TokenLen(B, p) == 1 + IF B[p + 1] = 1 THEN BITS ELSE EI + EJ

TokenOut(B, a) ==
  IF B[a.p + 1] = 1 THEN L!CopyByte(a.w, Val(B, a.p + 1, BITS))
  ELSE L!CopyMatch(a.w, Val(B, a.p + 1, EI), Val(B, a.p + 1 + EI, EJ) + 2)

After(B, a) == [p |-> a.p + TokenLen(B, a.p), w |-> TokenOut(B, a).w,
                out |-> a.out \o TokenOut(B, a).out]

LEMMA TokenLength ==
  ASSUME NEW B, NEW p
  PROVE  TokenLen(B, p) \in Nat /\ TokenLen(B, p) >= BITS /\ TokenLen(B, p) > 1
<1>1. BITS \in Nat \ {0, 1} /\ EI \in Nat \ {0} /\ EJ \in Nat \ {0} /\ 1 + EI + EJ >= BITS
  BY LzssAssumption, BsdiffAssumption
<1> QED BY <1>1 DEF TokenLen

LEMMA SameValue ==
  ASSUME NEW B \in Seq(Bits), NEW k \in 0..Len(B), NEW p \in Nat, NEW n \in Nat, p + n <= k
  PROVE  Val(SubSeq(B, 1, k), p, n) = Val(B, p, n)
<1> DEFINE C == SubSeq(B, 1, k)
           s == SubSeq(C, p + 1, p + n)
           u == SubSeq(B, p + 1, p + n)
<1>1. Len(B) \in Nat
  OBVIOUS
<1>2. C \in Seq(Bits) /\ Len(C) = k /\ \A i \in 1..k : C[i] = B[i]
  BY <1>1
<1> HIDE DEF C
<1>3. s \in Seq(Bits) /\ Len(s) = n /\ \A i \in 1..n : s[i] = C[p + i]
  BY <1>2
<1>4. u \in Seq(Bits) /\ Len(u) = n /\ \A i \in 1..n : u[i] = B[p + i]
  BY <1>1
<1> HIDE DEF s, u
<1>5. \A i \in 1..Len(s) : s[i] = u[i]
  <2> SUFFICES ASSUME NEW i \in 1..n PROVE s[i] = u[i]
    BY <1>3
  <2>1. p + i \in 1..k
    BY <1>1
  <2> QED BY <1>2, <1>3, <1>4, <2>1
<1>6. s = u
  BY <1>3, <1>4, <1>5, SameSequence
<1> QED BY <1>6 DEF Val, s, u, C

\* A turn of the tool's decoder, when it has the first k bits.
LEMMA TokenDecoded ==
  ASSUME NEW B \in Seq(Bits), NEW k \in 0..Len(B), NEW a, a.p \in Nat, a.p <= k
  PROVE  L!DecodeToken(SubSeq(B, 1, k), a)
           = IF a.p + TokenLen(B, a.p) <= k THEN After(B, a) ELSE a
<1> DEFINE C == SubSeq(B, 1, k)
           p == a.p
           lit == p + 1 <= Len(C) /\ C[p + 1] = 1
           len == 1 + IF lit THEN BITS ELSE EI + EJ
           a1 == IF lit THEN L!CopyByte(a.w, L!ValueOf(SubSeq(C, p + 1 + 1, p + 1 + BITS)))
                 ELSE L!CopyMatch(a.w, L!ValueOf(SubSeq(C, p + 1 + 1, p + 1 + EI)),
                                  L!ValueOf(SubSeq(C, p + (1 + EI) + 1, p + (1 + EI) + EJ)) + 2)
<1>0. Len(B) \in Nat /\ k \in Nat /\ p \in Nat
  OBVIOUS
<1>1. Len(C) = k /\ \A i \in 1..k : C[i] = B[i]
  BY <1>0
<1>2. L!DecodeToken(C, a) = IF p + len <= Len(C)
                            THEN [p |-> p + len, w |-> a1.w, out |-> a.out \o a1.out] ELSE a
  <2> HIDE DEF C
  <2> QED BY DEF L!DecodeToken
<1>3. BITS \in Nat \ {0, 1} /\ EI \in Nat \ {0} /\ EJ \in Nat \ {0}
  BY LzssAssumption, BsdiffAssumption
<1> HIDE DEF C, p, len, a1
<1>4. CASE p < k
  <2>1. p + 1 \in 1..k
    BY <1>0, <1>4
  <2>2. lit <=> B[p + 1] = 1
    BY <1>0, <1>1, <2>1
  <2>3. len = TokenLen(B, p)
    BY <2>2 DEF len, TokenLen
  <2>4. ASSUME p + len <= k PROVE a1 = TokenOut(B, a)
    <3>1. CASE B[p + 1] = 1
      <4>1. len = 1 + BITS /\ (p + 1) + BITS <= k /\ p + 1 \in Nat
        BY <1>0, <1>3, <2>2, <2>4, <3>1 DEF len
      <4>2. Val(C, p + 1, BITS) = Val(B, p + 1, BITS)
        BY <1>3, <4>1, SameValue DEF C
      <4> QED BY <2>2, <3>1, <4>2 DEF a1, TokenOut, Val, p
    <3>2. CASE ~(B[p + 1] = 1)
      <4>1. /\ len = 1 + (EI + EJ) /\ (p + 1) + EI <= k /\ p + 1 \in Nat
            /\ p + 1 + EI \in Nat /\ (p + 1 + EI) + EJ <= k /\ p + (1 + EI) = p + 1 + EI
        BY <1>0, <1>3, <2>2, <2>4, <3>2 DEF len
      <4>2. Val(C, p + 1, EI) = Val(B, p + 1, EI)
        BY <1>3, <4>1, SameValue DEF C
      <4>3. Val(C, p + 1 + EI, EJ) = Val(B, p + 1 + EI, EJ)
        BY <1>3, <4>1, SameValue DEF C
      <4> QED BY <2>2, <3>2, <4>1, <4>2, <4>3 DEF a1, TokenOut, Val, p
    <3> QED BY <3>1, <3>2
  <2> QED BY <1>1, <1>2, <2>3, <2>4 DEF After, C, p
<1>5. CASE ~(p < k)
  <2>1. ~(p + len <= Len(C))
    BY <1>0, <1>1, <1>3, <1>5 DEF len
  <2>2. ~(p + TokenLen(B, p) <= k)
    BY <1>0, <1>5, TokenLength
  <2> QED BY <1>2, <2>1, <2>2 DEF C, p
<1> QED BY <1>4, <1>5

IsLz(z) == z = [getting |-> z.getting, s |-> z.s, x |-> z.x, i |-> z.i, w |-> z.w]

\* The decoder of the device has the first k bits: those of the token that
\* begins at a were read up to there.
InToken(B, k, z, a) ==
  /\ IsLz(z) /\ z.w = a.w /\ a.p \in Nat /\ z.s \in Nat
  /\ \/ z.getting = "flag" /\ k = a.p
     \/ /\ z.getting = "char" /\ B[a.p + 1] = 1 /\ z.s < BITS /\ k = (a.p + 1) + z.s
        /\ z.x = Val(B, a.p + 1, z.s)
     \/ /\ z.getting = "pos" /\ B[a.p + 1] # 1 /\ z.s < EI /\ k = (a.p + 1) + z.s
        /\ z.x = Val(B, a.p + 1, z.s)
     \/ /\ z.getting = "len" /\ B[a.p + 1] # 1 /\ z.s < EJ /\ k = (a.p + 1 + EI) + z.s
        /\ z.i = Val(B, a.p + 1, EI) /\ z.x = Val(B, a.p + 1 + EI, z.s)

LEMMA Unfinished ==
  ASSUME NEW B, NEW k, NEW z, NEW a, InToken(B, k, z, a)
  PROVE  k \in Nat /\ a.p \in Nat /\ a.p <= k /\ k < a.p + TokenLen(B, a.p)
<1>1. BITS \in Nat \ {0, 1} /\ EI \in Nat \ {0} /\ EJ \in Nat \ {0}
  BY LzssAssumption, BsdiffAssumption
<1> DEFINE p == a.p
           s == z.s
<1>2. p \in Nat /\ s \in Nat
  BY DEF InToken
<1>3. \/ k = p
      \/ B[p + 1] = 1 /\ s < BITS /\ k = (p + 1) + s
      \/ B[p + 1] # 1 /\ s < EI /\ k = (p + 1) + s
      \/ B[p + 1] # 1 /\ s < EJ /\ k = (p + 1 + EI) + s
  BY DEF InToken
<1> HIDE DEF p, s
<1>4. TokenLen(B, p) = IF B[p + 1] = 1 THEN 1 + BITS ELSE 1 + (EI + EJ)
  BY DEF TokenLen
<1>5. k \in Nat /\ p <= k /\ k < p + TokenLen(B, p)
  <2>1. CASE k = p
    BY <1>1, <1>2, <1>4, <2>1
  <2>2. CASE B[p + 1] = 1 /\ s < BITS /\ k = (p + 1) + s
    BY <1>1, <1>2, <1>4, <2>2
  <2>3. CASE B[p + 1] # 1 /\ s < EI /\ k = (p + 1) + s
    BY <1>1, <1>2, <1>4, <2>3
  <2>4. CASE B[p + 1] # 1 /\ s < EJ /\ k = (p + 1 + EI) + s
    BY <1>1, <1>2, <1>4, <2>4
  <2> QED BY <1>3, <2>1, <2>2, <2>3, <2>4
<1> QED BY <1>2, <1>5 DEF p

\* What one more bit does: the token goes on, or it is complete and handed on.
BitOK(B, k, g, a) ==
  \/ g.emit = <<>> /\ InToken(B, k + 1, g.d, a)
  \/ /\ a.p + TokenLen(B, a.p) = k + 1 /\ g.emit = TokenOut(B, a).out
     /\ InToken(B, k + 1, g.d, After(B, a))

LEMMA ValOn ==
  ASSUME NEW B \in Seq(Bits), NEW p \in Nat, NEW n \in Nat, p + n < Len(B)
  PROVE  Val(B, p, n) \in Nat /\ Val(B, p, n + 1) = 2 * Val(B, p, n) + B[p + (n + 1)]
BY ValueOn DEF Val

LEMMA FlagStart ==
  ASSUME NEW B, NEW k, NEW z, NEW a, IsLz(z), z.getting = "flag", z.w = a.w, z.s \in Nat,
         a.p \in Nat, k = a.p
  PROVE  InToken(B, k, z, a)
BY Zenon DEF InToken

LEMMA BitStep ==
  ASSUME NEW B \in Seq(Bits), NEW k, NEW z, NEW a, InToken(B, k, z, a), k < Len(B)
  PROVE  BitOK(B, k, L!GetBit(z, B[k + 1]), a)
<1> DEFINE b == B[k + 1]
           g == L!GetBit(z, b)
           p == a.p
           s == z.s
<1>1. BITS \in Nat \ {0, 1} /\ EI \in Nat \ {0} /\ EJ \in Nat \ {0} /\ Len(B) \in Nat
  BY LzssAssumption, BsdiffAssumption
<1>2. IsLz(z) /\ z.w = a.w /\ p \in Nat /\ s \in Nat
  BY DEF InToken
<1>3. k \in Nat
  BY Unfinished
<1> HIDE DEF b, p, s
<1>4. CASE z.getting = "flag" /\ k = p
  <2> DEFINE to == IF b = 1 THEN "char" ELSE "pos"
             q == [z EXCEPT !.getting = to, !.s = 0, !.x = 0]
  <2>1. g = [d |-> q, emit |-> <<>>, literal |-> FALSE]
    BY <1>4 DEF L!GetBit
  <2>2. q = [z EXCEPT !.getting = to, !.s = 0, !.x = 0]
    OBVIOUS
  <2> HIDE DEF q, g
  <2>3. IsLz(q) /\ q.w = a.w /\ q.getting = to /\ q.s = 0 /\ q.x = 0
    BY <1>2, <2>2 DEF IsLz
  <2>4. Val(B, p + 1, 0) = 0
    <3>1. p + 1 \in Nat /\ p + 1 + 0 = p + 1
      BY <1>2
    <3> QED BY <3>1, ValueNone DEF Val
  <2>5. 0 \in Nat /\ 0 < BITS /\ 0 < EI /\ k + 1 = (p + 1) + 0
    BY <1>1, <1>2, <1>4
  <2>6. InToken(B, k + 1, q, a)
    <3>1. CASE b = 1
      <4>1. to = "char" /\ B[p + 1] = 1
        BY <1>4, <3>1 DEF b
      <4> QED BY <1>2, <2>3, <2>4, <2>5, <4>1, Zenon DEF InToken, p
    <3>2. CASE b # 1
      <4>1. to = "pos" /\ B[p + 1] # 1
        BY <1>4, <3>2 DEF b
      <4> QED BY <1>2, <2>3, <2>4, <2>5, <4>1, Zenon DEF InToken, p
    <3> QED BY <3>1, <3>2
  <2> QED BY <2>1, <2>6 DEF BitOK, g, b
<1>5. CASE z.getting = "char" /\ B[p + 1] = 1 /\ s < BITS /\ k = (p + 1) + s /\ z.x = Val(B, p + 1, s)
  <2> DEFINE x == 2 * z.x + b
             e == p + 1
             t == s + 1
  <2>0. e \in Nat /\ k = e + s /\ k + 1 = e + (s + 1) /\ t \in Nat
    BY <1>2, <1>5
  <2>1. x = Val(B, e, t)
    <3>1. e + s < Len(B) /\ b = B[e + (s + 1)] /\ z.x = Val(B, e, s)
      BY <1>5, <2>0 DEF b
    <3> HIDE DEF e
    <3> QED BY <1>2, <2>0, <3>1, ValOn
  <2>2. CASE t < BITS
    <3> DEFINE q == [z EXCEPT !.s = t, !.x = x]
    <3>1. g = [d |-> q, emit |-> <<>>, literal |-> FALSE]
      <4>1. z.s + 1 = t
        BY DEF s
      <4> QED BY <1>5, <2>2, <4>1 DEF L!GetBit
    <3>2. q = [z EXCEPT !.s = t, !.x = x]
      OBVIOUS
    <3> HIDE DEF q, g, x, t
    <3>3. IsLz(q) /\ q.w = a.w /\ q.getting = "char" /\ q.s = t /\ q.x = x
      BY <1>2, <1>5, <3>2 DEF IsLz
    <3>4. k + 1 = e + t
      BY <2>0 DEF t
    <3>5. InToken(B, k + 1, q, a)
      BY <1>2, <1>5, <2>0, <2>1, <2>2, <3>3, <3>4, Zenon DEF InToken, p
    <3> QED BY <3>1, <3>5 DEF BitOK, g, b
  <2>3. CASE ~(t < BITS)
    <3> DEFINE c == L!CopyByte(z.w, x)
               q == [z EXCEPT !.getting = "flag", !.s = 0, !.x = 0, !.w = c.w]
    <3>1. g = [d |-> q, emit |-> c.out, literal |-> TRUE]
      <4>1. z.s + 1 = t
        BY DEF s
      <4> HIDE DEF c
      <4> QED BY <1>5, <2>3, <4>1 DEF L!GetBit, c
    <3>2. q = [z EXCEPT !.getting = "flag", !.s = 0, !.x = 0, !.w = c.w]
      OBVIOUS
    <3>3. t = BITS
      BY <1>1, <1>2, <1>5, <2>3
    <3>4. c = TokenOut(B, a) /\ TokenLen(B, p) = 1 + BITS
      BY <1>2, <1>5, <2>1, <3>3 DEF TokenOut, TokenLen, p
    <3>5. p + TokenLen(B, p) = k + 1
      BY <1>1, <1>2, <2>0, <3>3, <3>4
    <3> HIDE DEF q, g, c
    <3>6. IsLz(q) /\ q.w = c.w /\ q.getting = "flag" /\ q.s = 0
      BY <1>2, <3>2 DEF IsLz
    <3>7. InToken(B, k + 1, q, After(B, a))
      <4> DEFINE a2 == After(B, a)
      <4>1. a2.p = k + 1 /\ a2.w = c.w /\ k + 1 \in Nat
        BY <1>3, <3>4, <3>5 DEF After, p
      <4> HIDE DEF a2
      <4>2. InToken(B, k + 1, q, a2)
        <5>1. q.s \in Nat /\ q.w = a2.w /\ a2.p \in Nat
          BY <3>6, <4>1
        <5> QED BY <3>6, <4>1, <5>1, FlagStart
      <4> QED BY <4>2 DEF a2
    <3> QED BY <3>1, <3>4, <3>5, <3>7 DEF BitOK, g, b, p
  <2> QED BY <2>2, <2>3
<1>6. CASE z.getting = "pos" /\ B[p + 1] # 1 /\ s < EI /\ k = (p + 1) + s /\ z.x = Val(B, p + 1, s)
  <2> DEFINE x == 2 * z.x + b
             e == p + 1
             t == s + 1
  <2>0. e \in Nat /\ k = e + s /\ k + 1 = e + (s + 1) /\ t \in Nat
    BY <1>2, <1>6
  <2>1. x = Val(B, e, t)
    <3>1. e + s < Len(B) /\ b = B[e + (s + 1)] /\ z.x = Val(B, e, s)
      BY <1>6, <2>0 DEF b
    <3> HIDE DEF e
    <3> QED BY <1>2, <2>0, <3>1, ValOn
  <2>2. CASE t < EI
    <3> DEFINE q == [z EXCEPT !.s = t, !.x = x]
    <3>1. g = [d |-> q, emit |-> <<>>, literal |-> FALSE]
      <4>1. z.s + 1 = t
        BY DEF s
      <4> QED BY <1>6, <2>2, <4>1 DEF L!GetBit
    <3>2. q = [z EXCEPT !.s = t, !.x = x]
      OBVIOUS
    <3> HIDE DEF q, g, x, t
    <3>3. IsLz(q) /\ q.w = a.w /\ q.getting = "pos" /\ q.s = t /\ q.x = x
      BY <1>2, <1>6, <3>2 DEF IsLz
    <3>4. k + 1 = e + t
      BY <2>0 DEF t
    <3>5. InToken(B, k + 1, q, a)
      BY <1>2, <1>6, <2>0, <2>1, <2>2, <3>3, <3>4, Zenon DEF InToken, p
    <3> QED BY <3>1, <3>5 DEF BitOK, g, b
  <2>3. CASE ~(t < EI)
    <3> DEFINE q == [z EXCEPT !.getting = "len", !.s = 0, !.x = 0, !.i = x]
    <3>1. g = [d |-> q, emit |-> <<>>, literal |-> FALSE]
      <4>1. z.s + 1 = t
        BY DEF s
      <4> QED BY <1>6, <2>3, <4>1 DEF L!GetBit
    <3>2. q = [z EXCEPT !.getting = "len", !.s = 0, !.x = 0, !.i = x]
      OBVIOUS
    <3>3. t = EI
      BY <1>1, <1>2, <1>6, <2>3
    <3> HIDE DEF q, g, x
    <3>4. IsLz(q) /\ q.w = a.w /\ q.getting = "len" /\ q.s = 0 /\ q.x = 0 /\ q.i = x
      BY <1>2, <3>2 DEF IsLz
    <3>5. Val(B, p + 1 + EI, 0) = 0
      <4>1. p + 1 + EI \in Nat /\ (p + 1 + EI) + 0 = p + 1 + EI
        BY <1>1, <1>2
      <4> QED BY <4>1, ValueNone DEF Val
    <3>6. 0 \in Nat /\ 0 < EJ /\ k + 1 = (p + 1 + EI) + 0 /\ x = Val(B, p + 1, EI)
      BY <1>1, <1>2, <2>0, <2>1, <3>3
    <3>7. InToken(B, k + 1, q, a)
      BY <1>2, <1>6, <3>4, <3>5, <3>6, Zenon DEF InToken, p
    <3> QED BY <3>1, <3>7 DEF BitOK, g, b
  <2> QED BY <2>2, <2>3
<1>7. CASE /\ z.getting = "len" /\ B[p + 1] # 1 /\ s < EJ /\ k = (p + 1 + EI) + s
           /\ z.i = Val(B, p + 1, EI) /\ z.x = Val(B, p + 1 + EI, s)
  <2> DEFINE x == 2 * z.x + b
             e == p + 1 + EI
             t == s + 1
  <2>0. e \in Nat /\ k = e + s /\ k + 1 = e + (s + 1) /\ t \in Nat
    BY <1>1, <1>2, <1>7
  <2>1. x = Val(B, e, t)
    <3>1. e + s < Len(B) /\ b = B[e + (s + 1)] /\ z.x = Val(B, e, s)
      BY <1>7, <2>0 DEF b
    <3> HIDE DEF e
    <3> QED BY <1>2, <2>0, <3>1, ValOn
  <2>2. CASE t < EJ
    <3> DEFINE q == [z EXCEPT !.s = t, !.x = x]
    <3>1. g = [d |-> q, emit |-> <<>>, literal |-> FALSE]
      <4>1. z.s + 1 = t
        BY DEF s
      <4> QED BY <1>7, <2>2, <4>1 DEF L!GetBit
    <3>2. q = [z EXCEPT !.s = t, !.x = x]
      OBVIOUS
    <3> HIDE DEF q, g, x, t
    <3>3. IsLz(q) /\ q.w = a.w /\ q.getting = "len" /\ q.s = t /\ q.x = x /\ q.i = z.i
      BY <1>2, <1>7, <3>2 DEF IsLz
    <3>4. k + 1 = e + t
      BY <2>0 DEF t
    <3>5. InToken(B, k + 1, q, a)
      BY <1>2, <1>7, <2>0, <2>1, <2>2, <3>3, <3>4, Zenon DEF InToken, p
    <3> QED BY <3>1, <3>5 DEF BitOK, g, b
  <2>3. CASE ~(t < EJ)
    <3> DEFINE c == L!CopyMatch(z.w, z.i, x + 2)
               q == [z EXCEPT !.getting = "flag", !.s = 0, !.x = 0, !.w = c.w]
    <3>1. g = [d |-> q, emit |-> c.out, literal |-> FALSE]
      <4>1. z.s + 1 = t
        BY DEF s
      <4> HIDE DEF c
      <4> QED BY <1>7, <2>3, <4>1 DEF L!GetBit, c
    <3>2. q = [z EXCEPT !.getting = "flag", !.s = 0, !.x = 0, !.w = c.w]
      OBVIOUS
    <3>3. t = EJ
      BY <1>1, <1>2, <1>7, <2>3
    <3>4. c = TokenOut(B, a) /\ TokenLen(B, p) = 1 + (EI + EJ)
      BY <1>2, <1>7, <2>1, <3>3 DEF TokenOut, TokenLen, p
    <3>5. p + TokenLen(B, p) = k + 1
      BY <1>1, <1>2, <2>0, <3>3, <3>4
    <3> HIDE DEF q, g, c
    <3>6. IsLz(q) /\ q.w = c.w /\ q.getting = "flag" /\ q.s = 0
      BY <1>2, <3>2 DEF IsLz
    <3>7. InToken(B, k + 1, q, After(B, a))
      <4> DEFINE a2 == After(B, a)
      <4>1. a2.p = k + 1 /\ a2.w = c.w /\ k + 1 \in Nat
        BY <1>3, <3>4, <3>5 DEF After, p
      <4> HIDE DEF a2
      <4>2. InToken(B, k + 1, q, a2)
        <5>1. q.s \in Nat /\ q.w = a2.w /\ a2.p \in Nat
          BY <3>6, <4>1
        <5> QED BY <3>6, <4>1, <5>1, FlagStart
      <4> QED BY <4>2 DEF a2
    <3> QED BY <3>1, <3>4, <3>5, <3>7 DEF BitOK, g, b, p
  <2> QED BY <2>2, <2>3
<1> QED BY <1>4, <1>5, <1>6, <1>7, Zenon DEF InToken, p, s

----------------------------------------------------------------------------
(* The window of the decoders.                                             *)

LEMMA Sizes ==
  /\ L!N \in Nat \ {0} /\ L!F \in Nat /\ L!F < L!N /\ L!N = Pow(EI) /\ L!F = Pow(EJ) + 1
  /\ SPACE \in Bytes /\ Pow(BITS) = Base
<1>1. L!N = Pow(EI) /\ L!F = Pow(EJ) + 1 /\ Pow(BITS) = Base
  BY DEF L!N, L!F, Pow, Base
<1>2. EI \in Widths /\ EJ \in Widths
  BY Powers DEF Widths
<1>3. Pow(EI) \in Nat \ {0} /\ Pow(EJ) \in Nat \ {0} /\ Pow(EJ) + 1 < Pow(EI)
  <2>1. Pow(EJ) + 1 < Pow(EI)
    BY LzssAssumption DEF Pow
  <2> QED BY <1>2, <2>1, Powers
<1>4. SPACE \in Bytes
  BY LzssAssumption DEF Bytes, Base
<1> QED BY <1>1, <1>3, <1>4

Win == [buffer : [0..(L!N - 1) -> Nat], r : 0..(L!N - 1)]

LEMMA FirstWindow == L!Window \in Win /\ L!Window.r = L!N - L!F
                     /\ \A i \in 0..(L!N - L!F - 1) : L!Window.buffer[i] = SPACE
<1>1. L!N \in Nat \ {0} /\ L!F \in Nat /\ L!F < L!N /\ SPACE \in Nat
  BY Sizes, BaseAssumption DEF Bytes
<1>2. L!F # 0
  <2>1. Pow(EJ) \in Nat \ {0} /\ L!F = Pow(EJ) + 1
    BY Sizes, Powers DEF Widths
  <2> QED BY <2>1
<1> DEFINE b == [i \in 0..(L!N - 1) |-> IF i < L!N - L!F THEN SPACE ELSE 0]
<1>3. L!Window = [buffer |-> b, r |-> L!N - L!F]
  BY DEF L!Window
<1>4. b \in [0..(L!N - 1) -> Nat] /\ L!N - L!F \in 0..(L!N - 1)
  BY <1>1, <1>2
<1>5. \A i \in 0..(L!N - L!F - 1) : b[i] = SPACE
  BY <1>1, <1>2
<1> HIDE DEF b
<1> QED BY <1>3, <1>4, <1>5 DEF Win

LEMMA PutInWindow ==
  ASSUME NEW w \in Win, NEW c \in Nat
  PROVE  /\ L!PutByte(w, c) \in Win /\ L!PutByte(w, c).r = (w.r + 1) % L!N
         /\ \A i \in 0..(L!N - 1) : L!PutByte(w, c).buffer[i] = IF i = w.r THEN c ELSE w.buffer[i]
<1> DEFINE n == L!N
           b == [w.buffer EXCEPT ![w.r] = c]
           r == (w.r + 1) % n
<1>1. n \in Nat \ {0}
  BY Sizes
<1>2. w.buffer \in [0..(n - 1) -> Nat] /\ w.r \in 0..(n - 1) /\ w = [buffer |-> w.buffer, r |-> w.r]
  BY DEF Win
<1>3. L!PutByte(w, c) = [buffer |-> b, r |-> r]
  <2>1. L!PutByte(w, c) = [w EXCEPT !.buffer = b, !.r = r]
    BY DEF L!PutByte
  <2> HIDE DEF b, r
  <2> QED BY <1>2, <2>1
<1>4. b \in [0..(n - 1) -> Nat] /\ \A i \in 0..(n - 1) : b[i] = IF i = w.r THEN c ELSE w.buffer[i]
  BY <1>2
<1>5. r \in 0..(n - 1)
  <2>1. w.r + 1 \in Nat
    BY <1>1, <1>2
  <2> HIDE DEF n
  <2> QED BY <1>1, <2>1, Division
<1> HIDE DEF b, r
<1>6. [buffer |-> b, r |-> r] \in Win
  BY <1>4, <1>5 DEF Win
<1> QED BY <1>3, <1>4, <1>6 DEF r

Copied == [w : Win, out : Seq(Nat)]
CopyStep(i) == [z \in Nat \X Copied |->
                  LET c == z[2].w.buffer[(i + z[1]) % L!N]
                  IN  [w |-> L!PutByte(z[2].w, c), out |-> Append(z[2].out, c)]]

\* The bytes of a match one by one: h[k] is after k of them.
IsCopy(w, i, h) ==
  /\ h \in [Nat -> Copied] /\ h[0] = [w |-> w, out |-> <<>>]
  /\ \A k \in Nat : LET c == h[k].w.buffer[(i + k) % L!N]
                    IN  h[k + 1] = [w |-> L!PutByte(h[k].w, c), out |-> Append(h[k].out, c)]

LEMMA CopyTable ==
  ASSUME NEW w \in Win, NEW i \in Nat
  PROVE  \E h : IsCopy(w, i, h)
<1> DEFINE n == L!N
           step == CopyStep(i)
           first == [w |-> w, out |-> <<>>]
<1>1. n \in Nat \ {0}
  BY Sizes
<1>2. ASSUME NEW z \in Nat \X Copied
      PROVE  step[z] \in Copied
  <2> DEFINE x == (i + z[1]) % n
             c == z[2].w.buffer[x]
  <2>1. z[1] \in Nat /\ z[2] \in Copied /\ z[2].w \in Win /\ z[2].out \in Seq(Nat)
    BY DEF Copied
  <2>2. x \in 0..(n - 1)
    <3>1. i + z[1] \in Nat
      BY <2>1
    <3> HIDE DEF n
    <3> QED BY <1>1, <3>1, Division
  <2> HIDE DEF x
  <2>3. c \in Nat
    BY <2>1, <2>2 DEF Win
  <2>4. step[z] = [w |-> L!PutByte(z[2].w, c), out |-> Append(z[2].out, c)]
    BY DEF x, CopyStep
  <2> HIDE DEF c, step
  <2>5. L!PutByte(z[2].w, c) \in Win /\ Append(z[2].out, c) \in Seq(Nat)
    BY <2>1, <2>3, PutInWindow, AppendAny
  <2> QED BY <2>4, <2>5 DEF Copied
<1>3. step \in [Nat \X Copied -> Copied]
  <2>1. step = [z \in Nat \X Copied |-> step[z]]
    BY DEF CopyStep
  <2> HIDE DEF step
  <2> QED BY <1>2, <2>1
<1>4. first \in Copied
  BY DEF Copied
<1>5. PICK h : IsRun(h, Copied, first, step)
  <2> HIDE DEF first, step
  <2> QED BY <1>3, <1>4, Numbered
<1>6. h \in [Nat -> Copied] /\ h[0] = first /\ \A k \in Nat : h[k + 1] = step[<<k, h[k]>>]
  BY <1>5 DEF IsRun
<1>7. ASSUME NEW k \in Nat
      PROVE  LET c == h[k].w.buffer[(i + k) % L!N]
             IN  h[k + 1] = [w |-> L!PutByte(h[k].w, c), out |-> Append(h[k].out, c)]
  <2> DEFINE z == <<k, h[k]>>
  <2>1. z \in Nat \X Copied /\ z[1] = k /\ z[2] = h[k] /\ h[k + 1] = step[z]
    BY <1>6
  <2> HIDE DEF z
  <2> QED BY <2>1 DEF CopyStep
<1> QED BY <1>6, <1>7 DEF IsCopy

LEMMA CopyIs ==
  ASSUME NEW w, NEW i \in Nat, NEW h, IsCopy(w, i, h), NEW n \in Nat
  PROVE  L!CopyMatch(w, i, n) = h[n]
<1> DEFINE E(v) == v = [k \in 0..n |->
                          IF k = 0 THEN [w |-> w, out |-> <<>>]
                          ELSE LET a == v[k - 1]
                                   c == a.w.buffer[(i + k - 1) % L!N]
                               IN  [w |-> L!PutByte(a.w, c), out |-> Append(a.out, c)]]
           v == CHOOSE u : E(u)
           g == [k \in 0..n |-> h[k]]
<1>1. L!CopyMatch(w, i, n) = v[n]
  BY DEF L!CopyMatch
<1>2. ASSUME NEW k \in 1..n
      PROVE  LET c == h[k - 1].w.buffer[(i + k - 1) % L!N]
             IN  h[k] = [w |-> L!PutByte(h[k - 1].w, c), out |-> Append(h[k - 1].out, c)]
  <2> DEFINE m == k - 1
  <2>1. m \in Nat /\ m + 1 = k /\ i + k - 1 = i + m
    OBVIOUS
  <2> HIDE DEF m
  <2>2. LET c == h[m].w.buffer[(i + m) % L!N]
        IN  h[m + 1] = [w |-> L!PutByte(h[m].w, c), out |-> Append(h[m].out, c)]
    BY <2>1 DEF IsCopy
  <2> QED BY <2>1, <2>2 DEF m
<1>3. E(g)
  <2>1. ASSUME NEW k \in 0..n
        PROVE  g[k] = IF k = 0 THEN [w |-> w, out |-> <<>>]
                      ELSE LET a == g[k - 1]
                               c == a.w.buffer[(i + k - 1) % L!N]
                           IN  [w |-> L!PutByte(a.w, c), out |-> Append(a.out, c)]
    <3>1. CASE k = 0
      BY <3>1 DEF IsCopy
    <3>2. CASE k # 0
      <4>1. k \in 1..n /\ k - 1 \in 0..n
        BY <3>2
      <4> QED BY <1>2, <3>2, <4>1
    <3> QED BY <3>1, <3>2
  <2> QED BY <2>1
<1>4. E(v)
  <2> HIDE DEF E, g
  <2> QED BY <1>3 DEF v
<1> HIDE DEF v
<1>5. \A k \in Nat : k <= n => v[k] = h[k]
  <2> DEFINE T == {k \in Nat : k <= n => v[k] = h[k]}
  <2>1. 0 \in T
    BY <1>4 DEF IsCopy
  <2>2. ASSUME NEW k \in Nat, k \in T PROVE k + 1 \in T
    <3> SUFFICES ASSUME k + 1 <= n PROVE v[k + 1] = h[k + 1]
      OBVIOUS
    <3> DEFINE m == k + 1
    <3>1. m \in 0..n /\ m \in 1..n /\ m - 1 = k /\ m # 0 /\ k <= n
      OBVIOUS
    <3> HIDE DEF m
    <3>2. v[m] = LET a == v[m - 1]
                     c == a.w.buffer[(i + m - 1) % L!N]
                 IN  [w |-> L!PutByte(a.w, c), out |-> Append(a.out, c)]
      BY <1>4, <3>1
    <3>3. v[m] = h[m]
      BY <1>2, <2>2, <3>1, <3>2
    <3> QED BY <3>3 DEF m
  <2>3. Nat \subseteq T
    <3> HIDE DEF T
    <3> QED BY <2>1, <2>2, Induction
  <2> QED BY <2>3
<1> QED BY <1>1, <1>5

LEMMA CopyTyped ==
  ASSUME NEW w \in Win, NEW i \in Nat, NEW n \in Nat
  PROVE  L!CopyMatch(w, i, n) \in Copied
<1>1. PICK h : IsCopy(w, i, h)
  BY CopyTable
<1>2. L!CopyMatch(w, i, n) = h[n]
  BY <1>1, CopyIs
<1> QED BY <1>1, <1>2 DEF IsCopy

----------------------------------------------------------------------------
(* The tokens of a file of bits, one after the other.                      *)

Origin == [p |-> 0, w |-> L!Window, out |-> <<>>]
Spot == [p : Nat, w : Win, out : Seq(Nat)]

LEMMA ValIsNat ==
  ASSUME NEW B \in Seq(Bits), NEW p \in Nat, NEW n \in Nat, p + n <= Len(B)
  PROVE  Val(B, p, n) \in Nat
<1> DEFINE s == SubSeq(B, p + 1, p + n)
<1>1. s \in Seq(Bits) /\ Len(s) \in Nat
  OBVIOUS
<1> HIDE DEF s
<1>2. PICK g : g \in [Nat -> Nat] /\ g[0] = 0 /\ \A k \in 1..Len(s) : g[k] = 2 * g[k - 1] + s[k]
  BY <1>1, ValueTable
<1>3. IsValue(s, Len(s), g)
  BY <1>1, <1>2 DEF IsValue
<1>4. L!ValueOf(s) = g[Len(s)]
  BY <1>3, ValueBy
<1> QED BY <1>1, <1>2, <1>4 DEF s, Val

LEMMA AfterTyped ==
  ASSUME NEW B \in Seq(Bits), NEW a \in Spot, a.p + TokenLen(B, a.p) <= Len(B)
  PROVE  /\ After(B, a) \in Spot /\ After(B, a).p = a.p + TokenLen(B, a.p)
         /\ TokenOut(B, a) \in Copied
<1> DEFINE p == a.p
           o == TokenOut(B, a)
<1>1. BITS \in Nat \ {0, 1} /\ EI \in Nat \ {0} /\ EJ \in Nat \ {0} /\ Len(B) \in Nat
  BY LzssAssumption, BsdiffAssumption
<1>2. p \in Nat /\ a.w \in Win /\ a.out \in Seq(Nat)
  BY DEF Spot
<1>3. o \in Copied
  <2>1. CASE B[p + 1] = 1
    <3>1. TokenLen(B, p) = 1 + BITS
      BY <2>1 DEF TokenLen
    <3> DEFINE x == Val(B, p + 1, BITS)
    <3>2. x \in Nat
      <4>1. p + 1 \in Nat /\ (p + 1) + BITS <= Len(B)
        BY <1>1, <1>2, <3>1
      <4> QED BY <1>1, <4>1, ValIsNat
    <3>3. o = [w |-> L!PutByte(a.w, x), out |-> <<x>>]
      BY <2>1 DEF TokenOut, L!CopyByte
    <3> HIDE DEF x, o
    <3>4. L!PutByte(a.w, x) \in Win /\ <<x>> \in Seq(Nat)
      BY <1>2, <3>2, PutInWindow
    <3> QED BY <3>3, <3>4 DEF Copied
  <2>2. CASE B[p + 1] # 1
    <3>1. TokenLen(B, p) = 1 + (EI + EJ)
      BY <2>2 DEF TokenLen
    <3> DEFINE x == Val(B, p + 1, EI)
               y == Val(B, p + 1 + EI, EJ)
    <3>2. x \in Nat
      <4>1. p + 1 \in Nat /\ (p + 1) + EI <= Len(B)
        BY <1>1, <1>2, <3>1
      <4> QED BY <1>1, <4>1, ValIsNat
    <3>3. y \in Nat
      <4>1. p + 1 + EI \in Nat /\ (p + 1 + EI) + EJ <= Len(B)
        BY <1>1, <1>2, <3>1
      <4> QED BY <1>1, <4>1, ValIsNat
    <3>4. o = L!CopyMatch(a.w, x, y + 2)
      BY <2>2 DEF TokenOut
    <3> HIDE DEF x, o, y
    <3>5. y + 2 \in Nat
      BY <3>3
    <3> QED BY <1>2, <3>2, <3>4, <3>5, CopyTyped
  <2> QED BY <2>1, <2>2
<1> DEFINE q == p + TokenLen(B, p)
           e == a.out \o o.out
<1>4. q \in Nat
  BY <1>2, TokenLength
<1>5. e \in Seq(Nat) /\ o.w \in Win
  <2> HIDE DEF o
  <2> QED BY <1>2, <1>3 DEF Copied
<1>6. After(B, a) = [p |-> q, w |-> o.w, out |-> e]
  BY DEF After
<1> HIDE DEF q, e, o
<1>7. After(B, a) \in Spot /\ After(B, a).p = q
  BY <1>4, <1>5, <1>6 DEF Spot
<1> QED BY <1>3, <1>7 DEF o, q

LEMMA OriginTyped == Origin \in Spot /\ Origin.p = 0 /\ Origin.w = L!Window /\ Origin.out = <<>>
BY FirstWindow DEF Origin, Spot

Tokens(B, n, T) ==
  /\ n \in Nat /\ T[0] = Origin
  /\ \A i \in 0..(n - 1) : T[i + 1] = After(B, T[i])
  /\ \A i \in 0..n : T[i] \in Spot /\ i * BITS <= T[i].p /\ T[i].p <= Len(B)

LEMMA TokensFirst ==
  ASSUME NEW B \in Seq(Bits)
  PROVE  Tokens(B, 0, [i \in 0..0 |-> Origin])
<1> DEFINE T == [i \in 0..0 |-> Origin]
<1>1. T[0] = Origin
  OBVIOUS
<1> HIDE DEF T
<1>2. 0 * BITS = 0 /\ 0 <= Len(B) /\ 0 <= 0 /\ (\A i \in 0..0 : i = 0) /\ 0..(0 - 1) = {}
  BY Powers
<1> DEFINE m == 0 * BITS
<1>3. ASSUME NEW i \in 0..0 PROVE T[i] \in Spot /\ i * BITS <= T[i].p /\ T[i].p <= Len(B)
  <2>1. i = 0
    OBVIOUS
  <2>2. T[0] \in Spot /\ T[0].p = 0
    BY <1>1, OriginTyped
  <2> QED BY <1>2, <2>1, <2>2
<1> QED BY <1>1, <1>2, <1>3 DEF T, Tokens

LEMMA TokensOn ==
  ASSUME NEW B \in Seq(Bits), NEW n, NEW T, Tokens(B, n, T),
         T[n].p + TokenLen(B, T[n].p) <= Len(B)
  PROVE  \E U : Tokens(B, n + 1, U) /\ U[n + 1] = After(B, T[n]) /\ \A i \in 0..n : U[i] = T[i]
<1> DEFINE a == T[n]
           U == [i \in 0..(n + 1) |-> IF i = n + 1 THEN After(B, a) ELSE T[i]]
<1>1. n \in Nat /\ T[0] = Origin /\ a \in Spot /\ n * BITS <= a.p
  BY DEF Tokens
<1>2. After(B, a) \in Spot /\ After(B, a).p = a.p + TokenLen(B, a.p)
  BY <1>1, AfterTyped
<1>3. U[n + 1] = After(B, a) /\ \A i \in 0..n : U[i] = T[i]
  <2> HIDE DEF a
  <2> QED BY <1>1
<1> HIDE DEF U, a
<1>4. ASSUME NEW i \in 0..n PROVE U[i + 1] = After(B, U[i])
  <2>1. CASE i = n
    BY <1>1, <1>3, <2>1 DEF a
  <2>2. CASE i # n
    <3>1. i \in 0..(n - 1) /\ i + 1 \in 0..n
      BY <1>1, <2>2
    <3> QED BY <1>3, <3>1 DEF Tokens
  <2> QED BY <2>1, <2>2
<1>5. ASSUME NEW i \in 0..(n + 1) PROVE U[i] \in Spot /\ i * BITS <= U[i].p /\ U[i].p <= Len(B)
  <2>1. CASE i = n + 1
    <3>1. (n + 1) * BITS = n * BITS + BITS /\ n * BITS \in Nat /\ BITS \in Nat
      BY <1>1, Powers
    <3>2. TokenLen(B, a.p) \in Nat /\ TokenLen(B, a.p) >= BITS /\ a.p \in Nat
      BY <1>1, TokenLength DEF Spot
    <3> DEFINE x == n * BITS
               y == (n + 1) * BITS
               t == TokenLen(B, a.p)
               p == a.p
    <3>3. x \in Nat /\ y = x + BITS /\ BITS \in Nat /\ x <= p /\ t \in Nat /\ t >= BITS /\ p \in Nat
      BY <1>1, <3>1, <3>2
    <3> HIDE DEF x, y, t, p
    <3>4. y <= p + t
      BY <3>3
    <3>5. U[i] = After(B, a) /\ U[i].p = p + t /\ i * BITS = y
      BY <1>2, <1>3, <2>1 DEF p, t, y
    <3>6. p + t <= Len(B)
      BY DEF p, t, a
    <3> QED BY <1>2, <3>4, <3>5, <3>6
  <2>2. CASE i # n + 1
    <3>1. i \in 0..n
      BY <1>1, <2>2
    <3> QED BY <1>3, <3>1 DEF Tokens
  <2> QED BY <2>1, <2>2
<1>6. n + 1 \in Nat /\ (n + 1) - 1 = n /\ 0 \in 0..n
  BY <1>1
<1>7. U[0] = Origin
  BY <1>1, <1>3, <1>6
<1>8. Tokens(B, n + 1, U)
  BY <1>4, <1>5, <1>6, <1>7 DEF Tokens
<1> QED BY <1>3, <1>8 DEF a

LEMMA TokensGrow ==
  ASSUME NEW B \in Seq(Bits), NEW n, NEW T, Tokens(B, n, T), NEW i \in 0..n
  PROVE  T[i].p <= T[n].p
<1>1. n \in Nat /\ \A j \in 0..n : T[j] \in Spot
  BY DEF Tokens
<1>2. \A j \in 0..n : T[j].p \in Nat
  BY <1>1 DEF Spot
<1> DEFINE Q == {j \in Nat : i + j <= n => T[i].p <= T[i + j].p}
<1>3. 0 \in Q
  <2>1. i + 0 = i /\ T[i].p \in Nat
    BY <1>2
  <2> QED BY <2>1
<1>4. ASSUME NEW j \in Nat, j \in Q PROVE j + 1 \in Q
  <2> SUFFICES ASSUME i + (j + 1) <= n PROVE T[i].p <= T[i + (j + 1)].p
    OBVIOUS
  <2> DEFINE c == T[i + j]
  <2>1. i + j \in 0..(n - 1) /\ i + (j + 1) = (i + j) + 1 /\ i + j \in 0..n /\ i + j <= n
    BY <1>1
  <2>2. T[i + (j + 1)] = After(B, c) /\ T[i].p <= c.p
    BY <1>4, <2>1 DEF Tokens
  <2>3. After(B, c).p = c.p + TokenLen(B, c.p) /\ TokenLen(B, c.p) \in Nat
    BY TokenLength DEF After
  <2>4. c.p \in Nat /\ T[i].p \in Nat
    BY <1>2, <2>1
  <2> QED BY <2>2, <2>3, <2>4
<1>5. Nat \subseteq Q
  <2> HIDE DEF Q
  <2> QED BY <1>3, <1>4, Induction
<1> DEFINE e == n - i
<1>6. e \in Nat /\ i + e = n
  BY <1>1
<1> HIDE DEF e
<1>7. e \in Q
  BY <1>5, <1>6
<1> QED BY <1>1, <1>6, <1>7

\* The decoder of the device after k bits.
DecodedTo(B, k, z, n, T) == Tokens(B, n, T) /\ InToken(B, k, z, T[n])

\* The tool is given the first bits in f bytes.
GivenTo(B, f, z, n, T, code) ==
  /\ B \in Seq(Bits) /\ f \in Nat /\ BITS * f <= Len(B)
  /\ DecodedTo(B, BITS * f, z, n, T)
  /\ Len(code) = f /\ L!FileBits(code) = SubSeq(B, 1, BITS * f)

\* It ends with the same token.
LEMMA ToolEnds ==
  ASSUME NEW B, NEW f, NEW z, NEW n, NEW T, NEW code, GivenTo(B, f, z, n, T, code)
  PROVE  L!pipeline_decompress_command(code) = T[n].out
<1> SUFFICES ASSUME B \in Seq(Bits), f \in Nat, BITS * f <= Len(B), DecodedTo(B, BITS * f, z, n, T),
                    Len(code) = f, L!FileBits(code) = SubSeq(B, 1, BITS * f)
             PROVE  L!pipeline_decompress_command(code) = T[n].out
  BY DEF GivenTo
<1> DEFINE k == BITS * f
           C == SubSeq(B, 1, k)
           E(v) == v = [i \in 0..Len(code) |-> IF i = 0 THEN [p |-> 0, w |-> L!Window, out |-> <<>>]
                                               ELSE L!DecodeToken(L!FileBits(code), v[i - 1])]
           v == CHOOSE u : E(u)
           h == [i \in 0..f |-> IF i <= n THEN T[i] ELSE T[n]]
<1>1. L!pipeline_decompress_command(code) = v[f].out
  BY DEF L!pipeline_decompress_command
<1>2. n \in Nat /\ T[0] = Origin /\ InToken(B, k, z, T[n]) /\ Tokens(B, n, T)
  BY DEF DecodedTo, Tokens
<1>3. k \in Nat /\ T[n].p \in Nat /\ T[n].p <= k /\ k < T[n].p + TokenLen(B, T[n].p)
  BY <1>2, Unfinished
<1>4. n <= f
  <2>1. n * BITS <= T[n].p /\ BITS \in Nat \ {0}
    BY <1>2, Powers DEF Tokens
  <2>2. CASE n > f
    <3> DEFINE e == n - f - 1
    <3>1. e \in Nat /\ n = f + 1 + e
      BY <1>2, <2>2
    <3> HIDE DEF e
    <3>2. n * BITS = BITS * f + BITS + e * BITS /\ e * BITS \in Nat /\ n * BITS \in Nat
      BY <2>1, <3>1
    <3> QED BY <1>3, <2>1, <3>2
  <2> QED BY <1>2, <2>2
<1>5. k \in 0..Len(B)
  BY <1>3
<1> HIDE DEF k
<1>6. ASSUME NEW i \in 1..f PROVE h[i] = L!DecodeToken(C, h[i - 1])
  <2>1. CASE i <= n
    <3> DEFINE a == T[i - 1]
    <3>1. i - 1 \in 0..(n - 1) /\ i - 1 \in 0..n /\ i \in 0..n /\ (i - 1) + 1 = i /\ i - 1 <= n
          /\ i \in 0..f /\ i - 1 \in 0..f
      BY <1>2, <2>1
    <3>2. h[i] = T[i] /\ h[i - 1] = a /\ T[i] = After(B, a)
      BY <1>2, <2>1, <3>1 DEF Tokens
    <3>3. T[i].p <= T[n].p
      BY <1>2, <3>1, TokensGrow
    <3>4. a \in Spot /\ T[i] \in Spot /\ T[i].p = a.p + TokenLen(B, a.p) /\ TokenLen(B, a.p) \in Nat
      BY <1>2, <3>1, <3>2, TokenLength DEF Tokens, After
    <3>5. a.p \in Nat /\ T[i].p \in Nat
      BY <3>4 DEF Spot
    <3>6. a.p <= k /\ a.p + TokenLen(B, a.p) <= k
      BY <1>3, <3>3, <3>4, <3>5
    <3> HIDE DEF a, h
    <3>7. a.p \in Nat /\ a.p <= k
      BY <3>5, <3>6
    <3>8. L!DecodeToken(C, a) = IF a.p + TokenLen(B, a.p) <= k THEN After(B, a) ELSE a
      BY <1>5, <3>7, TokenDecoded
    <3> HIDE DEF C
    <3> QED BY <3>2, <3>6, <3>8
  <2>2. CASE ~(i <= n)
    <3>1. h[i] = T[n] /\ h[i - 1] = T[n]
      <4>1. i \in 0..f /\ i - 1 \in 0..f /\ (i - 1 <= n => i - 1 = n)
        BY <1>2, <2>2
      <4> QED BY <2>2, <4>1
    <3>2. ~(T[n].p + TokenLen(B, T[n].p) <= k)
      BY <1>3, TokenLength
    <3> HIDE DEF h
    <3> QED BY <1>3, <1>5, <3>1, <3>2, TokenDecoded
  <2> QED BY <2>1, <2>2
<1>7. h[0] = Origin
  BY <1>2
<1>8. \A i \in 0..f : h[i] = IF i = 0 THEN Origin ELSE L!DecodeToken(C, h[i - 1])
  <2> SUFFICES ASSUME NEW i \in 0..f PROVE h[i] = IF i = 0 THEN Origin ELSE L!DecodeToken(C, h[i - 1])
    OBVIOUS
  <2>1. i = 0 \/ i \in 1..f
    OBVIOUS
  <2> HIDE DEF h
  <2> QED BY <1>6, <1>7, <2>1
<1>9. E(h)
  <2>1. h = [i \in 0..f |-> h[i]]
    OBVIOUS
  <2>2. L!FileBits(code) = C
    BY DEF k
  <2> HIDE DEF h, C
  <2> QED BY <1>8, <2>1, <2>2 DEF Origin
<1>10. E(v)
  <2> HIDE DEF E, h
  <2> QED BY <1>9 DEF v
<1>11. \A i \in 0..f : v[i] = IF i = 0 THEN Origin ELSE L!DecodeToken(C, v[i - 1])
  <2>1. L!FileBits(code) = C
    BY DEF k
  <2> HIDE DEF v, C
  <2> QED BY <1>10, <2>1 DEF Origin
<1> HIDE DEF v, h, C
<1>12. \A i \in Nat : i <= f => v[i] = h[i]
  <2> DEFINE Q == {i \in Nat : i <= f => v[i] = h[i]}
  <2>1. 0 \in Q
    BY <1>8, <1>11
  <2>2. ASSUME NEW i \in Nat, i \in Q PROVE i + 1 \in Q
    <3> SUFFICES ASSUME i + 1 <= f PROVE v[i + 1] = h[i + 1]
      OBVIOUS
    <3>1. i + 1 \in 0..f /\ i + 1 # 0 /\ (i + 1) - 1 = i /\ i <= f
      OBVIOUS
    <3> QED BY <1>8, <1>11, <2>2, <3>1
  <2>3. Nat \subseteq Q
    <3> HIDE DEF Q
    <3> QED BY <2>1, <2>2, Induction
  <2> QED BY <2>3
<1>13. h[f] = T[n]
  BY <1>2, <1>4 DEF h
<1> QED BY <1>1, <1>12, <1>13

----------------------------------------------------------------------------
(* Files of bytes as files of bits.                                        *)

LEMMA ByteWidth == BITS \in Widths /\ Bytes = 0..(Pow(BITS) - 1) /\ Bytes \subseteq Nat
BY Powers, Sizes, BaseAssumption DEF Widths, Bytes

LEMMA FileOfBits ==
  ASSUME NEW code \in Seq(Bytes)
  PROVE  /\ L!FileBits(code) \in Seq(Bits) /\ Len(L!FileBits(code)) = BITS * Len(code)
         /\ \A f \in Nat : \A b \in 1..BITS :
              f < Len(code) => L!FileBits(code)[BITS * f + b] = L!BitsOf(code[f + 1], BITS)[b]
<1> DEFINE n == Len(code)
           m == BITS * n
           B == L!FileBits(code)
           q(k) == (k - 1) \div BITS
           r(k) == (k - 1) % BITS
<1>1. n \in Nat /\ BITS \in Nat \ {0} /\ m \in Nat
  BY Powers
<1>2. B = [k \in 1..m |-> L!BitsOf(code[q(k) + 1], BITS)[r(k) + 1]]
  BY DEF L!FileBits
<1> HIDE DEF B
<1>3. ASSUME NEW k \in 1..m
      PROVE  q(k) \in Nat /\ q(k) < n /\ r(k) \in 0..(BITS - 1)
  <2> DEFINE x == k - 1
             c == x \div BITS
             s == x % BITS
  <2>0. x \in Nat /\ x < m
    BY <1>1
  <2>1. c \in Nat /\ s \in 0..(BITS - 1) /\ BITS * c + s = x
    BY <1>1, <2>0, Division
  <2>2. CASE c >= n
    <3> DEFINE e == c - n
    <3> HIDE DEF c, s, x, m
    <3>1. e \in Nat /\ c = n + e
      BY <1>1, <2>1, <2>2
    <3> HIDE DEF e, n
    <3>2. BITS * c = BITS * n + BITS * e /\ BITS * e \in Nat /\ BITS * n \in Nat
      BY <1>1, <3>1
    <3>3. m = BITS * n
      BY DEF m, n
    <3> QED BY <1>1, <2>0, <2>1, <3>2, <3>3
  <2> QED BY <1>1, <2>1, <2>2
<1>4. ASSUME NEW k \in 1..m PROVE L!BitsOf(code[q(k) + 1], BITS)[r(k) + 1] \in Bits
  <2> DEFINE x == q(k) + 1
             b == r(k) + 1
  <2>1. x \in 1..n /\ b \in 1..BITS
    <3> DEFINE y == q(k)
               e == r(k)
    <3>1. y \in Nat /\ y < n /\ e \in 0..(BITS - 1)
      BY <1>3
    <3>2. x = y + 1 /\ b = e + 1
      OBVIOUS
    <3> HIDE DEF y, e, x, b, n
    <3> QED BY <1>1, <3>1, <3>2
  <2> HIDE DEF x, b
  <2>2. code[x] \in Nat
    <3>1. code[x] \in Bytes
      <4> HIDE DEF m
      <4> QED BY <2>1
    <3> QED BY <3>1, ByteWidth
  <2>3. L!BitsOf(code[x], BITS) \in Seq(Bits) /\ Len(L!BitsOf(code[x], BITS)) = BITS
    BY <2>2, ByteWidth, BitsAre
  <2>4. L!BitsOf(code[x], BITS)[b] \in Bits
    BY <2>1, <2>3
  <2> QED BY <2>4 DEF x, b
<1>5. B \in Seq(Bits) /\ Len(B) = m
  <2>1. B \in [1..m -> Bits]
    <3> HIDE DEF m, q, r
    <3> QED BY <1>2, <1>4
  <2> HIDE DEF m
  <2> QED BY <1>1, <2>1
<1>6. ASSUME NEW f \in Nat, NEW b \in 1..BITS, f < n
      PROVE  B[BITS * f + b] = L!BitsOf(code[f + 1], BITS)[b]
  <2> DEFINE k == BITS * f + b
             x == k - 1
             c == b - 1
  <2>1. c \in 0..(BITS - 1) /\ BITS * f \in Nat /\ x = BITS * f + c /\ c + 1 = b
    BY <1>1
  <2>2. k \in 1..m
    <3> DEFINE e == n - f - 1
    <3>1. e \in Nat /\ n = f + 1 + e
      BY <1>1, <1>6
    <3> HIDE DEF e, n
    <3>2. BITS * n = BITS * f + BITS + BITS * e /\ BITS * e \in Nat
      BY <1>1, <3>1
    <3>3. m = BITS * n
      BY DEF n
    <3> HIDE DEF m
    <3> QED BY <1>1, <2>1, <3>2, <3>3
  <2>3. x \div BITS = f /\ x % BITS = c
    <3> HIDE DEF x, c
    <3> QED BY <1>1, <2>1, Quotient
  <2>4. q(k) = f /\ r(k) = c
    BY <2>3
  <2>5. B[k] = L!BitsOf(code[q(k) + 1], BITS)[r(k) + 1]
    <3> HIDE DEF k, m, q, r
    <3> QED BY <1>2, <2>2
  <2> HIDE DEF q, r, c
  <2> QED BY <2>1, <2>4, <2>5
<1> QED BY <1>5, <1>6 DEF B

LEMMA PrefixOfBits ==
  ASSUME NEW code \in Seq(Bytes), NEW f \in 0..Len(code)
  PROVE  /\ SubSeq(code, 1, f) \in Seq(Bytes) /\ Len(SubSeq(code, 1, f)) = f
         /\ BITS * f <= Len(L!FileBits(code))
         /\ L!FileBits(SubSeq(code, 1, f)) = SubSeq(L!FileBits(code), 1, BITS * f)
<1> DEFINE c2 == SubSeq(code, 1, f)
           B == L!FileBits(code)
           C == L!FileBits(c2)
           k == BITS * f
           D == SubSeq(B, 1, k)
           n == Len(code)
<1>0. n \in Nat /\ f \in Nat /\ f <= n /\ BITS \in Nat \ {0}
  BY Powers
<1>1. c2 \in Seq(Bytes) /\ Len(c2) = f /\ \A i \in 1..f : c2[i] = code[i]
  BY <1>0
<1>2. /\ B \in Seq(Bits) /\ Len(B) = BITS * n
      /\ \A e \in Nat : \A b \in 1..BITS : e < n => B[BITS * e + b] = L!BitsOf(code[e + 1], BITS)[b]
  BY FileOfBits
<1> HIDE DEF c2
<1>3. /\ C \in Seq(Bits) /\ Len(C) = k
      /\ \A e \in Nat : \A b \in 1..BITS : e < f => C[BITS * e + b] = L!BitsOf(c2[e + 1], BITS)[b]
  BY <1>1, FileOfBits
<1> HIDE DEF B, C, n
<1>4. k <= Len(B) /\ k \in Nat
  <2> DEFINE e == n - f
  <2>1. e \in Nat /\ n = f + e
    BY <1>0
  <2> HIDE DEF e
  <2>2. BITS * n = k + BITS * e /\ BITS * e \in Nat /\ k \in Nat
    BY <1>0, <2>1
  <2> HIDE DEF k
  <2>3. Len(B) = BITS * n
    BY <1>2
  <2> QED BY <2>2, <2>3
<1> HIDE DEF k
<1>5. D \in Seq(Bits) /\ Len(D) = k /\ \A i \in 1..k : D[i] = B[i]
  BY <1>2, <1>4
<1> HIDE DEF D
<1>6. ASSUME NEW i \in 1..k PROVE C[i] = D[i]
  <2> DEFINE x == i - 1
             e == x \div BITS
             s == x % BITS
             b == s + 1
  <2>1. x \in Nat /\ x < k /\ i = x + 1
    BY <1>4
  <2>2. e \in Nat /\ s \in 0..(BITS - 1) /\ BITS * e + s = x
    BY <1>0, <2>1, Division
  <2> HIDE DEF e, s, x
  <2>3. e < f
    <3>1. CASE e >= f
      <4> DEFINE h == e - f
      <4>1. h \in Nat /\ e = f + h
        BY <1>0, <2>2, <3>1
      <4> HIDE DEF h
      <4>2. BITS * e = BITS * f + BITS * h /\ BITS * h \in Nat /\ BITS * f \in Nat
        BY <1>0, <4>1
      <4>3. k = BITS * f
        BY DEF k
      <4> QED BY <1>0, <2>1, <2>2, <4>2, <4>3
    <3> QED BY <1>0, <2>2, <3>1
  <2>4. b \in 1..BITS /\ BITS * e + b = i
    <3>1. BITS * e \in Nat
      BY <1>0, <2>2
    <3> DEFINE y == BITS * e
    <3>2. y \in Nat /\ y + s = x
      BY <2>2, <3>1
    <3> HIDE DEF y
    <3>3. b \in 1..BITS /\ y + b = i
      BY <1>0, <2>1, <2>2, <3>2
    <3> QED BY <3>3 DEF y
  <2> HIDE DEF b
  <2>5. C[i] = L!BitsOf(c2[e + 1], BITS)[b]
    BY <1>3, <2>2, <2>3, <2>4
  <2>6. B[i] = L!BitsOf(code[e + 1], BITS)[b]
    <3>1. e < n
      BY <1>0, <2>2, <2>3
    <3> QED BY <1>2, <2>2, <2>4, <3>1
  <2>7. c2[e + 1] = code[e + 1]
    <3>1. e + 1 \in 1..f
      BY <1>0, <2>2, <2>3
    <3> QED BY <1>1, <3>1
  <2> QED BY <1>5, <2>5, <2>6, <2>7
<1>7. C = D
  BY <1>3, <1>5, <1>6, SameSequence
<1> QED BY <1>1, <1>4, <1>7 DEF c2, B, C, D, k

----------------------------------------------------------------------------
(* The stages of the device, one call after the other.                     *)

IsRec(r) ==
  r = [lz |-> r.lz, bs |-> r.bs, out |-> r.out, err |-> r.err, n |-> r.n, bad |-> r.bad, miss |-> r.miss]

Patching ==
  /\ old \in Seq(Bytes) /\ new \in Seq(Bytes)
  /\ IsPatch(old, new, patch) /\ SmallImages(old, new)

\* What the patching stage has after m bytes, of the images.
LEMMA PatchedSoFar ==
  ASSUME Patching, NEW m, NEW b, NEW o, BsAt(old, new, patch, m, b, o)
  PROVE  /\ m \in Nat /\ m <= Len(patch) /\ IsPrefix(o, new) /\ o \in Seq(Bytes)
         /\ m = Len(patch) <=> b.at = "finish"
         /\ m = Len(patch) => o = new
<1>1. old \in Seq(Bytes) /\ new \in Seq(Bytes) /\ IsPatch(old, new, patch)
  BY DEF Patching
<1>2. /\ m \in Nat /\ m <= Len(patch) /\ (m = Len(patch) <=> b.at = "finish")
      /\ m = Len(patch) => o = new
      /\ \E n \in 0..Len(new) : o = SubSeq(new, 1, n)
  BY <1>1, BsFacts
<1>3. PICK n \in 0..Len(new) : o = SubSeq(new, 1, n)
  BY <1>2
<1>4. Len(o) = n /\ o \in Seq(Bytes) /\ SubSeq(o, 1, n) = o
  BY <1>1, <1>3
<1>5. IsPrefix(o, new)
  BY <1>1, <1>3, <1>4 DEF IsPrefix
<1> QED BY <1>2, <1>4, <1>5

\* The patching stage had m bytes, and no read of the old image failed.
PatchAt(m, z, r) ==
  IsRec(r) /\ (r.miss = "none" => ~r.err /\ r.lz = z /\ BsAt(old, new, patch, m, r.bs, r.out))

\* Or one failed, and the call ends with an error and nothing wrong handed on.
Halted(r) == r.miss = "reported" => r.err /\ r.bs.at # "finish" /\ IsPrefix(r.out, new)

LEMMA ByteOn ==
  ASSUME Patching, NEW m, m < Len(patch), NEW z, NEW r, PatchAt(m, z, r)
  PROVE  /\ PatchAt(m + 1, z, bspatch_pipeline(r, patch[m + 1]))
         /\ r.miss # "reported" => Halted(bspatch_pipeline(r, patch[m + 1]))
<1> DEFINE missed == r.bs.at = "diff" /\ r.n + 1 \in r.bad
           g == PatchByte(r.bs, old, ~missed, patch[m + 1])
           q == bspatch_pipeline(r, patch[m + 1])
           miss == IF missed /\ r.miss = "none" THEN "reported" ELSE r.miss
<1>1. q = [r EXCEPT !.bs = g.p, !.out = @ \o g.emit, !.err = g.err, !.n = @ + 1,
                    !.miss = IF missed /\ @ = "none" THEN "reported" ELSE @]
  BY DEF bspatch_pipeline
<1>2. ~missed /\ r.miss = "none" => StepOK(old, new, patch, m, g, r.out)
  <2> SUFFICES ASSUME ~missed, r.miss = "none" PROVE StepOK(old, new, patch, m, g, r.out)
    OBVIOUS
  <2>1. g = PatchByte(r.bs, old, TRUE, patch[m + 1])
    BY DEF PatchByte
  <2>2. StepOK(old, new, patch, m, PatchByte(r.bs, old, TRUE, patch[m + 1]), r.out)
    BY PatchStep DEF Patching, PatchAt
  <2> HIDE DEF g
  <2> QED BY <2>1, <2>2
<1>3. missed => g.err /\ g.p = r.bs /\ g.emit = <<>>
  BY DEF PatchByte
<1>d. missed => r.bs.at = "diff"
  OBVIOUS
<1> HIDE DEF g, q, missed
<1>4. r = [lz |-> r.lz, bs |-> r.bs, out |-> r.out, err |-> r.err, n |-> r.n, bad |-> r.bad, miss |-> r.miss]
  BY DEF PatchAt, IsRec
<1>5. q = [lz |-> r.lz, bs |-> g.p, out |-> r.out \o g.emit, err |-> g.err,
           n |-> r.n + 1, bad |-> r.bad, miss |-> miss]
  BY <1>1, <1>4
<1>6. IsRec(q) /\ q.lz = r.lz /\ q.bs = g.p /\ q.out = r.out \o g.emit /\ q.err = g.err /\ q.miss = miss
  BY <1>5 DEF IsRec
<1>7. ASSUME q.miss = "none" PROVE ~q.err /\ q.lz = z /\ BsAt(old, new, patch, m + 1, q.bs, q.out)
  <2>1. ~missed /\ r.miss = "none"
    BY <1>6, <1>7
  <2>2. ~g.err /\ BsAt(old, new, patch, m + 1, g.p, r.out \o g.emit)
    BY <1>2, <2>1 DEF StepOK
  <2>3. r.lz = z
    BY <2>1 DEF PatchAt
  <2> QED BY <1>6, <2>2, <2>3
<1>8. PatchAt(m + 1, z, q)
  BY <1>6, <1>7 DEF PatchAt
<1>9. ASSUME r.miss # "reported" PROVE Halted(q)
  <2> SUFFICES ASSUME q.miss = "reported"
               PROVE  q.err /\ q.bs.at # "finish" /\ IsPrefix(q.out, new)
    BY DEF Halted
  <2>1. missed /\ r.miss = "none"
    BY <1>6, <1>9
  <2>2. BsAt(old, new, patch, m, r.bs, r.out)
    BY <2>1 DEF PatchAt
  <2>3. IsPrefix(r.out, new) /\ r.out \in Seq(Bytes)
    BY <2>2, PatchedSoFar
  <2>4. r.out \o <<>> = r.out
    BY <2>3
  <2>5. q.err /\ q.bs = r.bs /\ q.out = r.out
    BY <1>3, <1>6, <2>1, <2>4
  <2> QED BY <1>d, <2>1, <2>3, <2>5
<1> QED BY <1>8, <1>9 DEF q

\* The bytes of a token are the next ones of the patch.
LEMMA BytesOn ==
  ASSUME Patching, NEW m \in Nat, NEW z, NEW r, PatchAt(m, z, r), NEW s \in Seq(Nat),
         m + Len(s) <= Len(patch), \A i \in 1..Len(s) : s[i] = patch[m + i], chain = "delta",
         r.miss # "reported", NEW lit, lit => Len(s) <= 1
  PROVE  PatchAt(m + Len(s), z, NextStage(r, s, lit)) /\ Halted(NextStage(r, s, lit))
<1> DEFINE n == Len(s)
           E(v) == v = [k \in 0..Len(s) |-> IF k = 0 THEN r ELSE bspatch_pipeline(v[k - 1], s[k])]
           v == CHOOSE u : E(u)
           Run(k, g) == g = [i \in 0..k |-> IF i = 0 THEN r ELSE bspatch_pipeline(g[i - 1], s[i])]
<1>1. n \in Nat /\ Len(patch) \in Nat
  BY DEF Patching, IsPatch
<1>2. NextStage(r, s, lit) =
        [v[n] EXCEPT !.err = @ /\ lit, !.miss = IF @ = "reported" /\ ~lit THEN "lost" ELSE @]
  BY DEF NextStage
<1> HIDE DEF v
<1>3. \A k \in Nat : \E g : Run(k, g)
  <2> DEFINE T == {k \in Nat : \E g : Run(k, g)}
  <2>1. 0 \in T
    <3>1. Run(0, [i \in 0..0 |-> r])
      OBVIOUS
    <3> QED BY <3>1
  <2>2. ASSUME NEW k \in Nat, k \in T PROVE k + 1 \in T
    <3>1. PICK g : Run(k, g)
      BY <2>2
    <3> DEFINE h == [i \in 0..(k + 1) |-> IF i = k + 1 THEN bspatch_pipeline(g[k], s[k + 1]) ELSE g[i]]
    <3>2. ASSUME NEW i \in 0..(k + 1)
          PROVE  h[i] = IF i = 0 THEN r ELSE bspatch_pipeline(h[i - 1], s[i])
      <4>1. CASE i = 0
        BY <3>1, <4>1
      <4>2. CASE i = k + 1
        <5>1. i - 1 = k /\ k \in 0..(k + 1) /\ k # k + 1 /\ i # 0
          BY <4>2
        <5> QED BY <4>2, <5>1
      <4>3. CASE i # 0 /\ i # k + 1
        <5>1. i \in 0..k /\ i - 1 \in 0..(k + 1) /\ i - 1 # k + 1 /\ i - 1 \in 0..k
          BY <4>3
        <5>2. g[i] = bspatch_pipeline(g[i - 1], s[i])
          BY <3>1, <4>3, <5>1
        <5> QED BY <4>3, <5>1, <5>2
      <4> QED BY <4>1, <4>2, <4>3
    <3>3. Run(k + 1, h)
      BY <3>2
    <3> HIDE DEF h, Run
    <3> QED BY <3>3
  <2>3. Nat \subseteq T
    <3> HIDE DEF T
    <3> QED BY <2>1, <2>2, Induction
  <2> QED BY <2>3
<1>4. E(v)
  <2>1. \E g : E(g)
    BY <1>1, <1>3
  <2> HIDE DEF E
  <2> QED BY <2>1 DEF v
<1> DEFINE T == {k \in Nat : k <= n => PatchAt(m + k, z, v[k])}
<1>5. 0 \in T
  <2>1. v[0] = r /\ m + 0 = m
    BY <1>1, <1>4
  <2> QED BY <2>1
<1>6. ASSUME NEW k \in Nat, k \in T PROVE k + 1 \in T
  <2> SUFFICES ASSUME k + 1 <= n PROVE PatchAt(m + (k + 1), z, v[k + 1])
    OBVIOUS
  <2>1. k \in 0..n /\ k + 1 \in 0..n /\ k + 1 # 0 /\ (k + 1) - 1 = k /\ k <= n /\ k + 1 \in 1..n
    BY <1>1
  <2>2. v[k + 1] = bspatch_pipeline(v[k], s[k + 1])
    BY <1>4, <2>1
  <2>3. m + k < Len(patch) /\ s[k + 1] = patch[m + (k + 1)] /\ m + (k + 1) = (m + k) + 1
    BY <1>1, <2>1, SMTT(60)
  <2>4. PatchAt(m + k, z, v[k])
    BY <1>6, <2>1
  <2>5. PatchAt((m + k) + 1, z, bspatch_pipeline(v[k], patch[(m + k) + 1]))
    BY <2>3, <2>4, ByteOn
  <2> QED BY <2>2, <2>3, <2>5
<1>7. PatchAt(m + n, z, v[n])
  <2>1. Nat \subseteq T
    <3> HIDE DEF T
    <3> QED BY <1>5, <1>6, Induction
  <2>2. n \in T /\ n <= n
    BY <1>1, <2>1
  <2> QED BY <2>2
<1>h. lit => Halted(v[n])
  <2> SUFFICES ASSUME lit PROVE Halted(v[n])
    OBVIOUS
  <2>1. CASE n = 0
    <3>1. v[n] = r
      BY <1>4, <2>1
    <3> QED BY <3>1 DEF Halted
  <2>2. CASE n = 1
    <3>1. 1 \in 0..Len(s) /\ 0 \in 0..Len(s) /\ 1 - 1 = 0 /\ 1 # 0 /\ 1 \in 1..Len(s)
      BY <2>2
    <3>2. v[1] = bspatch_pipeline(v[0], s[1]) /\ v[0] = r
      BY <1>4, <3>1
    <3>3. m < Len(patch) /\ s[1] = patch[m + 1]
      BY <1>1, <2>2, <3>1
    <3>4. Halted(bspatch_pipeline(r, patch[m + 1]))
      BY <3>3, ByteOn
    <3> QED BY <2>2, <3>2, <3>3, <3>4
  <2>3. Len(s) <= 1
    OBVIOUS
  <2>4. n = 0 \/ n = 1
    BY <1>1, <2>3
  <2> QED BY <2>1, <2>2, <2>4
<1> DEFINE u == v[n]
           miss == IF u.miss = "reported" /\ ~lit THEN "lost" ELSE u.miss
           err == u.err /\ lit
           q == [u EXCEPT !.err = @ /\ lit, !.miss = IF @ = "reported" /\ ~lit THEN "lost" ELSE @]
<1>8. PatchAt(m + n, z, u) /\ (lit => Halted(u)) /\ NextStage(r, s, lit) = q
  BY <1>2, <1>7, <1>h
<1>9. u = [lz |-> u.lz, bs |-> u.bs, out |-> u.out, err |-> u.err, n |-> u.n, bad |-> u.bad, miss |-> u.miss]
  BY <1>8 DEF PatchAt, IsRec
<1>10. q = [u EXCEPT !.err = err, !.miss = miss]
  OBVIOUS
<1> HIDE DEF u, q, err, miss
<1>11. q = [lz |-> u.lz, bs |-> u.bs, out |-> u.out, err |-> err, n |-> u.n, bad |-> u.bad, miss |-> miss]
  BY <1>9, <1>10
<1>12. IsRec(q) /\ q.lz = u.lz /\ q.bs = u.bs /\ q.out = u.out /\ q.err = err /\ q.miss = miss
  BY <1>11 DEF IsRec
<1>13. PatchAt(m + n, z, q)
  BY <1>8, <1>12 DEF PatchAt, miss, err
<1>14. Halted(q)
  BY <1>8, <1>12 DEF Halted, miss, err
<1> QED BY <1>8, <1>13, <1>14

IsFront(s, t) == Len(s) <= Len(t) /\ \A i \in 1..Len(s) : s[i] = t[i]

LEMMA Both ==
  ASSUME NEW u \in Seq(Nat), NEW v \in Seq(Nat)
  PROVE  /\ u \o v \in Seq(Nat) /\ Len(u \o v) = Len(u) + Len(v)
         /\ \A i \in 1..Len(u) : (u \o v)[i] = u[i]
         /\ \A i \in 1..Len(v) : (u \o v)[Len(u) + i] = v[i]
<1> DEFINE m == Len(u)
           n == Len(v)
           c == u \o v
<1>1. /\ c \in Seq(Nat) /\ Len(c) = m + n
      /\ \A i \in 1..(m + n) : c[i] = IF i <= m THEN u[i] ELSE v[i - m]
  BY ConcatProperties
<1>2. m \in Nat /\ n \in Nat
  OBVIOUS
<1> HIDE DEF m, n, c
<1>3. ASSUME NEW i \in 1..m PROVE c[i] = u[i]
  BY <1>1, <1>2
<1>4. ASSUME NEW i \in 1..n PROVE c[m + i] = v[i]
  <2>1. m + i \in 1..(m + n) /\ ~(m + i <= m) /\ (m + i) - m = i
    BY <1>2
  <2> QED BY <1>1, <2>1
<1> QED BY <1>1, <1>3, <1>4 DEF m, n, c

\* What the decompressor has handed on is what the patching stage had, or what
\* came out.
Handed(got, r) ==
  IF chain = "delta" THEN BsAt(old, new, patch, Len(got), r.bs, r.out) ELSE r.out = got

\* The stages within a call; only the patching stage reads the old image.
ReadyAt(r) ==
  /\ IsRec(r) /\ Halted(r)
  /\ r.miss = "none" => ~r.err
  /\ chain # "delta" => r.miss = "none"

LEMMA HandOn ==
  ASSUME chain = "delta" => Patching, NEW r, ReadyAt(r), ~r.err,
         NEW got \in Seq(Nat), r.miss = "none" => Handed(got, r),
         NEW s \in Seq(Nat), chain = "delta" => IsFront(got \o s, patch), NEW lit, lit => Len(s) <= 1
  PROVE  ReadyAt(NextStage(r, s, lit))
         /\ (NextStage(r, s, lit).miss = "none" => Handed(got \o s, NextStage(r, s, lit)))
<1> DEFINE q == NextStage(r, s, lit)
           t == got \o s
<1>1. t \in Seq(Nat) /\ Len(t) = Len(got) + Len(s) /\ Len(got) \in Nat /\ Len(s) \in Nat
      /\ \A i \in 1..Len(s) : t[Len(got) + i] = s[i]
  BY Both
<1> HIDE DEF t
<1>2. CASE chain = "delta"
  <2> DEFINE m == Len(got)
             z == r.lz
  <2>1. PatchAt(m, z, r)
    BY <1>2 DEF Handed, PatchAt, ReadyAt
  <2>2. m + Len(s) <= Len(patch) /\ \A i \in 1..Len(s) : s[i] = patch[m + i]
    <3>1. Len(t) <= Len(patch) /\ \A i \in 1..Len(t) : t[i] = patch[i]
      BY <1>2 DEF IsFront, t
    <3>2. ASSUME NEW i \in 1..Len(s) PROVE s[i] = patch[m + i]
      <4>1. m + i \in 1..Len(t)
        BY <1>1
      <4> QED BY <1>1, <3>1, <4>1
    <3> QED BY <1>1, <3>1, <3>2
  <2> HIDE DEF m, z
  <2>3. m \in Nat
    BY <1>1 DEF m
  <2>r. r.miss # "reported"
    BY DEF ReadyAt, Halted
  <2>4. PatchAt(m + Len(s), z, q) /\ Halted(q)
    BY <1>2, <2>1, <2>2, <2>3, <2>r, BytesOn
  <2> HIDE DEF q
  <2>5. m + Len(s) = Len(t)
    BY <1>1 DEF m
  <2>6. IsRec(q) /\ (q.miss = "none" => ~q.err /\ BsAt(old, new, patch, Len(t), q.bs, q.out))
    BY <2>4, <2>5 DEF PatchAt
  <2> QED BY <1>2, <2>4, <2>6 DEF Handed, ReadyAt, q, t
<1>3. CASE chain # "delta"
  <2>1. q = [r EXCEPT !.out = @ \o s]
    BY <1>3 DEF NextStage
  <2>2. r.out = got /\ r.miss = "none"
    BY <1>3 DEF Handed, ReadyAt
  <2>3. r = [lz |-> r.lz, bs |-> r.bs, out |-> r.out, err |-> r.err, n |-> r.n, bad |-> r.bad, miss |-> r.miss]
    BY DEF IsRec, ReadyAt
  <2> HIDE DEF q
  <2>4. q = [lz |-> r.lz, bs |-> r.bs, out |-> t, err |-> r.err, n |-> r.n, bad |-> r.bad, miss |-> r.miss]
    BY <2>1, <2>2, <2>3 DEF t
  <2>5. IsRec(q) /\ ~q.err /\ q.out = t /\ q.miss = "none"
    BY <2>2, <2>4 DEF IsRec
  <2> QED BY <1>3, <2>5 DEF Handed, ReadyAt, Halted, q, t
<1> QED BY <1>2, <1>3

\* Whatever tokens a file has, they give a part of the patch.
Feeds(B) == chain = "delta" => Patching /\ \A n, T : Tokens(B, n, T) => IsFront(T[n].out, patch)

\* The device after k bits.
DevAt(B, k, r) ==
  /\ ReadyAt(r)
  /\ ~r.err => \E n, T : DecodedTo(B, k, r.lz, n, T) /\ (r.miss = "none" => Handed(T[n].out, r))

\* The byte of a literal is the only one of its token.
LEMMA OneLiteral ==
  ASSUME NEW z, NEW b, z.getting \in {"flag", "char", "pos", "len"}
  PROVE  L!GetBit(z, b).literal => Len(L!GetBit(z, b).emit) <= 1
BY DEF L!GetBit, L!CopyByte

LEMMA BitOn ==
  ASSUME NEW B \in Seq(Bits), Feeds(B), NEW k, NEW r, DevAt(B, k, r), ~r.err, k < Len(B)
  PROVE  DevAt(B, k + 1, LzssBit(r, B[k + 1]))
<1>1. PICK n, T : DecodedTo(B, k, r.lz, n, T) /\ (r.miss = "none" => Handed(T[n].out, r))
  BY DEF DevAt
<1> DEFINE a == T[n]
           g == L!GetBit(r.lz, B[k + 1])
           q == NextStage(r, g.emit, g.literal)
           e == [q EXCEPT !.lz = g.d]
<1>2. LzssBit(r, B[k + 1]) = e
  BY DEF LzssBit
<1>3. Tokens(B, n, T) /\ InToken(B, k, r.lz, a) /\ n \in Nat
  BY <1>1 DEF DecodedTo, Tokens
<1>4. BitOK(B, k, g, a)
  BY <1>3, BitStep
<1>5. a \in Spot /\ a.out \in Seq(Nat) /\ a.p \in Nat /\ k \in Nat
  <2>1. n \in 0..n
    BY <1>3
  <2>2. a \in Spot
    BY <1>3, <2>1 DEF Tokens
  <2>3. k \in Nat
    BY <1>3, Unfinished
  <2> QED BY <2>2, <2>3 DEF Spot
<1>6. (r.miss = "none" => Handed(a.out, r)) /\ ReadyAt(r) /\ (chain = "delta" => Patching)
  BY <1>1 DEF DevAt, Feeds
<1>l. g.literal => Len(g.emit) <= 1
  BY <1>3, OneLiteral DEF InToken, g
<1> HIDE DEF a, g
<1>7. ASSUME NEW c, NEW x \in Nat, NEW U, Tokens(B, x, U), U[x] = c, InToken(B, k + 1, g.d, c),
             c.out = a.out \o g.emit, g.emit \in Seq(Nat)
      PROVE  DevAt(B, k + 1, e)
  <2>1. chain = "delta" => IsFront(a.out \o g.emit, patch)
    BY <1>7 DEF Feeds
  <2>2. ReadyAt(q) /\ (q.miss = "none" => Handed(c.out, q))
    BY <1>5, <1>6, <1>7, <1>l, <2>1, HandOn
  <2> HIDE DEF q
  <2>3. q = [lz |-> q.lz, bs |-> q.bs, out |-> q.out, err |-> q.err, n |-> q.n, bad |-> q.bad, miss |-> q.miss]
    BY <2>2 DEF IsRec, ReadyAt
  <2>4. e = [lz |-> g.d, bs |-> q.bs, out |-> q.out, err |-> q.err, n |-> q.n, bad |-> q.bad, miss |-> q.miss]
    BY <2>3
  <2> HIDE DEF e
  <2>5. IsRec(e) /\ e.err = q.err /\ e.lz = g.d /\ e.bs = q.bs /\ e.out = q.out /\ e.miss = q.miss
    BY <2>2, <2>4 DEF IsRec
  <2>6. ReadyAt(e) /\ (e.miss = "none" => Handed(c.out, e))
    BY <2>2, <2>5 DEF Handed, ReadyAt, Halted
  <2>7. DecodedTo(B, k + 1, e.lz, x, U) /\ (e.miss = "none" => Handed(U[x].out, e))
    BY <1>7, <2>5, <2>6 DEF DecodedTo
  <2> QED BY <2>6, <2>7 DEF DevAt
<1>8. CASE g.emit = <<>> /\ InToken(B, k + 1, g.d, a)
  <2>1. a.out = a.out \o g.emit /\ g.emit \in Seq(Nat)
    BY <1>5, <1>8
  <2>2. T[n] = a
    BY DEF a
  <2> QED BY <1>2, <1>3, <1>7, <1>8, <2>1, <2>2
<1>9. CASE /\ a.p + TokenLen(B, a.p) = k + 1 /\ g.emit = TokenOut(B, a).out
           /\ InToken(B, k + 1, g.d, After(B, a))
  <2>1. a.p + TokenLen(B, a.p) <= Len(B) /\ T[n] = a
    BY <1>5, <1>9 DEF a
  <2>2. PICK U : Tokens(B, n + 1, U) /\ U[n + 1] = After(B, a)
    BY <1>3, <2>1, TokensOn
  <2>3. TokenOut(B, a) \in Copied
    BY <1>5, <2>1, AfterTyped
  <2>4. g.emit \in Seq(Nat) /\ After(B, a).out = a.out \o g.emit /\ n + 1 \in Nat
    BY <1>3, <1>9, <2>3 DEF Copied, After
  <2> QED BY <1>2, <1>7, <1>9, <2>2, <2>4
<1> QED BY <1>4, <1>8, <1>9 DEF BitOK

\* The device after f bytes: BITS more bits.
LEMMA LzssByteOn ==
  ASSUME NEW B \in Seq(Bits), Feeds(B), NEW k \in Nat, NEW r, DevAt(B, k, r), k + BITS <= Len(B),
         NEW x, \A i \in 1..BITS : L!BitsOf(x, BITS)[i] = B[k + i]
  PROVE  DevAt(B, k + BITS, lzss_pipeline(r, x))
<1> DEFINE n == BITS
           s == L!BitsOf(x, BITS)
           f(a, i) == IF a.err THEN a ELSE LzssBit(a, s[i])
           E(v) == v = [i \in 0..BITS |-> IF i = 0 THEN r
                                          ELSE IF v[i - 1].err THEN v[i - 1]
                                          ELSE LzssBit(v[i - 1], s[i])]
           v == CHOOSE u : E(u)
           Run(j, g) == g = [i \in 0..j |-> IF i = 0 THEN r ELSE f(g[i - 1], i)]
<1>1. n \in Nat /\ Len(B) \in Nat
  BY Powers
<1>2. lzss_pipeline(r, x) = v[n]
  BY DEF lzss_pipeline
<1>e. \A u : E(u) <=> Run(n, u)
  OBVIOUS
<1> HIDE DEF v, E, f
<1>3. \A j \in Nat : \E g : Run(j, g)
  <2> DEFINE T == {j \in Nat : \E g : Run(j, g)}
  <2>1. 0 \in T
    <3>1. Run(0, [i \in 0..0 |-> r])
      OBVIOUS
    <3> QED BY <3>1
  <2>2. ASSUME NEW j \in Nat, j \in T PROVE j + 1 \in T
    <3>1. PICK g : Run(j, g)
      BY <2>2
    <3> DEFINE h == [i \in 0..(j + 1) |-> IF i = j + 1 THEN f(g[j], j + 1) ELSE g[i]]
    <3>2. ASSUME NEW i \in 0..(j + 1)
          PROVE  h[i] = IF i = 0 THEN r ELSE f(h[i - 1], i)
      <4>1. CASE i = 0
        BY <3>1, <4>1
      <4>2. CASE i = j + 1
        <5>1. i - 1 = j /\ j \in 0..(j + 1) /\ j # j + 1 /\ i # 0
          BY <4>2
        <5> QED BY <4>2, <5>1
      <4>3. CASE i # 0 /\ i # j + 1
        <5>1. i \in 0..j /\ i - 1 \in 0..(j + 1) /\ i - 1 # j + 1 /\ i - 1 \in 0..j
          BY <4>3
        <5>2. g[i] = f(g[i - 1], i)
          BY <3>1, <4>3, <5>1
        <5> QED BY <4>3, <5>1, <5>2
      <4> QED BY <4>1, <4>2, <4>3
    <3>3. Run(j + 1, h)
      BY <3>2
    <3> HIDE DEF h, Run
    <3> QED BY <3>3
  <2>3. Nat \subseteq T
    <3> HIDE DEF T
    <3> QED BY <2>1, <2>2, Induction
  <2> QED BY <2>3
<1>4. Run(n, v)
  <2>1. \E g : E(g)
    <3> HIDE DEF Run
    <3> QED BY <1>1, <1>3, <1>e
  <2>2. E(v)
    BY <2>1 DEF v
  <2> HIDE DEF Run
  <2> QED BY <2>2, <1>e
<1> DEFINE T == {j \in Nat : j <= n => DevAt(B, k + j, v[j])}
<1>5. 0 \in T
  <2>1. v[0] = r /\ k + 0 = k
    BY <1>1, <1>4
  <2> QED BY <2>1
<1>6. ASSUME NEW j \in Nat, j \in T PROVE j + 1 \in T
  <2> SUFFICES ASSUME j + 1 <= n PROVE DevAt(B, k + (j + 1), v[j + 1])
    OBVIOUS
  <2>1. j \in 0..n /\ j + 1 \in 0..n /\ j + 1 # 0 /\ (j + 1) - 1 = j /\ j <= n /\ j + 1 \in 1..n
    BY <1>1
  <2>2. v[j + 1] = f(v[j], j + 1)
    BY <1>4, <2>1
  <2>3. k + j < Len(B) /\ k + (j + 1) = (k + j) + 1
    BY <1>1, <2>1
  <2>4. s[j + 1] = B[(k + j) + 1]
    BY <2>1, <2>3
  <2>5. DevAt(B, k + j, v[j])
    BY <1>6, <2>1
  <2>6. CASE ~v[j].err
    <3>1. v[j + 1] = LzssBit(v[j], s[j + 1])
      BY <2>2, <2>6 DEF f
    <3>2. DevAt(B, (k + j) + 1, LzssBit(v[j], B[(k + j) + 1]))
      BY <2>3, <2>5, <2>6, BitOn
    <3> QED BY <2>3, <2>4, <3>1, <3>2
  <2>7. CASE v[j].err
    <3>1. v[j + 1] = v[j]
      BY <2>2, <2>7 DEF f
    <3> QED BY <2>5, <2>7, <3>1 DEF DevAt
  <2> QED BY <2>6, <2>7
<1>7. DevAt(B, k + n, v[n])
  <2>1. Nat \subseteq T
    <3> HIDE DEF T
    <3> QED BY <1>5, <1>6, Induction
  <2>2. n \in T /\ n <= n
    BY <1>1, <2>1
  <2> QED BY <2>2
<1> QED BY <1>2, <1>7

----------------------------------------------------------------------------
(* A call with a chunk.                                                    *)

\* The device had f bytes of what was sent.
AtByte(f, r) ==
  IF chain = "patch" THEN Halted(r) /\ \E z : PatchAt(f, z, r)
  ELSE DevAt(L!FileBits(sent), BITS * f, r)

\* What was sent suits the stages that are used.
Suits ==
  /\ sent \in Seq(Bytes)
  /\ chain = "patch" => Patching /\ sent = patch
  /\ chain # "patch" => Feeds(L!FileBits(sent))

\* One byte, up to an error.
Take(a, b) ==
  IF a.err THEN a
  ELSE IF chain = "patch" THEN bspatch_pipeline(a, b) ELSE lzss_pipeline(a, b)

LEMMA TakeOn ==
  ASSUME Suits, NEW f \in Nat, f < Len(sent), NEW r, AtByte(f, r)
  PROVE  AtByte(f + 1, Take(r, sent[f + 1]))
<1>0. CASE r.err
  <2>1. Take(r, sent[f + 1]) = r
    BY <1>0 DEF Take
  <2>2. AtByte(f + 1, r)
    BY <1>0 DEF AtByte, PatchAt, DevAt
  <2> QED BY <2>1, <2>2
<1>1. CASE ~r.err /\ chain = "patch"
  <2>1. PICK z : PatchAt(f, z, r)
    BY <1>1 DEF AtByte
  <2>2. Patching /\ sent = patch
    BY <1>1 DEF Suits
  <2>3. r.miss # "reported"
    BY <1>1 DEF AtByte, Halted
  <2>4. PatchAt(f + 1, z, bspatch_pipeline(r, sent[f + 1])) /\ Halted(bspatch_pipeline(r, sent[f + 1]))
    BY <2>1, <2>2, <2>3, ByteOn
  <2> QED BY <1>1, <2>4 DEF AtByte, Take
<1>2. CASE ~r.err /\ chain # "patch"
  <2> DEFINE B == L!FileBits(sent)
             k == BITS * f
             n == Len(sent)
  <2>1. /\ B \in Seq(Bits) /\ Len(B) = BITS * n
        /\ \A i \in 1..BITS : B[BITS * f + i] = L!BitsOf(sent[f + 1], BITS)[i]
    BY FileOfBits DEF Suits
  <2>2. n \in Nat /\ BITS \in Nat
    BY Powers DEF Suits
  <2>3. Feeds(B) /\ DevAt(B, k, r)
    BY <1>2 DEF Suits, AtByte
  <2> HIDE DEF B
  <2>4. k \in Nat /\ BITS * (f + 1) = k + BITS /\ k + BITS <= Len(B)
    <3> DEFINE e == n - f - 1
    <3>1. e \in Nat /\ n = f + 1 + e /\ f \in Nat
      BY <2>2
    <3> HIDE DEF e, n
    <3>2. BITS * n = BITS * f + BITS + BITS * e /\ BITS * e \in Nat /\ BITS * f \in Nat
          /\ BITS * (f + 1) = BITS * f + BITS
      BY <2>2, <3>1
    <3>3. Len(B) = BITS * n
      BY <2>1
    <3> DEFINE y == BITS * f
               x == BITS * e
    <3>4. y \in Nat /\ x \in Nat /\ Len(B) = y + BITS + x /\ BITS * (f + 1) = y + BITS /\ k = y
      BY <3>2, <3>3
    <3> HIDE DEF x, y, k
    <3> QED BY <2>2, <3>4
  <2> HIDE DEF n
  <2>5. DevAt(B, k + BITS, lzss_pipeline(r, sent[f + 1]))
    <3>1. \A i \in 1..BITS : L!BitsOf(sent[f + 1], BITS)[i] = B[k + i]
      BY <2>1
    <3> HIDE DEF k
    <3> QED BY <2>1, <2>3, <2>4, <3>1, LzssByteOn
  <2> QED BY <1>2, <2>4, <2>5 DEF AtByte, Take, B
<1> QED BY <1>0, <1>1, <1>2

\* The stages when a call begins, and where their old image cannot be read.
Start(bad) == [lz |-> lz, bs |-> bs, out |-> sink, err |-> FALSE, n |-> 0, bad |-> bad, miss |-> misread]

\* The loop of a call: n bytes, from the one after fed.
Call(n, bad, v) ==
  v = [k \in 0..n |-> IF k = 0 THEN Start(bad) ELSE Take(v[k - 1], sent[fed + k])]

LEMMA CallExists ==
  ASSUME NEW n \in Nat, NEW bad
  PROVE  \E v : Call(n, bad, v)
<1> DEFINE r == Start(bad)
           f(a, i) == Take(a, sent[fed + i])
           Run(j, g) == g = [i \in 0..j |-> IF i = 0 THEN r ELSE f(g[i - 1], i)]
<1>1. \A j, g : Call(j, bad, g) <=> Run(j, g)
  BY DEF Call
<1> HIDE DEF f, r
<1>3. \A j \in Nat : \E g : Run(j, g)
  <2> DEFINE T == {j \in Nat : \E g : Run(j, g)}
  <2>1. 0 \in T
    <3>1. Run(0, [i \in 0..0 |-> r])
      OBVIOUS
    <3> QED BY <3>1
  <2>2. ASSUME NEW j \in Nat, j \in T PROVE j + 1 \in T
    <3>1. PICK g : Run(j, g)
      BY <2>2
    <3> DEFINE h == [i \in 0..(j + 1) |-> IF i = j + 1 THEN f(g[j], j + 1) ELSE g[i]]
    <3>2. ASSUME NEW i \in 0..(j + 1)
          PROVE  h[i] = IF i = 0 THEN r ELSE f(h[i - 1], i)
      <4>1. CASE i = 0
        BY <3>1, <4>1
      <4>2. CASE i = j + 1
        <5>1. i - 1 = j /\ j \in 0..(j + 1) /\ j # j + 1 /\ i # 0
          BY <4>2
        <5> QED BY <4>2, <5>1
      <4>3. CASE i # 0 /\ i # j + 1
        <5>1. i \in 0..j /\ i - 1 \in 0..(j + 1) /\ i - 1 # j + 1 /\ i - 1 \in 0..j
          BY <4>3
        <5>2. g[i] = f(g[i - 1], i)
          BY <3>1, <4>3, <5>1
        <5> QED BY <4>3, <5>1, <5>2
      <4> QED BY <4>1, <4>2, <4>3
    <3>3. Run(j + 1, h)
      BY <3>2
    <3> HIDE DEF h, Run
    <3> QED BY <3>3
  <2>3. Nat \subseteq T
    <3> HIDE DEF T
    <3> QED BY <2>1, <2>2, Induction
  <2> QED BY <2>3
<1> HIDE DEF Run
<1> QED BY <1>1, <1>3

\* Neither how many bytes were given nor what cannot be read matters to where they are.
LEMMA SameSpot ==
  ASSUME NEW f, NEW q, AtByte(f, q), NEW e, IsRec(e), ~e.err <=> ~q.err,
         e.lz = q.lz, e.bs = q.bs, e.out = q.out, e.miss = q.miss
  PROVE  AtByte(f, e)
<1>1. \A s : Handed(s, q) => Handed(s, e)
  BY DEF Handed
<1>2. Halted(q) => Halted(e)
  BY Zenon DEF Halted
<1>3. CASE chain = "patch"
  <2>1. PICK z : PatchAt(f, z, q) /\ Halted(q)
    BY <1>3 DEF AtByte
  <2>2. PatchAt(f, z, e)
    BY <2>1 DEF PatchAt
  <2> QED BY <1>2, <1>3, <2>1, <2>2 DEF AtByte
<1>4. CASE chain # "patch"
  <2> DEFINE B == L!FileBits(sent)
             k == BITS * f
  <2>1. DevAt(B, k, q)
    BY <1>4 DEF AtByte
  <2> HIDE DEF B, k
  <2>2. ReadyAt(e)
    BY <1>2, <2>1 DEF DevAt, ReadyAt
  <2>3. ~e.err => \E n, T : DecodedTo(B, k, e.lz, n, T) /\ (e.miss = "none" => Handed(T[n].out, e))
    BY <1>1, <2>1 DEF DevAt
  <2>4. DevAt(B, k, e)
    BY <2>2, <2>3 DEF DevAt
  <2> QED BY <1>4, <2>4 DEF AtByte, B, k
<1> QED BY <1>3, <1>4

\* The stages between two calls.
Now == [lz |-> lz, bs |-> bs, out |-> sink, err |-> failed, n |-> 0, bad |-> {}, miss |-> misread]
DeviceAt == AtByte(fed, Now)

LEMMA CallOn ==
  ASSUME Suits, fed \in Nat, DeviceAt, ~failed, NEW n \in Nat, fed + n <= Len(sent),
         NEW bad, NEW v, Call(n, bad, v)
  PROVE  AtByte(fed + n, v[n])
<1> DEFINE T == {k \in Nat : k <= n => AtByte(fed + k, v[k])}
           r == Start(bad)
<1>0. Len(sent) \in Nat
  BY DEF Suits
<1>1. 0 \in T
  <2>1. v[0] = r /\ fed + 0 = fed
    BY DEF Call
  <2>2. /\ IsRec(r) /\ ~r.err /\ r.lz = lz /\ r.bs = bs /\ r.out = sink /\ r.miss = misread
        /\ ~Now.err /\ Now.lz = lz /\ Now.bs = bs /\ Now.out = sink /\ Now.miss = misread
    BY DEF IsRec, Start, Now
  <2>3. AtByte(fed, Now)
    BY DEF DeviceAt
  <2> HIDE DEF r
  <2>4. AtByte(fed, r)
    BY <2>2, <2>3, SameSpot
  <2> QED BY <2>1, <2>4
<1>2. ASSUME NEW k \in Nat, k \in T PROVE k + 1 \in T
  <2> SUFFICES ASSUME k + 1 <= n PROVE AtByte(fed + (k + 1), v[k + 1])
    OBVIOUS
  <2>1. k \in 0..n /\ k + 1 \in 0..n /\ k + 1 # 0 /\ (k + 1) - 1 = k /\ k <= n
    OBVIOUS
  <2>2. v[k + 1] = Take(v[k], sent[fed + (k + 1)])
    BY <2>1 DEF Call
  <2>3. fed + k \in Nat /\ fed + k < Len(sent) /\ fed + (k + 1) = (fed + k) + 1
    BY <1>0, <2>1
  <2>4. AtByte(fed + k, v[k])
    BY <1>2, <2>1
  <2>5. AtByte((fed + k) + 1, Take(v[k], sent[(fed + k) + 1]))
    BY <2>3, <2>4, TakeOn
  <2> QED BY <2>2, <2>3, <2>5
<1>3. Nat \subseteq T
  <2> HIDE DEF T
  <2> QED BY <1>1, <1>2, Induction
<1>4. n \in T /\ n <= n
  BY <1>3
<1> QED BY <1>4

\* A call leaves the stages where the bytes it had end.
LEMMA ReceiveOn ==
  ASSUME Receive, Suits, fed \in Nat, DeviceAt
  PROVE  fed' \in Nat /\ fed' <= Len(sent) /\ DeviceAt'
<1>0. UNCHANGED <<chain, old, new, patch, sent>> /\ ~failed
  BY DEF Receive, tool
<1>1. PICK len \in 1..MaxChunk, bad \in Unread :
        /\ fed + len <= Len(sent) /\ fed' = fed + len
        /\ LET step(a, b) == IF a.err THEN a
                             ELSE IF chain = "patch" THEN bspatch_pipeline(a, b)
                             ELSE lzss_pipeline(a, b)
               run[k \in 0..len] ==
                 IF k = 0 THEN [lz |-> lz, bs |-> bs, out |-> sink, err |-> FALSE,
                                n |-> 0, bad |-> bad, miss |-> misread]
                 ELSE step(run[k - 1], sent[fed + k])
           IN  /\ lz' = run[len].lz /\ bs' = run[len].bs /\ sink' = run[len].out
               /\ failed' = run[len].err /\ misread' = run[len].miss
  BY DEF Receive
<1> DEFINE v == CHOOSE u : Call(len, bad, u)
<1>2. /\ lz' = v[len].lz /\ bs' = v[len].bs /\ sink' = v[len].out
      /\ failed' = v[len].err /\ misread' = v[len].miss
  BY <1>1 DEF Call, Take, Start
<1>3. len \in Nat
  OBVIOUS
<1>4. Call(len, bad, v)
  BY <1>3, CallExists
<1> HIDE DEF v
<1> DEFINE q == v[len]
<1>5. AtByte(fed + len, q)
  BY <1>0, <1>1, <1>3, <1>4, CallOn
<1>6. lz' = q.lz /\ bs' = q.bs /\ sink' = q.out /\ failed' = q.err /\ misread' = q.miss
  BY <1>2
<1> HIDE DEF q
<1> DEFINE e == [lz |-> q.lz, bs |-> q.bs, out |-> q.out, err |-> q.err, n |-> 0, bad |-> {}, miss |-> q.miss]
<1>7. IsRec(e) /\ e.err = q.err /\ e.lz = q.lz /\ e.bs = q.bs /\ e.out = q.out /\ e.miss = q.miss
  BY DEF IsRec
<1>8. e = Now'
  BY <1>6 DEF Now
<1> HIDE DEF e
<1>9. AtByte(fed + len, e)
  BY <1>5, <1>7, SameSpot
<1>10. DeviceAt'
  <2>1. DeviceAt' <=> AtByte(fed', Now')
    BY <1>0, Zenon DEF DeviceAt, AtByte, PatchAt, DevAt, Handed, ReadyAt, Halted
  <2> QED BY <1>1, <1>8, <1>9, <2>1
<1>11. fed' \in Nat /\ fed' <= Len(sent)
  BY <1>1, <1>3
<1> QED BY <1>10, <1>11

----------------------------------------------------------------------------
(* The text behind the window it starts with.                              *)

Lead == L!N - L!F
Stream(text, j) == IF j < Lead THEN SPACE ELSE text[(j - Lead) + 1]

LEMMA LeadBounds ==
  /\ L!N \in Nat \ {0} /\ L!F \in Nat /\ Lead \in Nat \ {0} /\ Lead + L!F = L!N /\ L!F >= 2
<1>1. L!N \in Nat \ {0} /\ L!F \in Nat /\ L!F < L!N
  BY Sizes
<1>2. L!F >= 2
  <2>1. EJ \in Widths /\ L!F = Pow(EJ) + 1
    BY Powers, Sizes DEF Widths
  <2>2. Pow(EJ) \in Nat \ {0}
    BY <2>1, Powers
  <2> QED BY <2>1, <2>2
<1> QED BY <1>1, <1>2 DEF Lead

LEMMA StreamIsByte ==
  ASSUME NEW text \in Seq(Bytes), NEW j \in Nat, j < Lead + Len(text)
  PROVE  Stream(text, j) \in Bytes /\ Stream(text, j) \in Nat
<1>1. Lead \in Nat /\ SPACE \in Bytes /\ Bytes \subseteq Nat
  BY LeadBounds, Sizes, ByteWidth
<1> DEFINE i == (j - Lead) + 1
<1>2. CASE j < Lead
  BY <1>1, <1>2 DEF Stream
<1>3. CASE ~(j < Lead)
  <2>1. i \in 1..Len(text)
    BY <1>1, <1>3
  <2>2. Stream(text, j) = text[i]
    BY <1>3 DEF Stream
  <2> HIDE DEF i
  <2>3. text[i] \in Bytes
    BY <2>1
  <2> QED BY <1>1, <2>2, <2>3
<1> QED BY <1>2, <1>3

\* The window of a decoder that has put out the stream up to R.
WinAt(text, w, R) ==
  /\ w \in Win /\ R \in Nat /\ R >= Lead /\ w.r = R % L!N
  /\ \A j \in Nat : R <= j + Lead /\ j < R => w.buffer[j % L!N] = Stream(text, j)

LEMMA WindowStart ==
  ASSUME NEW text
  PROVE  WinAt(text, L!Window, Lead)
<1> DEFINE n == L!N
           w == L!Window
<1>1. n \in Nat \ {0} /\ Lead \in Nat /\ Lead < n
  BY LeadBounds
<1>2. w \in Win /\ w.r = Lead /\ \A i \in 0..(Lead - 1) : w.buffer[i] = SPACE
  BY FirstWindow DEF Lead
<1> HIDE DEF n, w
<1>3. \A j \in Nat : j < n => j % n = j
  BY <1>1
<1>4. ASSUME NEW j \in Nat, j < Lead PROVE w.buffer[j % n] = Stream(text, j)
  <2>1. j % n = j /\ j \in 0..(Lead - 1)
    BY <1>1, <1>3, <1>4
  <2> QED BY <1>2, <1>4, <2>1 DEF Stream
<1>5. Lead % n = Lead /\ Lead >= Lead
  BY <1>1, <1>3
<1> QED BY <1>1, <1>2, <1>4, <1>5 DEF WinAt, n, w

\* The byte that is put out next takes the place of the oldest one.
LEMMA WindowOn ==
  ASSUME NEW text, NEW w, NEW R, WinAt(text, w, R), NEW c \in Nat, c = Stream(text, R)
  PROVE  WinAt(text, L!PutByte(w, c), R + 1)
<1> DEFINE n == L!N
           q == L!PutByte(w, c)
<1>1. n \in Nat \ {0} /\ Lead \in Nat /\ Lead < n
  BY LeadBounds
<1>2. /\ w \in Win /\ R \in Nat /\ R >= Lead /\ w.r = R % n
      /\ \A j \in Nat : R <= j + Lead /\ j < R => w.buffer[j % n] = Stream(text, j)
  BY DEF WinAt
<1>3. /\ q \in Win /\ q.r = (w.r + 1) % n
      /\ \A i \in 0..(n - 1) : q.buffer[i] = IF i = w.r THEN c ELSE w.buffer[i]
  BY <1>2, PutInWindow
<1> HIDE DEF n, q
<1>4. (w.r + 1) % n = (R + 1) % n
  <2>1. 1 \in Nat
    OBVIOUS
  <2>2. ((R % n) + 1) % n = (R + 1) % n
    BY <1>1, <1>2, <2>1, RemainderSum
  <2> QED BY <1>2, <2>2
<1>5. ASSUME NEW j \in Nat, R + 1 <= j + Lead, j < R + 1
      PROVE  q.buffer[j % n] = Stream(text, j)
  <2>1. j % n \in 0..(n - 1)
    BY <1>1, Division
  <2>2. CASE j = R
    BY <1>2, <1>3, <2>1, <2>2
  <2>3. CASE j # R
    <3>1. j <= R /\ R < j + n /\ j < R /\ R <= j + Lead
      BY <1>1, <1>2, <1>5, <2>3
    <3>2. j % n # R % n
      BY <1>1, <1>2, <2>3, <3>1, RemainderOnce
    <3>3. w.buffer[j % n] = Stream(text, j)
      BY <1>2, <3>1
    <3> QED BY <1>2, <1>3, <2>1, <3>2, <3>3
  <2> QED BY <2>2, <2>3
<1>6. R + 1 \in Nat /\ R + 1 >= Lead
  BY <1>1, <1>2
<1> QED BY <1>3, <1>4, <1>5, <1>6 DEF WinAt, n, q

\* The stretch of the text behind R.
IsNext(text, R, n, s) ==
  s \in Seq(Nat) /\ Len(s) = n /\ \A i \in 1..n : s[i] = Stream(text, (R + i) - 1)

LEMMA NextOn ==
  ASSUME NEW text, NEW R \in Nat, NEW n \in Nat, NEW s, IsNext(text, R, n, s),
         NEW c \in Nat, c = Stream(text, R + n)
  PROVE  IsNext(text, R, n + 1, Append(s, c))
<1> DEFINE t == Append(s, c)
<1>1. s \in Seq(Nat) /\ Len(s) = n /\ \A i \in 1..n : s[i] = Stream(text, (R + i) - 1)
  BY DEF IsNext
<1>2. t \in Seq(Nat) /\ Len(t) = n + 1 /\ (\A i \in 1..n : t[i] = s[i]) /\ t[n + 1] = c
  BY <1>1, AppendAny
<1> HIDE DEF t
<1>3. ASSUME NEW i \in 1..(n + 1) PROVE t[i] = Stream(text, (R + i) - 1)
  <2>1. CASE i = n + 1
    <3>1. (R + i) - 1 = R + n
      BY <2>1
    <3> QED BY <1>2, <2>1, <3>1
  <2>2. CASE i # n + 1
    <3>1. i \in 1..n
      BY <2>2
    <3> QED BY <1>1, <1>2, <3>1
  <2> QED BY <2>1, <2>2
<1> QED BY <1>2, <1>3 DEF IsNext, t

\* A match: the text at j repeats from R on for y bytes, some of which may be
\* among those the match itself puts out.
Repeats(text, j, R, y) ==
  /\ j \in Nat /\ R <= j + Lead /\ j < R /\ y \in Nat
  /\ \A k \in Nat : k < y => Stream(text, j + k) = Stream(text, R + k)

LEMMA MatchCopied ==
  ASSUME NEW text \in Seq(Bytes), NEW w, NEW R, WinAt(text, w, R), NEW j, NEW y,
         Repeats(text, j, R, y), R + y <= Lead + Len(text)
  PROVE  /\ WinAt(text, L!CopyMatch(w, j % L!N, y).w, R + y)
         /\ IsNext(text, R, y, L!CopyMatch(w, j % L!N, y).out)
<1> DEFINE n == L!N
           x == j % n
<1>1. n \in Nat \ {0} /\ Lead \in Nat /\ Lead < n /\ Len(text) \in Nat
  BY LeadBounds
<1>2. /\ j \in Nat /\ R <= j + Lead /\ j < R /\ y \in Nat
      /\ \A k \in Nat : k < y => Stream(text, j + k) = Stream(text, R + k)
  BY DEF Repeats
<1>3. w \in Win /\ R \in Nat
  BY DEF WinAt
<1>4. x \in Nat
  BY <1>1, <1>2, Division
<1> HIDE DEF x
<1>5. PICK h : IsCopy(w, x, h)
  BY <1>3, <1>4, CopyTable
<1>6. L!CopyMatch(w, x, y) = h[y]
  BY <1>2, <1>4, <1>5, CopyIs
<1> DEFINE T == {k \in Nat : k <= y => WinAt(text, h[k].w, R + k) /\ IsNext(text, R, k, h[k].out)}
<1>7. 0 \in T
  <2>1. h[0] = [w |-> w, out |-> <<>>] /\ R + 0 = R
    BY <1>3, <1>5 DEF IsCopy
  <2>2. h[0].w = w /\ h[0].out = <<>>
    BY <2>1
  <2>3. IsNext(text, R, 0, <<>>)
    BY DEF IsNext
  <2> QED BY <2>1, <2>2, <2>3
<1>8. ASSUME NEW k \in Nat, k \in T PROVE k + 1 \in T
  <2> SUFFICES ASSUME k + 1 <= y
               PROVE  WinAt(text, h[k + 1].w, R + (k + 1)) /\ IsNext(text, R, k + 1, h[k + 1].out)
    OBVIOUS
  <2>1. k < y /\ k <= y
    BY <1>2
  <2> DEFINE v == h[k].w
             o == h[k].out
             c == v.buffer[(x + k) % n]
  <2>2. WinAt(text, v, R + k) /\ IsNext(text, R, k, o)
    BY <1>8, <2>1
  <2>3. h[k + 1] = [w |-> L!PutByte(v, c), out |-> Append(o, c)]
    BY <1>5 DEF IsCopy
  <2> HIDE DEF v, o
  <2>4. (x + k) % n = (j + k) % n
    BY <1>1, <1>2, RemainderSum DEF x
  <2>5. v.buffer[(j + k) % n] = Stream(text, j + k)
    <3>1. j + k \in Nat /\ R + k <= (j + k) + Lead /\ j + k < R + k
      BY <1>1, <1>2, <1>3
    <3> QED BY <2>2, <3>1 DEF WinAt
  <2>6. c = Stream(text, R + k)
    BY <1>2, <2>1, <2>4, <2>5
  <2> HIDE DEF c
  <2>7. c \in Nat
    <3>1. R + k \in Nat /\ R + k < Lead + Len(text)
      BY <1>1, <1>2, <1>3, <2>1
    <3> QED BY <2>6, <3>1, StreamIsByte
  <2>8. WinAt(text, L!PutByte(v, c), (R + k) + 1)
    BY <2>2, <2>6, <2>7, WindowOn
  <2>9. IsNext(text, R, k + 1, Append(o, c))
    BY <1>3, <2>2, <2>6, <2>7, NextOn
  <2>10. (R + k) + 1 = R + (k + 1) /\ h[k + 1].w = L!PutByte(v, c) /\ h[k + 1].out = Append(o, c)
    BY <1>3, <2>3
  <2> QED BY <2>8, <2>9, <2>10
<1>9. Nat \subseteq T
  <2> HIDE DEF T
  <2> QED BY <1>7, <1>8, Induction
<1>10. y \in T /\ y <= y
  BY <1>2, <1>9
<1> QED BY <1>6, <1>10 DEF x

----------------------------------------------------------------------------
(* A token behind the others.                                              *)

LEMMA JoinBits ==
  ASSUME NEW u \in Seq(Bits), NEW v \in Seq(Bits)
  PROVE  /\ u \o v \in Seq(Bits) /\ Len(u \o v) = Len(u) + Len(v)
         /\ \A i \in 1..Len(u) : (u \o v)[i] = u[i]
         /\ \A i \in 1..Len(v) : (u \o v)[Len(u) + i] = v[i]
<1> DEFINE m == Len(u)
           n == Len(v)
           c == u \o v
<1>1. /\ c \in Seq(Bits) /\ Len(c) = m + n
      /\ \A i \in 1..(m + n) : c[i] = IF i <= m THEN u[i] ELSE v[i - m]
  BY ConcatProperties
<1>2. m \in Nat /\ n \in Nat
  OBVIOUS
<1> HIDE DEF m, n, c
<1>3. ASSUME NEW i \in 1..m PROVE c[i] = u[i]
  BY <1>1, <1>2
<1>4. ASSUME NEW i \in 1..n PROVE c[m + i] = v[i]
  <2>1. m + i \in 1..(m + n) /\ ~(m + i <= m) /\ (m + i) - m = i
    BY <1>2
  <2> QED BY <1>1, <2>1
<1> QED BY <1>1, <1>3, <1>4 DEF m, n, c

Joined(c, u, v) ==
  /\ c \in Seq(Bits) /\ Len(c) = Len(u) + Len(v)
  /\ \A i \in 1..Len(u) : c[i] = u[i]
  /\ \A i \in 1..Len(v) : c[Len(u) + i] = v[i]

LEMMA JoinIs ==
  ASSUME NEW u \in Seq(Bits), NEW v \in Seq(Bits), NEW c, c = u \o v
  PROVE  Joined(c, u, v)
BY JoinBits, Zenon DEF Joined

LEMMA FrontBits ==
  ASSUME NEW C \in Seq(Bits), NEW k \in 0..Len(C)
  PROVE  /\ SubSeq(C, 1, k) \in Seq(Bits) /\ Len(SubSeq(C, 1, k)) = k
         /\ \A i \in 1..k : SubSeq(C, 1, k)[i] = C[i]
OBVIOUS

LEMMA JoinFront ==
  ASSUME NEW u \in Seq(Bits), NEW v \in Seq(Bits)
  PROVE  SubSeq(u \o v, 1, Len(u)) = u /\ Len(u) \in 0..Len(u \o v)
<1> DEFINE c == u \o v
           k == Len(u)
           t == SubSeq(c, 1, k)
<1>1. c \in Seq(Bits) /\ Len(c) = k + Len(v) /\ \A i \in 1..k : c[i] = u[i]
  BY JoinBits
<1>2. k \in Nat /\ Len(v) \in Nat
  OBVIOUS
<1> HIDE DEF c, k
<1>3. k \in 0..Len(c)
  BY <1>1, <1>2
<1>4. t \in Seq(Bits) /\ Len(t) = k /\ \A i \in 1..k : t[i] = c[i]
  BY <1>1, <1>3, FrontBits
<1> HIDE DEF t
<1>5. Len(t) = Len(u) /\ \A i \in 1..Len(t) : t[i] = u[i]
  BY <1>1, <1>4 DEF k
<1>6. t = u
  BY <1>4, <1>5, SameSequence
<1> QED BY <1>3, <1>6 DEF t, c, k

\* A token is the same when more bits follow.
LEMMA TokenStays ==
  ASSUME NEW C \in Seq(Bits), NEW k \in 0..Len(C), NEW a \in Spot,
         a.p + TokenLen(SubSeq(C, 1, k), a.p) <= k
  PROVE  After(SubSeq(C, 1, k), a) = After(C, a) /\ TokenLen(SubSeq(C, 1, k), a.p) = TokenLen(C, a.p)
<1> DEFINE B == SubSeq(C, 1, k)
           p == a.p
<1>1. B \in Seq(Bits) /\ Len(B) = k /\ \A i \in 1..k : B[i] = C[i]
  BY FrontBits
<1>2. p \in Nat /\ k \in Nat
  BY DEF Spot
<1>3. SubSeq(B, 1, k) = B
  <2> HIDE DEF B
  <2> QED BY <1>1, <1>2
<1>4. TokenLen(B, p) \in Nat /\ TokenLen(B, p) > 1 /\ p + TokenLen(B, p) <= k
  BY TokenLength
<1> HIDE DEF p, B
<1>5. p + 1 \in 1..k /\ p <= k
  BY <1>2, <1>4
<1>6. TokenLen(B, p) = TokenLen(C, p)
  <2>1. B[p + 1] = C[p + 1]
    BY <1>1, <1>5
  <2> QED BY <2>1 DEF TokenLen
<1>7. L!DecodeToken(B, a) = After(C, a)
  BY <1>2, <1>4, <1>5, <1>6, TokenDecoded DEF B, p
<1>8. L!DecodeToken(B, a) = After(B, a)
  <2>1. k \in 0..Len(B) /\ a.p \in Nat /\ a.p <= k /\ a.p + TokenLen(B, a.p) <= k
    BY <1>1, <1>2, <1>4, <1>5 DEF p
  <2>2. L!DecodeToken(SubSeq(B, 1, k), a)
          = IF a.p + TokenLen(B, a.p) <= k THEN After(B, a) ELSE a
    BY <1>1, <2>1, TokenDecoded
  <2> QED BY <1>3, <2>1, <2>2
<1> QED BY <1>6, <1>7, <1>8 DEF B, p

LEMMA TokensStay ==
  ASSUME NEW C \in Seq(Bits), NEW k \in 0..Len(C), NEW n, NEW T, Tokens(SubSeq(C, 1, k), n, T)
  PROVE  Tokens(C, n, T)
<1> DEFINE B == SubSeq(C, 1, k)
<1>1. B \in Seq(Bits) /\ Len(B) = k /\ Len(C) \in Nat /\ k <= Len(C) /\ k \in Nat
  BY FrontBits
<1>2. /\ n \in Nat /\ T[0] = Origin
      /\ \A i \in 0..(n - 1) : T[i + 1] = After(B, T[i])
      /\ \A i \in 0..n : T[i] \in Spot /\ i * BITS <= T[i].p /\ T[i].p <= k
  BY <1>1 DEF Tokens
<1> HIDE DEF B
<1>3. ASSUME NEW i \in 0..(n - 1) PROVE T[i + 1] = After(C, T[i])
  <2> DEFINE a == T[i]
  <2>1. i \in 0..n /\ i + 1 \in 0..n
    BY <1>2
  <2>2. a \in Spot /\ T[i + 1] = After(B, a) /\ T[i + 1].p <= k
    BY <1>2, <2>1
  <2> HIDE DEF a
  <2>3. After(B, a).p = a.p + TokenLen(B, a.p)
    BY DEF After
  <2>4. a.p + TokenLen(B, a.p) <= k
    BY <2>2, <2>3
  <2>5. After(B, a) = After(C, a)
    BY <2>2, <2>4, TokenStays DEF B
  <2> QED BY <2>2, <2>5 DEF a
<1>4. ASSUME NEW i \in 0..n PROVE T[i] \in Spot /\ i * BITS <= T[i].p /\ T[i].p <= Len(C)
  <2>1. T[i] \in Spot /\ i * BITS <= T[i].p /\ T[i].p <= k
    BY <1>2
  <2>2. T[i].p \in Nat
    BY <2>1 DEF Spot
  <2>3. T[i].p <= Len(C)
    BY <1>1, <2>1, <2>2
  <2> QED BY <2>1, <2>3
<1> QED BY <1>2, <1>3, <1>4 DEF Tokens

LEMMA PartRead ==
  ASSUME NEW C \in Seq(Bits), NEW p \in Nat, NEW n \in Widths, NEW x \in Nat, x < Pow(n),
         p + n <= Len(C), \A b \in 1..n : C[p + b] = L!BitsOf(x, n)[b]
  PROVE  Val(C, p, n) = x
<1> DEFINE s == SubSeq(C, p + 1, p + n)
<1>1. n \in Nat
  BY Powers DEF Widths
<1>2. Len(s) = n /\ \A b \in 1..n : s[b] = C[p + b]
  BY <1>1
<1> HIDE DEF s
<1>3. \A b \in 1..n : s[b] = L!BitsOf(x, n)[b]
  BY <1>2
<1>4. L!ValueOf(s) = x
  BY <1>2, <1>3, ReadBack
<1> QED BY <1>4 DEF Val, s

Grown(C, B, t) == C = B \o t
LiteralBits(c) == <<1>> \o L!BitsOf(c, BITS)
MatchBits(x, y) == <<0>> \o L!BitsOf(x, EI) \o L!BitsOf(y, EJ)

LEMMA LiteralToken ==
  ASSUME NEW B \in Seq(Bits), NEW c \in Bytes, NEW a \in Spot, a.p = Len(B), NEW C,
         Grown(C, B, LiteralBits(c))
  PROVE  /\ C \in Seq(Bits) /\ Len(C) = a.p + TokenLen(C, a.p)
         /\ TokenOut(C, a) = L!CopyByte(a.w, c)
<1> DEFINE s == L!BitsOf(c, BITS)
           one == <<1>>
           t == one \o s
           p == a.p
<1>1. BITS \in Nat /\ p \in Nat /\ BITS \in Widths /\ c \in Nat /\ c < Pow(BITS)
  <2>1. Pow(BITS) \in Nat
    BY ByteWidth, Powers
  <2> QED BY <2>1, ByteWidth, Powers
<1>2. s \in Seq(Bits) /\ Len(s) = BITS
  BY <1>1, BitsAre
<1>3. one \in Seq(Bits) /\ Len(one) = 1 /\ one[1] = 1
  BY DEF Bits
<1> HIDE DEF s, one
<1>4. t \in Seq(Bits) /\ Len(t) = 1 + BITS /\ t[1] = 1 /\ \A i \in 1..BITS : t[1 + i] = s[i]
  <2>1. 1 \in 1..Len(one)
    BY <1>3
  <2>2. Joined(t, one, s)
    BY <1>2, <1>3, JoinIs
  <2> HIDE DEF t
  <2> QED BY <1>2, <1>3, <2>1, <2>2 DEF Joined
<1> HIDE DEF t, p
<1>5. C = B \o t
  BY DEF Grown, LiteralBits, t, one, s
<1>6. C \in Seq(Bits) /\ Len(C) = p + (1 + BITS) /\ \A i \in 1..(1 + BITS) : C[p + i] = t[i]
  <2>1. Joined(C, B, t)
    BY <1>4, <1>5, JoinIs
  <2> QED BY <1>4, <2>1 DEF Joined, p
<1>7. C[p + 1] = 1 /\ \A i \in 1..BITS : C[(p + 1) + i] = s[i]
  <2>1. 1 \in 1..(1 + BITS)
    BY <1>1
  <2>2. ASSUME NEW i \in 1..BITS PROVE C[(p + 1) + i] = s[i]
    <3>1. 1 + i \in 1..(1 + BITS) /\ (p + 1) + i = p + (1 + i)
      BY <1>1
    <3> QED BY <1>4, <1>6, <3>1
  <2> QED BY <1>4, <1>6, <2>1, <2>2
<1>8. Val(C, p + 1, BITS) = c
  <2>1. p + 1 \in Nat /\ (p + 1) + BITS <= Len(C)
    BY <1>1, <1>6
  <2>2. \A b \in 1..BITS : C[(p + 1) + b] = L!BitsOf(c, BITS)[b]
    BY <1>7 DEF s
  <2> QED BY <1>1, <1>6, <2>1, <2>2, PartRead
<1>9. TokenLen(C, p) = 1 + BITS
  BY <1>7 DEF TokenLen
<1> QED BY <1>6, <1>7, <1>8, <1>9 DEF TokenOut, p

LEMMA MatchToken ==
  ASSUME NEW B \in Seq(Bits), NEW x \in Nat, x < L!N, NEW y \in Nat, y < Pow(EJ),
         NEW a \in Spot, a.p = Len(B), NEW C,
         Grown(C, B, MatchBits(x, y))
  PROVE  /\ C \in Seq(Bits) /\ Len(C) = a.p + TokenLen(C, a.p)
         /\ TokenOut(C, a) = L!CopyMatch(a.w, x, y + 2)
<1> DEFINE s == L!BitsOf(x, EI)
           u == L!BitsOf(y, EJ)
           nil == <<0>>
           v == nil \o s
           t == v \o u
           p == a.p
<1>1. EI \in Nat /\ EJ \in Nat /\ p \in Nat /\ EI \in Widths /\ EJ \in Widths /\ x < Pow(EI)
  BY Powers, Sizes DEF Widths, Spot
<1>2. s \in Seq(Bits) /\ Len(s) = EI /\ u \in Seq(Bits) /\ Len(u) = EJ
  BY <1>1, BitsAre
<1>3. nil \in Seq(Bits) /\ Len(nil) = 1 /\ nil[1] = 0
  BY DEF Bits
<1> HIDE DEF s, u, nil
<1>4. v \in Seq(Bits) /\ Len(v) = 1 + EI /\ v[1] = 0 /\ \A i \in 1..EI : v[1 + i] = s[i]
  <2>1. 1 \in 1..Len(nil)
    BY <1>3
  <2>2. Joined(v, nil, s)
    BY <1>2, <1>3, JoinIs
  <2> HIDE DEF v
  <2> QED BY <1>2, <1>3, <2>1, <2>2 DEF Joined
<1> HIDE DEF v
<1>5. /\ t \in Seq(Bits) /\ Len(t) = (1 + EI) + EJ
      /\ \A i \in 1..(1 + EI) : t[i] = v[i]
      /\ \A i \in 1..EJ : t[(1 + EI) + i] = u[i]
  <2>1. Joined(t, v, u)
    BY <1>2, <1>4, JoinIs
  <2> HIDE DEF t
  <2> QED BY <1>2, <1>4, <2>1 DEF Joined
<1> HIDE DEF t, p
<1>6. C = B \o t
  BY DEF Grown, MatchBits, t, v, nil, s, u
<1>7. C \in Seq(Bits) /\ Len(C) = p + ((1 + EI) + EJ) /\ \A i \in 1..((1 + EI) + EJ) : C[p + i] = t[i]
  <2>1. Joined(C, B, t)
    BY <1>5, <1>6, JoinIs
  <2> QED BY <1>5, <2>1 DEF Joined, p
<1>8. /\ C[p + 1] = 0
      /\ \A i \in 1..EI : C[(p + 1) + i] = s[i]
      /\ \A i \in 1..EJ : C[(p + 1 + EI) + i] = u[i]
  <2>1. 1 \in 1..((1 + EI) + EJ) /\ 1 \in 1..(1 + EI)
    BY <1>1
  <2>2. ASSUME NEW i \in 1..EI PROVE C[(p + 1) + i] = s[i]
    <3>1. 1 + i \in 1..(1 + EI) /\ 1 + i \in 1..((1 + EI) + EJ) /\ (p + 1) + i = p + (1 + i)
      BY <1>1
    <3> QED BY <1>4, <1>5, <1>7, <3>1
  <2>3. ASSUME NEW i \in 1..EJ PROVE C[(p + 1 + EI) + i] = u[i]
    <3> DEFINE m == (1 + EI) + i
    <3>1. m \in 1..((1 + EI) + EJ) /\ (p + 1 + EI) + i = p + m
      BY <1>1
    <3>2. t[m] = u[i]
      BY <1>5
    <3> HIDE DEF m
    <3> QED BY <1>7, <3>1, <3>2
  <2> QED BY <1>4, <1>5, <1>7, <2>1, <2>2, <2>3
<1>9. Val(C, p + 1, EI) = x
  <2>1. p + 1 \in Nat /\ (p + 1) + EI <= Len(C)
    BY <1>1, <1>7
  <2>2. \A b \in 1..EI : C[(p + 1) + b] = L!BitsOf(x, EI)[b]
    BY <1>8 DEF s
  <2> QED BY <1>1, <1>7, <2>1, <2>2, PartRead
<1>10. Val(C, p + 1 + EI, EJ) = y
  <2>1. p + 1 + EI \in Nat /\ (p + 1 + EI) + EJ <= Len(C)
    BY <1>1, <1>7
  <2>2. \A b \in 1..EJ : C[(p + 1 + EI) + b] = L!BitsOf(y, EJ)[b]
    BY <1>8 DEF u
  <2> QED BY <1>1, <1>7, <2>1, <2>2, PartRead
<1>11. TokenLen(C, p) = 1 + (EI + EJ) /\ 1 + (EI + EJ) = (1 + EI) + EJ /\ ~(C[p + 1] = 1)
  <2> DEFINE e == C[p + 1]
  <2>0. e = 0
    BY <1>8
  <2> HIDE DEF e
  <2>a. ~(e = 1)
    BY <2>0
  <2>1. ~(C[p + 1] = 1)
    BY <2>a, Zenon DEF e
  <2>2. TokenLen(C, p) = 1 + (EI + EJ)
    BY <2>1, Zenon DEF TokenLen
  <2>3. 1 + (EI + EJ) = (1 + EI) + EJ
    BY <1>1
  <2> QED BY <2>1, <2>2, <2>3
<1> QED BY <1>7, <1>9, <1>10, <1>11 DEF TokenOut, p

\* The bits decode to the text before R, and the window is that of R.
DecAt(text, B, R) ==
  /\ B \in Seq(Bits) /\ R \in Nat /\ Lead <= R /\ R <= Lead + Len(text)
  /\ \E n, T : /\ Tokens(B, n, T) /\ T[n].p = Len(B)
               /\ T[n].out = SubSeq(text, 1, R - Lead) /\ WinAt(text, T[n].w, R)

LEMMA DecStart ==
  ASSUME NEW text \in Seq(Bytes)
  PROVE  DecAt(text, <<>>, Lead)
<1> DEFINE T == [i \in 0..0 |-> Origin]
           none == <<>>
<1>1. none \in Seq(Bits) /\ Len(none) = 0
  OBVIOUS
<1> HIDE DEF none
<1>2. Tokens(none, 0, T)
  BY <1>1, TokensFirst
<1>3. T[0] = Origin
  OBVIOUS
<1> HIDE DEF T
<1>4. T[0].p = 0 /\ T[0].w = L!Window /\ T[0].out = <<>>
  BY <1>3, OriginTyped
<1>5. WinAt(text, T[0].w, Lead)
  BY <1>4, WindowStart
<1>6. Lead \in Nat /\ Lead <= Lead /\ Lead <= Lead + Len(text) /\ Lead - Lead = 0
  BY LeadBounds
<1>7. SubSeq(text, 1, Lead - Lead) = <<>>
  BY <1>6
<1>8. DecAt(text, none, Lead)
  BY <1>1, <1>2, <1>4, <1>5, <1>6, <1>7 DEF DecAt
<1> QED BY <1>8 DEF none

LEMMA BytesAreNat ==
  ASSUME NEW s \in Seq(Bytes)
  PROVE  s \in Seq(Nat)
<1> DEFINE n == Len(s)
<1>1. n \in Nat /\ s \in [1..n -> Bytes] /\ Bytes \subseteq Nat
  <2>1. Bytes \subseteq Nat
    BY ByteWidth
  <2>2. n \in Nat /\ s \in [1..n -> Bytes]
    OBVIOUS
  <2> QED BY <2>1, <2>2
<1> HIDE DEF n
<1>2. s \in [1..n -> Nat]
  BY <1>1
<1> QED BY <1>1, <1>2

LEMMA OutOn ==
  ASSUME NEW text \in Seq(Bytes), NEW R \in Nat, Lead <= R, NEW y \in Nat,
         R + y <= Lead + Len(text), NEW s, IsNext(text, R, y, s)
  PROVE  SubSeq(text, 1, R - Lead) \o s = SubSeq(text, 1, (R + y) - Lead)
<1> DEFINE m == R - Lead
           k == (R + y) - Lead
           u == SubSeq(text, 1, m)
           v == SubSeq(text, 1, k)
           c == u \o s
<1>0. Lead \in Nat /\ Len(text) \in Nat /\ Bytes \subseteq Nat
  BY LeadBounds, ByteWidth
<1>1. m \in 0..Len(text) /\ k \in 0..Len(text) /\ k = m + y /\ m \in Nat /\ R = m + Lead
  BY <1>0
<1> HIDE DEF m, k
<1>2. u \in Seq(Bytes) /\ Len(u) = m /\ \A i \in 1..m : u[i] = text[i]
  BY <1>1, Prefix
<1>3. v \in Seq(Bytes) /\ Len(v) = k /\ \A i \in 1..k : v[i] = text[i]
  BY <1>1, Prefix
<1>4. u \in Seq(Nat) /\ v \in Seq(Nat)
  BY <1>2, <1>3, BytesAreNat
<1>5. s \in Seq(Nat) /\ Len(s) = y /\ \A i \in 1..y : s[i] = Stream(text, (R + i) - 1)
  BY DEF IsNext
<1> HIDE DEF u, v
<1>6. /\ c \in Seq(Nat) /\ Len(c) = Len(u) + Len(s)
      /\ \A i \in 1..Len(u) : c[i] = u[i]
      /\ \A i \in 1..Len(s) : c[Len(u) + i] = s[i]
  BY <1>4, <1>5, Both
<1> HIDE DEF c
<1>7. ASSUME NEW i \in 1..k PROVE c[i] = v[i]
  <2>1. CASE i <= m
    <3>1. i \in 1..m
      BY <1>1, <2>1
    <3> QED BY <1>2, <1>3, <1>6, <3>1
  <2>2. CASE ~(i <= m)
    <3> DEFINE j == i - m
               h == (R + j) - 1
    <3>1. j \in 1..y /\ i = m + j
      BY <1>1, <2>2
    <3>2. ~(h < Lead) /\ (h - Lead) + 1 = i
      BY <1>0, <1>1
    <3> HIDE DEF j
    <3>3. s[j] = Stream(text, h)
      BY <1>5, <3>1
    <3> HIDE DEF h
    <3>4. s[j] = text[i]
      BY <3>2, <3>3 DEF Stream
    <3> QED BY <1>2, <1>3, <1>5, <1>6, <3>1, <3>4
  <2> QED BY <2>1, <2>2
<1>8. Len(c) = Len(v) /\ \A i \in 1..Len(c) : c[i] = v[i]
  BY <1>1, <1>2, <1>3, <1>5, <1>6, <1>7
<1>9. c = v
  BY <1>4, <1>6, <1>8, SameSequence
<1> QED BY <1>9 DEF c, u, v, m, k

\* The token at the end of C gives the next y bytes.
Adds(text, B, C, R, y) ==
  \A a \in Spot : a.p = Len(B) /\ WinAt(text, a.w, R) =>
    /\ C \in Seq(Bits) /\ Len(C) = a.p + TokenLen(C, a.p)
    /\ WinAt(text, TokenOut(C, a).w, R + y) /\ IsNext(text, R, y, TokenOut(C, a).out)

LEMMA TokenAdded ==
  ASSUME NEW text \in Seq(Bytes), NEW B, NEW R, DecAt(text, B, R), NEW t \in Seq(Bits), NEW y \in Nat,
         R + y <= Lead + Len(text), NEW C, Grown(C, B, t), Adds(text, B, C, R, y)
  PROVE  DecAt(text, C, R + y)
<1>1. /\ B \in Seq(Bits) /\ R \in Nat /\ Lead <= R
  BY DEF DecAt
<1>2. PICK n, T : /\ Tokens(B, n, T) /\ T[n].p = Len(B)
                  /\ T[n].out = SubSeq(text, 1, R - Lead) /\ WinAt(text, T[n].w, R)
  BY DEF DecAt
<1> DEFINE a == T[n]
           k == Len(B)
<1>3. n \in Nat /\ a \in Spot
  <2>1. n \in Nat
    BY <1>2 DEF Tokens
  <2>2. n \in 0..n
    BY <2>1
  <2> QED BY <1>2, <2>1, <2>2 DEF Tokens
<1>4. /\ C \in Seq(Bits) /\ Len(C) = a.p + TokenLen(C, a.p)
      /\ WinAt(text, TokenOut(C, a).w, R + y) /\ IsNext(text, R, y, TokenOut(C, a).out)
  <2> HIDE DEF a
  <2>1. a.p = Len(B) /\ WinAt(text, a.w, R)
    BY <1>2 DEF a
  <2> QED BY <1>3, <2>1 DEF Adds
<1>5. SubSeq(C, 1, k) = B /\ k \in 0..Len(C)
  BY <1>1, JoinFront DEF Grown
<1>6. Tokens(C, n, T)
  <2> HIDE DEF k
  <2> QED BY <1>2, <1>4, <1>5, TokensStay
<1>7. a.p + TokenLen(C, a.p) <= Len(C)
  BY <1>4
<1>8. PICK U : Tokens(C, n + 1, U) /\ U[n + 1] = After(C, a)
  <2>1. C \in Seq(Bits)
    BY <1>4
  <2>2. \E U : Tokens(C, n + 1, U) /\ U[n + 1] = After(C, T[n]) /\ \A i \in 0..n : U[i] = T[i]
    BY <1>6, <1>7, <2>1, TokensOn
  <2> QED BY <2>2, Zenon
<1> DEFINE e == U[n + 1]
           o == TokenOut(C, a)
<1>9. e.p = Len(C) /\ e.w = o.w /\ e.out = a.out \o o.out
  <2> DEFINE f == After(C, a)
  <2>1. f.p = a.p + TokenLen(C, a.p) /\ f.w = o.w /\ f.out = a.out \o o.out
    BY DEF After
  <2> HIDE DEF f, o, a
  <2>2. e = f
    BY <1>8 DEF f
  <2>3. Len(C) = a.p + TokenLen(C, a.p)
    BY <1>4
  <2> QED BY <2>1, <2>2, <2>3, Zenon
<1>10. a.out \o o.out = SubSeq(text, 1, (R + y) - Lead)
  <2> HIDE DEF o, a
  <2>1. a.out = SubSeq(text, 1, R - Lead)
    BY <1>2 DEF a
  <2>2. IsNext(text, R, y, o.out)
    BY <1>4 DEF o
  <2>3. SubSeq(text, 1, R - Lead) \o o.out = SubSeq(text, 1, (R + y) - Lead)
    BY <1>1, <2>2, OutOn
  <2> QED BY <2>1, <2>3
<1>11. WinAt(text, e.w, R + y)
  BY <1>4, <1>9
<1>12. R + y \in Nat /\ Lead <= R + y /\ n + 1 \in Nat
  BY <1>1, <1>3, LeadBounds
<1> HIDE DEF a, o
<1> QED BY <1>4, <1>8, <1>9, <1>10, <1>11, <1>12 DEF DecAt

LEMMA LiteralAdded ==
  ASSUME NEW text \in Seq(Bytes), NEW B, NEW R, DecAt(text, B, R), R < Lead + Len(text),
         NEW c, c = Stream(text, R), NEW C, Grown(C, B, LiteralBits(c))
  PROVE  DecAt(text, C, R + 1)
<1> DEFINE t == LiteralBits(c)
<1>1. B \in Seq(Bits) /\ R \in Nat /\ Lead \in Nat /\ Len(text) \in Nat
  BY LeadBounds DEF DecAt
<1>2. c \in Bytes /\ c \in Nat
  BY <1>1, StreamIsByte
<1>3. t \in Seq(Bits)
  <2> DEFINE s == L!BitsOf(c, BITS)
             one == <<1>>
  <2>1. one \in Seq(Bits) /\ s \in Seq(Bits)
    BY <1>2, ByteWidth, BitsAre DEF Bits
  <2> HIDE DEF s, one
  <2>2. one \o s \in Seq(Bits)
    BY <2>1, JoinBits
  <2> QED BY <2>2 DEF s, one, LiteralBits
<1> HIDE DEF t
<1>4. Grown(C, B, t)
  BY DEF t
<1>5. ASSUME NEW a \in Spot, a.p = Len(B), WinAt(text, a.w, R)
      PROVE  /\ C \in Seq(Bits) /\ Len(C) = a.p + TokenLen(C, a.p)
             /\ WinAt(text, TokenOut(C, a).w, R + 1) /\ IsNext(text, R, 1, TokenOut(C, a).out)
  <2>1. /\ C \in Seq(Bits) /\ Len(C) = a.p + TokenLen(C, a.p)
        /\ TokenOut(C, a) = L!CopyByte(a.w, c)
    BY <1>1, <1>2, <1>5, LiteralToken
  <2>2. TokenOut(C, a).w = L!PutByte(a.w, c) /\ TokenOut(C, a).out = <<c>>
    BY <2>1 DEF L!CopyByte
  <2>3. WinAt(text, L!PutByte(a.w, c), R + 1)
    BY <1>2, <1>5, WindowOn
  <2>4. IsNext(text, R, 1, <<c>>)
    <3>1. (R + 1) - 1 = R
      BY <1>1
    <3>2. \A i \in 1..1 : i = 1
      OBVIOUS
    <3>3. <<c>> \in Seq(Nat) /\ Len(<<c>>) = 1 /\ <<c>>[1] = c
      BY <1>2
    <3> QED BY <3>1, <3>2, <3>3 DEF IsNext
  <2> QED BY <2>1, <2>2, <2>3, <2>4
<1>6. Adds(text, B, C, R, 1)
  BY <1>5 DEF Adds
<1>7. DecAt(text, C, R + 1)
  <2>2. R + 1 <= Lead + Len(text) /\ 1 \in Nat
    BY <1>1
  <2> QED BY <1>3, <1>4, <1>6, <2>2, TokenAdded
<1> QED BY <1>7

LEMMA MatchAdded ==
  ASSUME NEW text \in Seq(Bytes), NEW B, NEW R, DecAt(text, B, R), NEW j, NEW y,
         Repeats(text, j, R, y), R + y <= Lead + Len(text), y >= 2, y <= L!F,
         NEW C, Grown(C, B, MatchBits(j % L!N, y - 2))
  PROVE  DecAt(text, C, R + y)
<1> DEFINE t == MatchBits(j % L!N, y - 2)
           x == j % L!N
           z == y - 2
<1>1. B \in Seq(Bits) /\ R \in Nat /\ Lead \in Nat /\ Len(text) \in Nat
  BY LeadBounds DEF DecAt
<1>2. j \in Nat /\ y \in Nat
  BY DEF Repeats
<1>3. x \in Nat /\ x < L!N
  <2> DEFINE n == L!N
  <2>1. n \in Nat \ {0}
    BY LeadBounds
  <2> HIDE DEF n
  <2>2. j % n \in 0..(n - 1)
    BY <1>2, <2>1, Division
  <2>3. j % n \in Nat /\ j % n < n
    BY <2>1, <2>2
  <2> QED BY <2>3 DEF n
<1>4. z \in Nat /\ z < Pow(EJ) /\ z + 2 = y
  <2>1. EJ \in Widths /\ L!F = Pow(EJ) + 1
    BY Powers, Sizes DEF Widths
  <2>2. Pow(EJ) \in Nat
    BY <2>1, Powers
  <2> QED BY <1>2, <2>1, <2>2
<1>5. t = MatchBits(x, z)
  OBVIOUS
<1> HIDE DEF x, z, t
<1>6. t \in Seq(Bits)
  <2> DEFINE s == L!BitsOf(x, EI)
             u == L!BitsOf(z, EJ)
             nil == <<0>>
             v == nil \o s
  <2>1. EI \in Widths /\ EJ \in Widths
    BY Powers DEF Widths
  <2>2. nil \in Seq(Bits) /\ s \in Seq(Bits) /\ u \in Seq(Bits)
    <3>1. s \in Seq(Bits)
      BY <1>3, <2>1, BitsAre
    <3>2. u \in Seq(Bits)
      BY <1>4, <2>1, BitsAre
    <3>3. nil \in Seq(Bits)
      BY DEF Bits
    <3> QED BY <3>1, <3>2, <3>3
  <2>3. t = v \o u
    BY <1>5 DEF MatchBits
  <2> HIDE DEF s, u, nil
  <2>4. v \in Seq(Bits)
    BY <2>2, JoinBits
  <2> HIDE DEF v
  <2>5. v \o u \in Seq(Bits)
    BY <2>2, <2>4, JoinBits
  <2> QED BY <2>3, <2>5
<1>7. Grown(C, B, MatchBits(x, z)) /\ Grown(C, B, t)
  BY <1>5 DEF t
<1>8. ASSUME NEW a \in Spot, a.p = Len(B), WinAt(text, a.w, R)
      PROVE  /\ C \in Seq(Bits) /\ Len(C) = a.p + TokenLen(C, a.p)
             /\ WinAt(text, TokenOut(C, a).w, R + y) /\ IsNext(text, R, y, TokenOut(C, a).out)
  <2>1. /\ C \in Seq(Bits) /\ Len(C) = a.p + TokenLen(C, a.p)
        /\ TokenOut(C, a) = L!CopyMatch(a.w, x, z + 2)
    <3>1. x \in Nat /\ x < L!N /\ z \in Nat /\ z < Pow(EJ)
      BY <1>3, <1>4
    <3>2. B \in Seq(Bits)
      BY <1>1
    <3> QED BY <1>7, <1>8, <3>1, <3>2, MatchToken
  <2>2. TokenOut(C, a) = L!CopyMatch(a.w, j % L!N, y)
    BY <1>4, <2>1 DEF x
  <2>3. /\ WinAt(text, L!CopyMatch(a.w, j % L!N, y).w, R + y)
        /\ IsNext(text, R, y, L!CopyMatch(a.w, j % L!N, y).out)
    BY <1>8, MatchCopied
  <2> QED BY <2>1, <2>2, <2>3
<1>9. Adds(text, B, C, R, y)
  BY <1>8 DEF Adds
<1>10. DecAt(text, C, R + y)
  BY <1>2, <1>6, <1>7, <1>9, TokenAdded
<1> QED BY <1>10

----------------------------------------------------------------------------
(* The buffer of the encoder: a part of the stream, from g on.             *)

IsEnc(e) == e = [buffer |-> e.buffer, bufferend |-> e.bufferend, r |-> e.r, s |-> e.s,
                 input |-> e.input, bits |-> e.bits]

Room == 2 * L!N

Held(text, buffer, end, g) ==
  /\ buffer \in [0..(Room - 1) -> Nat]
  /\ \A j \in Nat : j < end => buffer[j] = Stream(text, j + g)

Left(text, input, end, g) ==
  /\ input \in Seq(Bytes) /\ (end + g) + Len(input) = Lead + Len(text)
  /\ \A i \in 1..Len(input) : input[i] = Stream(text, ((end + g) + i) - 1)

BufAt(text, e, g) ==
  /\ IsEnc(e) /\ g \in Nat /\ g % L!N = 0
  /\ e.r \in Nat /\ e.bufferend \in Nat /\ e.s = e.r - Lead
  /\ Lead <= e.r /\ e.r <= e.bufferend /\ e.bufferend <= Room
  /\ Held(text, e.buffer, e.bufferend, g) /\ Left(text, e.input, e.bufferend, g)

\* Nothing is left, or the buffer is full.
Full(e) == Len(e.input) = 0 \/ e.bufferend = Room

LEMMA RoomBounds == Room \in Nat /\ Room = L!N + L!N /\ Lead + L!F = L!N /\ L!N \in Nat \ {0}
                    /\ L!F \in Nat /\ Lead \in Nat \ {0} /\ L!F >= 2 /\ Lead < Room - L!F
<1> DEFINE n == L!N
           f == L!F
<1>1. n \in Nat \ {0} /\ f \in Nat /\ Lead \in Nat \ {0} /\ Lead + f = n /\ f >= 2 /\ Room = 2 * n
  BY LeadBounds DEF Room
<1> HIDE DEF n, f
<1>2. Room \in Nat /\ Room = n + n /\ Lead < Room - f
  BY <1>1
<1> QED BY <1>1, <1>2 DEF n, f

\* What Fill puts behind end.
IsFilled(b, buffer, end, k, input) ==
  b = [i \in DOMAIN buffer |-> IF i \in end..(end + k - 1) THEN input[i - end + 1] ELSE buffer[i]]

Fills(text, buffer, end, g, input, k, b) ==
  /\ end \in Nat /\ g \in Nat /\ Held(text, buffer, end, g) /\ Left(text, input, end, g)
  /\ k \in Nat /\ k <= Len(input) /\ end + k <= Room
  /\ IsFilled(b, buffer, end, k, input)

WellFilled(text, end, g, input, k, b) ==
  LET t == SubSeq(input, k + 1, Len(input))
  IN  Held(text, b, end + k, g) /\ Left(text, t, end + k, g) /\ Len(t) = Len(input) - k

LEMMA FilledOn ==
  ASSUME NEW text, NEW buffer, NEW end, NEW g, NEW input, NEW k, NEW b,
         Fills(text, buffer, end, g, input, k, b)
  PROVE  WellFilled(text, end, g, input, k, b)
<1> DEFINE D == 0..(Room - 1)
           t == SubSeq(input, k + 1, Len(input))
           m == Len(input)
           s == end + g
<1>0. /\ end \in Nat /\ g \in Nat /\ Held(text, buffer, end, g) /\ Left(text, input, end, g)
      /\ k \in Nat /\ k <= Len(input) /\ end + k <= Room
      /\ IsFilled(b, buffer, end, k, input)
  BY DEF Fills
<1>1. buffer \in [D -> Nat] /\ \A j \in Nat : j < end => buffer[j] = Stream(text, j + g)
  BY <1>0 DEF Held
<1>2. /\ input \in Seq(Bytes) /\ s + m = Lead + Len(text) /\ m \in Nat
      /\ \A i \in 1..m : input[i] = Stream(text, (s + i) - 1)
  BY <1>0 DEF Left
<1>3. Room \in Nat /\ Bytes \subseteq Nat /\ s \in Nat
  BY <1>0, RoomBounds, ByteWidth
<1>4. b = [i \in D |-> IF i \in end..(end + k - 1) THEN input[i - end + 1] ELSE buffer[i]]
  BY <1>0, <1>1 DEF IsFilled
<1> HIDE DEF D, m, s
<1>5. ASSUME NEW j \in Nat, j < end + k PROVE b[j] = Stream(text, j + g)
  <2>1. j \in D
    BY <1>0, <1>3, <1>5 DEF D
  <2>2. CASE j < end
    <3>1. ~(j \in end..(end + k - 1))
      BY <1>0, <2>2
    <3>2. b[j] = buffer[j]
      BY <1>4, <2>1, <3>1
    <3> QED BY <1>1, <2>2, <3>2
  <2>3. CASE ~(j < end)
    <3> DEFINE i == (j - end) + 1
    <3>1. j \in end..(end + k - 1) /\ j - end + 1 = i
      BY <1>0, <1>5, <2>3
    <3>2. b[j] = input[i]
      BY <1>4, <2>1, <3>1
    <3>3. i \in 1..m /\ (s + i) - 1 = j + g
      BY <1>0, <1>2, <1>5, <2>3 DEF s, m
    <3> HIDE DEF i
    <3>4. input[i] = Stream(text, (s + i) - 1)
      BY <1>2, <3>3
    <3> QED BY <3>2, <3>3, <3>4
  <2> QED BY <2>2, <2>3
<1>6. b \in [D -> Nat]
  <2>1. ASSUME NEW i \in D PROVE b[i] \in Nat
    <3>1. CASE i \in end..(end + k - 1)
      <4> DEFINE h == i - end + 1
      <4>1. h \in 1..m /\ b[i] = input[h]
        BY <1>0, <1>2, <1>4, <3>1 DEF m
      <4> HIDE DEF h
      <4>2. input[h] \in Bytes
        BY <1>2, <4>1 DEF m
      <4> QED BY <1>3, <4>1, <4>2
    <3>2. CASE i \notin end..(end + k - 1)
      BY <1>1, <1>4, <3>2
    <3> QED BY <3>1, <3>2
  <2> QED BY <1>4, <2>1
<1>7. Held(text, b, end + k, g)
  BY <1>5, <1>6 DEF Held, D
<1>8. t \in Seq(Bytes) /\ Len(t) = m - k /\ \A i \in 1..(m - k) : t[i] = input[k + i]
  <2> DEFINE n == m - k
  <2>1. n \in Nat /\ k + n = Len(input) /\ k + n <= Len(input)
    BY <1>0, <1>2 DEF m
  <2>2. t = SubSeq(input, k + 1, k + n)
    BY <2>1
  <2> HIDE DEF n, t
  <2>3. t \in Seq(Bytes) /\ Len(t) = n /\ \A i \in 1..n : t[i] = input[k + i]
    BY <1>0, <1>2, <2>1, <2>2, Cut
  <2> QED BY <2>3 DEF n
<1> HIDE DEF t
<1>9. Left(text, t, end + k, g)
  <2> DEFINE v == (end + k) + g
  <2>1. v = s + k /\ v \in Nat
    BY <1>0, <1>3 DEF s
  <2>2. v + Len(t) = Lead + Len(text)
    <3>1. Len(t) \in Nat /\ Len(t) = m - k
      BY <1>0, <1>2, <1>8 DEF m
    <3>2. v + Len(t) = s + m
      BY <1>0, <1>2, <1>3, <2>1, <3>1
    <3> QED BY <1>2, <3>2
  <2> HIDE DEF v
  <2>3. ASSUME NEW i \in 1..Len(t) PROVE t[i] = Stream(text, (v + i) - 1)
    <3>1. i \in 1..(m - k) /\ k + i \in 1..m /\ (s + (k + i)) - 1 = (v + i) - 1
      BY <1>0, <1>2, <1>3, <1>8, <2>1
    <3>2. input[k + i] = Stream(text, (s + (k + i)) - 1)
      BY <1>2, <3>1
    <3> QED BY <1>8, <3>1, <3>2
  <2> QED BY <1>8, <2>2, <2>3 DEF Left, v
<1> QED BY <1>7, <1>8, <1>9 DEF t, m, WellFilled

LEMMA FillOn ==
  ASSUME NEW text, NEW e, NEW g, BufAt(text, e, g)
  PROVE  /\ BufAt(text, L!Fill(e), g) /\ Full(L!Fill(e))
         /\ L!Fill(e).r = e.r /\ L!Fill(e).bits = e.bits
<1> DEFINE room == Room - e.bufferend
           n == Len(e.input)
           k == IF n <= room THEN n ELSE room
           b == [i \in DOMAIN e.buffer |-> IF i \in e.bufferend..(e.bufferend + k - 1)
                                           THEN e.input[i - e.bufferend + 1] ELSE e.buffer[i]]
           t == SubSeq(e.input, k + 1, Len(e.input))
           q == L!Fill(e)
           end == e.bufferend
<1>1. q = [e EXCEPT !.buffer = b, !.bufferend = @ + k, !.input = t]
  BY DEF L!Fill, Room
<1>2. /\ IsEnc(e) /\ g \in Nat /\ g % L!N = 0
      /\ e.r \in Nat /\ end \in Nat /\ e.s = e.r - Lead
      /\ Lead <= e.r /\ e.r <= end /\ end <= Room
      /\ Held(text, e.buffer, end, g) /\ Left(text, e.input, end, g)
  BY DEF BufAt
<1>3. n \in Nat /\ Room \in Nat
  BY <1>2, RoomBounds DEF Left
<1>4. k \in Nat /\ k <= n /\ end + k <= Room /\ (k = n \/ end + k = Room)
  <2> HIDE DEF n, end
  <2>1. room = Room - end
    BY DEF end
  <2> HIDE DEF room
  <2> QED BY <1>2, <1>3, <2>1
<1> HIDE DEF k, q
<1>5. Held(text, b, end + k, g) /\ Left(text, t, end + k, g) /\ Len(t) = n - k
  <2> DEFINE u == e.input
             c == e.buffer
  <2>1. IsFilled(b, c, end, k, u)
    BY DEF IsFilled
  <2>2. Held(text, c, end, g) /\ Left(text, u, end, g) /\ end \in Nat /\ g \in Nat
    BY <1>2
  <2>3. k \in Nat /\ k <= Len(u) /\ end + k <= Room
    BY <1>4
  <2> HIDE DEF b, end, u, c
  <2>4. WellFilled(text, end, g, u, k, b)
    <3>1. Fills(text, c, end, g, u, k, b)
      BY <2>1, <2>2, <2>3 DEF Fills
    <3> QED BY <3>1, FilledOn
  <2> QED BY <2>4, Zenon DEF u, WellFilled, t, n
<1> HIDE DEF b, t
<1>6. e = [buffer |-> e.buffer, bufferend |-> end, r |-> e.r, s |-> e.s, input |-> e.input, bits |-> e.bits]
  BY <1>2 DEF IsEnc
<1>7. q = [buffer |-> b, bufferend |-> end + k, r |-> e.r, s |-> e.s, input |-> t, bits |-> e.bits]
  BY <1>1, <1>6
<1>8. /\ IsEnc(q) /\ q.buffer = b /\ q.bufferend = end + k /\ q.r = e.r /\ q.s = e.s
      /\ q.input = t /\ q.bits = e.bits
  BY <1>7 DEF IsEnc
<1> HIDE DEF end, n
<1>9. end + k \in Nat /\ e.r <= end + k
  BY <1>2, <1>4
<1>10. BufAt(text, q, g)
  BY <1>2, <1>4, <1>5, <1>8, <1>9 DEF BufAt
<1>11. Full(q)
  <2>1. Len(t) = 0 \/ end + k = Room
    BY <1>3, <1>4, <1>5
  <2> QED BY <1>8, <2>1 DEF Full
<1> QED BY <1>8, <1>10, <1>11 DEF q

\* The upper half of the buffer becomes the lower one.
IsShifted(e, q) ==
  q = [e EXCEPT !.buffer = [i \in DOMAIN @ |-> IF i < L!N THEN @[i + L!N] ELSE @[i]],
                !.bufferend = @ - L!N, !.r = @ - L!N, !.s = @ - L!N]

LEMMA ShiftOn ==
  ASSUME NEW text, NEW e, NEW g, BufAt(text, e, g), Room <= e.r + L!F, e.r < Room, NEW q,
         IsShifted(e, q)
  PROVE  BufAt(text, q, g + L!N) /\ q.r + (g + L!N) = e.r + g /\ q.r < L!N /\ q.bits = e.bits
<1> DEFINE n == L!N
           b == [i \in DOMAIN e.buffer |-> IF i < n THEN e.buffer[i + n] ELSE e.buffer[i]]
           end == e.bufferend
           r == e.r
<1>1. q = [e EXCEPT !.buffer = b, !.bufferend = @ - n, !.r = @ - n, !.s = @ - n]
  BY DEF IsShifted
<1>2. /\ IsEnc(e) /\ g \in Nat /\ g % n = 0
      /\ r \in Nat /\ end \in Nat /\ e.s = r - Lead
      /\ Lead <= r /\ r <= end /\ end <= Room
      /\ Held(text, e.buffer, end, g) /\ Left(text, e.input, end, g)
  BY DEF BufAt
<1>3. n \in Nat \ {0} /\ Room = n + n /\ Lead \in Nat /\ L!F \in Nat /\ Lead + L!F = n /\ Room \in Nat
  BY RoomBounds
<1>4. e = [buffer |-> e.buffer, bufferend |-> end, r |-> r, s |-> e.s, input |-> e.input, bits |-> e.bits]
  BY <1>2 DEF IsEnc
<1> HIDE DEF b, n
<1>5. q = [buffer |-> b, bufferend |-> end - n, r |-> r - n, s |-> e.s - n, input |-> e.input,
           bits |-> e.bits]
  BY <1>1, <1>4
<1> HIDE DEF end, r
<1>6. /\ IsEnc(q) /\ q.buffer = b /\ q.bufferend = end - n /\ q.r = r - n /\ q.s = e.s - n
      /\ q.input = e.input /\ q.bits = e.bits
  BY <1>5 DEF IsEnc
<1>7. Room <= r + L!F
  BY DEF r
<1>8. /\ r - n \in Nat /\ end - n \in Nat /\ Lead <= r - n /\ r - n <= end - n /\ end - n <= Room
      /\ end - n <= n /\ g + n \in Nat /\ (end - n) + (g + n) = end + g
      /\ (r - n) + (g + n) = r + g
  BY <1>2, <1>3, <1>7
<1>9. (g + n) % n = 0
  BY <1>2, <1>3, RemainderShift
<1>10. e.s - n = (r - n) - Lead
  <2>1. e.s = r - Lead
    BY <1>2
  <2> DEFINE s == e.s
  <2>2. s = r - Lead
    BY <2>1
  <2> HIDE DEF s
  <2>3. s - n = (r - n) - Lead
    BY <1>2, <1>3, <2>2
  <2> QED BY <2>3 DEF s
<1>11. Held(text, b, end - n, g + n)
  <2> DEFINE D == 0..(Room - 1)
             c == e.buffer
  <2>1. c \in [D -> Nat] /\ \A j \in Nat : j < end => c[j] = Stream(text, j + g)
    BY <1>2 DEF Held
  <2>2. b = [i \in D |-> IF i < n THEN c[i + n] ELSE c[i]]
    BY <2>1 DEF b
  <2> HIDE DEF c
  <2>3. \A i \in D : i \in Nat /\ (i < n => i + n \in D)
    BY <1>3
  <2>4. \A j \in Nat : j < end - n => j \in D /\ j < n /\ j + n \in Nat /\ j + n < end
                                      /\ (j + n) + g = j + (g + n)
    BY <1>2, <1>3, <1>8
  <2> HIDE DEF D
  <2>5. b \in [D -> Nat]
    BY <2>1, <2>2, <2>3
  <2>6. ASSUME NEW j \in Nat, j < end - n PROVE b[j] = Stream(text, j + (g + n))
    <3>1. b[j] = c[j + n]
      BY <2>2, <2>4, <2>6
    <3>2. c[j + n] = Stream(text, (j + n) + g)
      BY <2>1, <2>4, <2>6
    <3> QED BY <2>4, <2>6, <3>1, <3>2
  <2> QED BY <2>5, <2>6 DEF Held, D
<1>12. Left(text, e.input, end - n, g + n)
  <2> DEFINE x == end + g
             y == (end - n) + (g + n)
  <2>1. x = y
    BY <1>8
  <2>2. /\ e.input \in Seq(Bytes) /\ x + Len(e.input) = Lead + Len(text)
        /\ \A i \in 1..Len(e.input) : e.input[i] = Stream(text, (x + i) - 1)
    BY <1>2 DEF Left
  <2> HIDE DEF x, y
  <2>3. /\ e.input \in Seq(Bytes) /\ y + Len(e.input) = Lead + Len(text)
        /\ \A i \in 1..Len(e.input) : e.input[i] = Stream(text, (y + i) - 1)
    BY <2>1, <2>2, Zenon
  <2> QED BY <2>3 DEF Left, y
<1>13. BufAt(text, q, g + n)
  BY <1>6, <1>8, <1>9, <1>10, <1>11, <1>12 DEF BufAt, n
<1>14. q.r + (g + n) = r + g
  BY <1>6, <1>8
<1>15. q.r < n
  <2>1. r < Room
    BY DEF r
  <2> QED BY <1>2, <1>3, <1>6, <2>1
<1> QED BY <1>6, <1>13, <1>14, <1>15 DEF n, r

\* An encoder at the beginning of a turn of its loop.
Ready(text, e, g) == BufAt(text, e, g) /\ Full(e) /\ e.r < Room - L!F

LEMMA SlideOn ==
  ASSUME NEW text, NEW e, NEW g, BufAt(text, e, g), Full(e), e.r < Room
  PROVE  \E h : Ready(text, L!Slide(e), h) /\ L!Slide(e).r + h = e.r + g /\ L!Slide(e).bits = e.bits
<1> DEFINE n == L!N
           f == L!F
           q == L!Slide(e)
           r == e.r
<1>0. n \in Nat \ {0} /\ Room = n + n /\ f \in Nat /\ Lead + f = n /\ Room \in Nat /\ r \in Nat
      /\ Lead \in Nat \ {0} /\ Room = 2 * n
  BY RoomBounds DEF BufAt, Room
<1>1. CASE r < 2 * n - f
  <2>1. q = e
    BY <1>1 DEF L!Slide
  <2> HIDE DEF n, f
  <2>2. e.r < Room - f
    BY <1>0, <1>1
  <2>3. Ready(text, e, g)
    BY <2>2 DEF Ready, f
  <2> QED BY <2>1, <2>3
<1>2. CASE ~(r < 2 * n - f)
  <2> DEFINE c == [e EXCEPT !.buffer = [i \in DOMAIN @ |-> IF i < L!N THEN @[i + L!N] ELSE @[i]],
                            !.bufferend = @ - L!N, !.r = @ - L!N, !.s = @ - L!N]
  <2>1. q = L!Fill(c)
    BY <1>2 DEF L!Slide
  <2>2. Room <= e.r + L!F
    <3> HIDE DEF n
    <3> QED BY <1>0, <1>2
  <2>3. BufAt(text, c, g + n) /\ c.r + (g + n) = r + g /\ c.bits = e.bits /\ c.r < n
    <3>1. IsShifted(e, c)
      BY DEF IsShifted
    <3> HIDE DEF c
    <3> QED BY <2>2, <3>1, ShiftOn
  <2> HIDE DEF c, q
  <2>4. BufAt(text, q, g + n) /\ Full(q) /\ q.r = c.r /\ q.bits = c.bits
    BY <2>1, <2>3, FillOn
  <2>5. q.r < Room - f
    <3>1. c.r \in Nat
      BY <2>3 DEF BufAt
    <3> HIDE DEF n, f
    <3>2. n <= Room - f
      BY <1>0
    <3> QED BY <1>0, <2>3, <2>4, <3>1, <3>2
  <2>6. Ready(text, q, g + n)
    BY <2>4, <2>5 DEF Ready
  <2> HIDE DEF n
  <2> QED BY <2>3, <2>4, <2>6 DEF q
<1> QED BY <1>1, <1>2

LEMMA EncStart ==
  ASSUME NEW text \in Seq(Bytes)
  PROVE  /\ Ready(text, L!EncodeStart(text), 0) /\ L!EncodeStart(text).r = Lead
         /\ L!EncodeStart(text).bits = <<>>
<1> DEFINE b == [i \in 0..(2 * L!N - 1) |-> IF i < L!N - L!F THEN SPACE ELSE 0]
           e == [buffer |-> b, bufferend |-> L!N - L!F, r |-> L!N - L!F, s |-> 0, input |-> text,
                 bits |-> <<>>]
           q == L!EncodeStart(text)
<1>1. q = L!Fill(e)
  BY DEF L!EncodeStart
<1>2. Lead \in Nat \ {0} /\ Room \in Nat /\ SPACE \in Nat /\ Len(text) \in Nat /\ Lead <= Room
      /\ Lead < Room - L!F
  <2>1. SPACE \in Nat
    BY Sizes, ByteWidth
  <2>2. Lead \in Nat \ {0} /\ Room \in Nat /\ Lead < Room - L!F /\ L!F \in Nat
    BY RoomBounds
  <2> QED BY <2>1, <2>2
<1>3. b = [i \in 0..(Room - 1) |-> IF i < Lead THEN SPACE ELSE 0]
  BY DEF Room, Lead
<1>4. /\ IsEnc(e) /\ e.buffer = b /\ e.bufferend = Lead /\ e.r = Lead /\ e.s = 0
      /\ e.input = text /\ e.bits = <<>>
  BY DEF IsEnc, Lead
<1> HIDE DEF e, q, b
<1>5. Held(text, b, Lead, 0)
  <2>1. b \in [0..(Room - 1) -> Nat]
    BY <1>2, <1>3
  <2>2. ASSUME NEW j \in Nat, j < Lead PROVE b[j] = Stream(text, j + 0)
    <3>1. j \in 0..(Room - 1) /\ j + 0 = j
      BY <1>2, <2>2
    <3>2. b[j] = SPACE
      BY <1>3, <2>2, <3>1
    <3> QED BY <2>2, <3>1, <3>2 DEF Stream
  <2> QED BY <2>1, <2>2 DEF Held
<1>6. Left(text, text, Lead, 0)
  <2>1. (Lead + 0) + Len(text) = Lead + Len(text)
    BY <1>2
  <2>2. ASSUME NEW i \in 1..Len(text) PROVE text[i] = Stream(text, ((Lead + 0) + i) - 1)
    <3> DEFINE j == ((Lead + 0) + i) - 1
    <3>1. ~(j < Lead) /\ (j - Lead) + 1 = i
      BY <1>2
    <3> HIDE DEF j
    <3>2. Stream(text, j) = text[i]
      BY <3>1 DEF Stream
    <3> QED BY <3>2 DEF j
  <2> QED BY <2>1, <2>2 DEF Left
<1>7. 0 % L!N = 0
  <2> DEFINE n == L!N
  <2>1. n \in Nat \ {0}
    BY RoomBounds
  <2> HIDE DEF n
  <2>2. 0 % n = 0
    BY <2>1
  <2> QED BY <2>2 DEF n
<1>8. BufAt(text, e, 0)
  <2>1. Lead - Lead = 0 /\ Lead <= Lead /\ 0 \in Nat
    BY <1>2
  <2> QED BY <1>2, <1>4, <1>5, <1>6, <1>7, <2>1 DEF BufAt
<1>9. BufAt(text, q, 0) /\ Full(q) /\ q.r = e.r /\ q.bits = e.bits
  BY <1>1, <1>8, FillOn
<1>10. Ready(text, q, 0) /\ q.r = Lead /\ q.bits = <<>>
  BY <1>2, <1>4, <1>9 DEF Ready
<1> QED BY <1>10 DEF q

----------------------------------------------------------------------------
(* The longest match.                                                      *)

LEMMA GreatestElement ==
  ASSUME NEW n \in Nat, NEW T, T \subseteq 0..n, T # {}
  PROVE  \E x \in T : \A y \in T : y <= x
<1> DEFINE U == {z \in 0..n : n - z \in T}
<1>1. PICK t \in T : t \in 0..n
  OBVIOUS
<1>2. n - t \in U
  <2>1. n - t \in 0..n /\ n - (n - t) = t
    BY <1>1
  <2> QED BY <1>1, <2>1
<1>3. U \subseteq Nat
  OBVIOUS
<1>4. PICK z \in U : \A y \in U : z <= y
  <2> HIDE DEF U
  <2> QED BY <1>2, <1>3, LeastElement
<1>5. n - z \in T /\ z \in 0..n
  BY <1>4
<1>6. ASSUME NEW y \in T PROVE y <= n - z
  <2>1. y \in 0..n
    OBVIOUS
  <2>2. n - y \in 0..n /\ n - (n - y) = y
    BY <2>1
  <2>3. n - y \in U
    BY <2>2
  <2>4. z <= n - y
    BY <1>4, <2>3
  <2> QED BY <1>5, <2>1, <2>4
<1> QED BY <1>5, <1>6

\* How far two places of the buffer agree.
LEMMA AgreesTo ==
  ASSUME NEW e, NEW i, NEW f \in Nat \ {0}
  PROVE  /\ L!Agrees(e, i, f) \in 1..f
         /\ \A k \in 1..(L!Agrees(e, i, f) - 1) : e.buffer[i + k] = e.buffer[e.r + k]
<1> DEFINE same(k) == e.buffer[i + k] = e.buffer[e.r + k]
           ends(j) == /\ \A k \in 1..(j - 1) : e.buffer[i + k] = e.buffer[e.r + k]
                      /\ j < f => e.buffer[i + j] # e.buffer[e.r + j]
           T == {j \in 1..f : j = f \/ ~same(j)}
<1>1. f \in T /\ T \subseteq Nat
  OBVIOUS
<1>2. PICK j \in T : \A y \in T : j <= y
  <2> HIDE DEF T
  <2> QED BY <1>1, LeastElement
<1>3. j \in 1..f /\ ends(j)
  <2>1. j \in 1..f /\ (j = f \/ ~same(j))
    BY <1>2
  <2>2. ASSUME NEW k \in 1..(j - 1) PROVE same(k)
    <3>1. k \in 1..f /\ ~(j <= k)
      BY <2>1
    <3>2. k \notin T
      <4> HIDE DEF T
      <4> QED BY <1>2, <3>1
    <3> QED BY <3>1, <3>2
  <2> QED BY <2>1, <2>2
<1>4. L!Agrees(e, i, f) = CHOOSE x \in 1..f : ends(x)
  BY DEF L!Agrees
<1> HIDE DEF ends
<1>5. L!Agrees(e, i, f) \in 1..f /\ ends(L!Agrees(e, i, f))
  BY <1>3, <1>4
<1> QED BY <1>5 DEF ends

\* Of several places the one that agrees longest, and the nearest of those.
LEMMA BestStart ==
  ASSUME NEW e, NEW f \in Nat \ {0}, NEW n \in Nat, NEW T, T \subseteq 0..n, T # {}
  PROVE  \E i \in T : \A k \in T : /\ ~(L!Agrees(e, i, f) < L!Agrees(e, k, f))
                                   /\ (k > i => L!Agrees(e, k, f) < L!Agrees(e, i, f))
<1> DEFINE A(i) == L!Agrees(e, i, f)
           U == {a \in 1..f : \E i \in T : A(i) = a}
<1>1. \A i \in T : A(i) \in 1..f
  BY AgreesTo
<1> HIDE DEF A
<1>2. U # {} /\ U \subseteq 0..f
  <2>1. PICK i \in T : TRUE
    OBVIOUS
  <2>2. A(i) \in U
    BY <1>1
  <2>3. \A a \in 1..f : a \in 0..f
    OBVIOUS
  <2> QED BY <2>2, <2>3
<1>3. PICK a \in U : \A b \in U : b <= a
  <2> HIDE DEF U
  <2> QED BY <1>2, GreatestElement
<1>4. a \in 1..f /\ \E i \in T : A(i) = a
  BY <1>3
<1>5. ASSUME NEW k \in T PROVE A(k) <= a
  <2>1. A(k) \in U
    BY <1>1
  <2> HIDE DEF U
  <2> QED BY <1>3, <2>1
<1> DEFINE V == {i \in T : A(i) = a}
<1>6. V # {} /\ V \subseteq 0..n
  BY <1>4
<1>7. PICK i \in V : \A k \in V : k <= i
  <2> HIDE DEF V
  <2> QED BY <1>6, GreatestElement
<1>8. ASSUME NEW k \in T
      PROVE  ~(A(i) < A(k)) /\ (k > i => A(k) < A(i))
  <2>1. A(i) = a /\ i \in 0..n /\ k \in 0..n /\ A(k) \in 1..f /\ A(k) <= a
    BY <1>1, <1>5, <1>6, <1>7
  <2>2. ASSUME k > i PROVE A(k) # a
    <3>1. ~(k <= i)
      BY <2>1, <2>2
    <3>2. k \notin V
      <4> HIDE DEF V
      <4> QED BY <1>7, <3>1
    <3> QED BY <3>2
  <2> QED BY <1>4, <2>1, <2>2
<1>9. i \in T
  BY <1>7
<1> QED BY <1>8, <1>9 DEF A

LEMMA SignedByte ==
  ASSUME NEW b \in Bytes
  PROVE  /\ L!SChar(b) \in Nat => L!SChar(b) = b
         /\ L!SChar(b) % Pow(BITS) = b
<1> DEFINE n == Pow(BITS)
<1>1. n \in Nat \ {0} /\ b \in 0..(n - 1)
  BY ByteWidth, Powers
<1>2. L!SChar(b) = b \/ L!SChar(b) = b - n
  BY DEF L!SChar, Pow
<1> HIDE DEF n
<1>3. b % n = b
  BY <1>1
<1>4. (b - n) % n = b
  <2> DEFINE x == b - n
             q == x \div n
             s == x % n
  <2>1. x \in Int /\ n \in Nat /\ n > 0
    BY <1>1
  <2>2. q \in Int /\ s \in 0..(n - 1) /\ n * q + s = x
    <3> HIDE DEF x
    <3> QED BY <2>1
  <2> HIDE DEF q, s, x
  <2>3. b = n * q + n + s
    <3>1. x = b - n
      BY DEF x
    <3> DEFINE y == n * q
    <3>2. y \in Int /\ y + s = x
      BY <2>1, <2>2
    <3> HIDE DEF y
    <3>3. b = y + n + s
      BY <1>1, <2>2, <3>1, <3>2
    <3> QED BY <3>3 DEF y
  <2>4. q = -1
    <3>1. CASE q <= -2
      <4> DEFINE h == -2 - q
      <4>1. h \in Nat /\ q = -2 - h
        BY <2>2, <3>1
      <4> HIDE DEF h
      <4>2. n * q = -(n + n) - n * h /\ n * h \in Nat
        BY <2>1, <4>1
      <4> QED BY <1>1, <2>2, <2>3, <4>2
    <3>2. CASE q >= 0
      <4>1. n * q \in Nat
        BY <2>1, <2>2, <3>2
      <4> QED BY <1>1, <2>2, <2>3, <4>1
    <3> QED BY <2>2, <3>1, <3>2
  <2>5. s = b
    <3>1. n * (-1) = -n
      BY <2>1
    <3> QED BY <1>1, <2>2, <2>3, <2>4, <3>1
  <2> QED BY <2>5 DEF s, x
<1>5. ~(b - n \in Nat)
  BY <1>1
<1> QED BY <1>2, <1>3, <1>4, <1>5 DEF n

Matched(text, e, g, m) ==
  /\ m.y \in Nat /\ m.y >= 1 /\ m.y <= L!F /\ e.r + m.y <= e.bufferend
  /\ m.y >= 2 => m.x \in Nat /\ Repeats(text, m.x + g, e.r + g, m.y)

LEMMA MatchFound ==
  ASSUME NEW text \in Seq(Bytes), NEW e, NEW g, Ready(text, e, g), e.r < e.bufferend
  PROVE  Matched(text, e, g, L!LongestMatch(e))
<1> DEFINE r == e.r
           end == e.bufferend
           buf == e.buffer
           f == L!F
           f1 == IF f <= end - r THEN f ELSE end - r
           c == L!SChar(buf[r])
           T == {i \in e.s..(r - 1) : buf[i] = c}
           A(i) == L!Agrees(e, i, f1)
           best == CHOOSE i \in T : \A k \in T : ~(A(i) < A(k)) /\ (k > i => A(k) < A(i))
           m == L!LongestMatch(e)
<1>1. m = IF T = {} THEN [x |-> 0, y |-> 1] ELSE [x |-> best, y |-> A(best)]
  BY DEF L!LongestMatch
<1>2. /\ r \in Nat /\ end \in Nat /\ g \in Nat /\ e.s = r - Lead /\ Lead <= r /\ r < end /\ end <= Room
      /\ Held(text, buf, end, g) /\ Left(text, e.input, end, g)
  BY DEF Ready, BufAt
<1>3. f \in Nat /\ f >= 2 /\ Room \in Nat /\ Lead \in Nat \ {0}
  BY RoomBounds
<1>4. \A j \in Nat : j < end => buf[j] = Stream(text, j + g) /\ buf[j] \in Bytes
  <2> SUFFICES ASSUME NEW j \in Nat, j < end
               PROVE  buf[j] = Stream(text, j + g) /\ buf[j] \in Bytes
    OBVIOUS
  <2>1. buf[j] = Stream(text, j + g)
    BY <1>2 DEF Held
  <2>2. j + g \in Nat /\ j + g < Lead + Len(text)
    <3> DEFINE n == Len(e.input)
    <3>1. n \in Nat /\ (end + g) + n = Lead + Len(text)
      BY <1>2 DEF Left
    <3> HIDE DEF n, end
    <3>2. Len(text) \in Nat
      OBVIOUS
    <3> QED BY <1>2, <3>1
  <2> QED BY <2>1, <2>2, StreamIsByte
<1>5. f1 \in Nat \ {0} /\ f1 <= f /\ r + f1 <= end
  <2> HIDE DEF f, end, r
  <2> QED BY <1>2, <1>3
<1>6. T \subseteq 0..r
  <2> HIDE DEF r, c, buf
  <2>1. \A i \in e.s..(r - 1) : i \in 0..r
    BY <1>2, <1>3
  <2> QED BY <2>1
<1>7. CASE T = {}
  <2>1. m = [x |-> 0, y |-> 1]
    BY <1>1, <1>7
  <2> HIDE DEF m, r, end, f, T
  <2>2. m.y = 1
    BY <2>1
  <2>3. r + 1 <= end /\ 1 <= f /\ ~(1 >= 2)
    BY <1>2, <1>3
  <2> QED BY <2>2, <2>3 DEF Matched, m, r, end, f
<1>8. CASE T # {}
  <2> HIDE DEF T, f1
  <2>1. \E i \in T : \A k \in T : ~(A(i) < A(k)) /\ (k > i => A(k) < A(i))
    <3> HIDE DEF r
    <3> QED BY <1>2, <1>5, <1>6, <1>8, BestStart
  <2> HIDE DEF A
  <2>2. best \in T
    BY <2>1
  <2>3. m = [x |-> best, y |-> A(best)]
    BY <1>1, <1>8
  <2> DEFINE x == best
             y == A(best)
  <2> HIDE DEF m, best
  <2>4. m.x = x /\ m.y = y
    BY <2>3
  <2>5. y \in 1..f1 /\ \A k \in 1..(y - 1) : buf[x + k] = buf[r + k]
    BY <1>5, AgreesTo DEF A
  <2>6. x \in e.s..(r - 1) /\ buf[x] = c
    BY <2>2 DEF T
  <2>7. x \in Nat /\ r <= x + Lead /\ x < r
    <3> HIDE DEF c, r, x
    <3> QED BY <1>2, <1>3, <2>6
  <2> HIDE DEF y, x, r, end, f, buf
  <2>8. buf[x] = buf[r]
    <3> DEFINE b == buf[r]
    <3>1. b \in Bytes /\ buf[x] \in Bytes
      BY <1>2, <1>4, <2>7
    <3>2. buf[x] \in Nat
      BY <3>1, ByteWidth
    <3>3. L!SChar(b) \in Nat => L!SChar(b) = b
      BY <3>1, SignedByte
    <3> QED BY <2>6, <3>2, <3>3
  <2>9. y \in Nat /\ y >= 1 /\ y <= f /\ r + y <= end
    BY <1>2, <1>3, <1>5, <2>5
  <2>10. ASSUME NEW k \in Nat, k < y PROVE Stream(text, (x + g) + k) = Stream(text, (r + g) + k)
    <3>1. buf[x + k] = buf[r + k]
      <4>1. CASE k = 0
        <5>1. x + k = x /\ r + k = r
          BY <1>2, <2>7, <4>1
        <5> QED BY <2>8, <5>1
      <4>2. CASE k # 0
        <5>1. k \in 1..(y - 1)
          BY <2>9, <2>10, <4>2
        <5> QED BY <2>5, <5>1
      <4> QED BY <4>1, <4>2
    <3>2. /\ x + k \in Nat /\ x + k < end /\ r + k \in Nat /\ r + k < end
          /\ (x + k) + g = (x + g) + k /\ (r + k) + g = (r + g) + k
      BY <1>2, <2>7, <2>9, <2>10
    <3>3. buf[x + k] = Stream(text, (x + k) + g) /\ buf[r + k] = Stream(text, (r + k) + g)
      BY <1>4, <3>2
    <3> QED BY <3>1, <3>2, <3>3
  <2>11. Repeats(text, x + g, r + g, y)
    <3>1. x + g \in Nat /\ r + g <= (x + g) + Lead /\ x + g < r + g
      BY <1>2, <1>3, <2>7
    <3> QED BY <2>9, <2>10, <3>1 DEF Repeats
  <2> QED BY <2>4, <2>7, <2>9, <2>11 DEF Matched, m, r, end, f
<1> QED BY <1>7, <1>8

----------------------------------------------------------------------------
(* A turn of the loop of pipeline_compress_command.                        *)

EncAt(text, e) == \E g : Ready(text, e, g) /\ DecAt(text, e.bits, e.r + g)

\* The encoder after the token of a match of length y.
IsWritten(e, y, t, c) == c = [e EXCEPT !.bits = @ \o t, !.r = @ + y, !.s = @ + y]

LEMMA WrittenOn ==
  ASSUME NEW text, NEW e, NEW g, Ready(text, e, g), NEW y \in Nat, y <= L!F,
         e.r + y <= e.bufferend, NEW t, NEW c, IsWritten(e, y, t, c)
  PROVE  BufAt(text, c, g) /\ Full(c) /\ c.r = e.r + y /\ c.r < Room /\ Grown(c.bits, e.bits, t)
<1> DEFINE r == e.r
           end == e.bufferend
           s == e.s
<1>1. /\ IsEnc(e) /\ g \in Nat /\ g % L!N = 0
      /\ r \in Nat /\ end \in Nat /\ s = r - Lead
      /\ Lead <= r /\ r <= end /\ end <= Room
      /\ Held(text, e.buffer, end, g) /\ Left(text, e.input, end, g)
      /\ r < Room - L!F /\ Full(e) /\ r + y <= end
  BY DEF Ready, BufAt
<1>2. Lead \in Nat /\ L!F \in Nat /\ Room \in Nat
  BY RoomBounds
<1>3. e = [buffer |-> e.buffer, bufferend |-> end, r |-> r, s |-> s, input |-> e.input, bits |-> e.bits]
  BY <1>1 DEF IsEnc
<1>4. c = [buffer |-> e.buffer, bufferend |-> end, r |-> r + y, s |-> s + y, input |-> e.input,
           bits |-> e.bits \o t]
  BY <1>3 DEF IsWritten
<1> HIDE DEF r, end, s
<1>5. /\ IsEnc(c) /\ c.buffer = e.buffer /\ c.bufferend = end /\ c.r = r + y /\ c.s = s + y
      /\ c.input = e.input /\ c.bits = e.bits \o t
  BY <1>4 DEF IsEnc
<1>6. r + y \in Nat /\ Lead <= r + y /\ s + y = (r + y) - Lead
  BY <1>1, <1>2
<1>7. r + y < Room
  BY <1>1, <1>2
<1>8. BufAt(text, c, g)
  BY <1>1, <1>5, <1>6 DEF BufAt
<1>9. Full(c)
  BY <1>1, <1>5 DEF Full, end
<1>10. Grown(c.bits, e.bits, t)
  BY <1>5 DEF Grown
<1> QED BY <1>5, <1>7, <1>8, <1>9, <1>10 DEF r

LEMMA EncodeOn ==
  ASSUME NEW text \in Seq(Bytes), NEW e, EncAt(text, e), e.r < e.bufferend
  PROVE  EncAt(text, L!EncodeStep(e))
<1>1. PICK g : Ready(text, e, g) /\ DecAt(text, e.bits, e.r + g)
  BY DEF EncAt
<1> DEFINE m == L!LongestMatch(e)
           y == m.y
           b == e.buffer[e.r]
           t == IF y <= 1 THEN L!output1(L!SChar(b)) ELSE L!output2(m.x % L!N, y - 2)
           c == [e EXCEPT !.bits = @ \o t, !.r = @ + y, !.s = @ + y]
           R == e.r + g
<1>2. L!EncodeStep(e) = L!Slide(c)
  BY DEF L!EncodeStep, L!P
<1>3. Matched(text, e, g, m)
  BY <1>1, MatchFound
<1>4. IsWritten(e, y, t, c)
  BY DEF IsWritten
<1> HIDE DEF m, c
<1>5. y \in Nat /\ y >= 1 /\ y <= L!F /\ e.r + y <= e.bufferend
      /\ (y >= 2 => m.x \in Nat /\ Repeats(text, m.x + g, R, y))
  BY <1>3 DEF Matched
<1>6. /\ e.r \in Nat /\ e.bufferend \in Nat /\ g \in Nat /\ g % L!N = 0 /\ Lead \in Nat
      /\ Held(text, e.buffer, e.bufferend, g) /\ Left(text, e.input, e.bufferend, g)
  BY <1>1, RoomBounds DEF Ready, BufAt
<1>7. R \in Nat /\ R + y <= Lead + Len(text)
  <2> DEFINE n == Len(e.input)
             end == e.bufferend
             r == e.r
  <2>1. n \in Nat /\ (end + g) + n = Lead + Len(text) /\ Len(text) \in Nat
    BY <1>6 DEF Left
  <2>2. r \in Nat /\ end \in Nat /\ r + y <= end /\ R = r + g
    BY <1>5, <1>6
  <2> HIDE DEF n, end, r, y, R
  <2>3. y \in Nat
    BY <1>5 DEF y
  <2> QED BY <1>6, <2>1, <2>2, <2>3
<1>8. b = Stream(text, R)
  <2>1. e.r < e.bufferend
    OBVIOUS
  <2> QED BY <1>6, <2>1 DEF Held
<1> HIDE DEF b, t, y, R
<1>9. BufAt(text, c, g) /\ Full(c) /\ c.r = e.r + y /\ c.r < Room /\ Grown(c.bits, e.bits, t)
  BY <1>1, <1>4, <1>5, WrittenOn
<1>10. DecAt(text, e.bits, R)
  BY <1>1 DEF R
<1>11. DecAt(text, c.bits, R + y)
  <2>1. CASE y <= 1
    <3>1. y = 1
      BY <1>5, <2>1
    <3>2. R < Lead + Len(text) /\ Len(text) \in Nat
      BY <1>6, <1>7, <3>1
    <3>3. b \in Bytes
      BY <1>7, <1>8, <3>2, StreamIsByte
    <3>4. t = LiteralBits(b)
      <4>1. L!SChar(b) % 2^BITS = b
        BY <3>3, SignedByte DEF Pow
      <4>2. t = L!output1(L!SChar(b))
        BY <2>1 DEF t
      <4> QED BY <4>1, <4>2 DEF L!output1, LiteralBits
    <3>5. Grown(c.bits, e.bits, LiteralBits(b))
      BY <1>9, <3>4
    <3>6. DecAt(text, c.bits, R + 1)
      BY <1>8, <1>10, <3>2, <3>5, LiteralAdded
    <3> QED BY <3>1, <3>6
  <2>2. CASE ~(y <= 1)
    <3>1. y >= 2
      BY <1>5, <2>2
    <3> DEFINE x == m.x
               j == x + g
    <3>2. x \in Nat /\ Repeats(text, j, R, y)
      BY <1>5, <3>1
    <3>3. j % L!N = x % L!N
      <4> DEFINE n == L!N
      <4>1. n \in Nat \ {0} /\ g % n = 0
        BY <1>6, RoomBounds
      <4> HIDE DEF n, x
      <4>2. ((g % n) + x) % n = (g + x) % n
        BY <1>6, <3>2, <4>1, RemainderSum
      <4>3. (g % n) + x = x /\ g + x = x + g
        BY <1>6, <3>2, <4>1
      <4>4. (x + g) % n = x % n
        BY <4>2, <4>3
      <4> QED BY <4>4 DEF n
    <3>4. t = MatchBits(x % L!N, y - 2)
      BY <2>2 DEF t, L!output2, MatchBits
    <3> HIDE DEF x, j
    <3>5. Grown(c.bits, e.bits, MatchBits(j % L!N, y - 2))
      BY <1>9, <3>3, <3>4
    <3> QED BY <1>5, <1>7, <1>10, <3>1, <3>2, <3>5, MatchAdded
  <2> QED BY <2>1, <2>2
<1> DEFINE q == L!Slide(c)
<1>12. PICK h : Ready(text, q, h) /\ q.r + h = c.r + g /\ q.bits = c.bits
  BY <1>9, SlideOn
<1>13. c.r + g = R + y
  <2>1. c.r = e.r + y /\ R = e.r + g
    BY <1>9 DEF R
  <2> QED BY <1>5, <1>6, <2>1
<1> HIDE DEF q
<1>14. EncAt(text, q)
  BY <1>11, <1>12, <1>13 DEF EncAt
<1> QED BY <1>2, <1>14 DEF q

LEMMA EncFirst ==
  ASSUME NEW text \in Seq(Bytes)
  PROVE  EncAt(text, L!EncodeStart(text))
<1> DEFINE e == L!EncodeStart(text)
<1>1. Ready(text, e, 0) /\ e.r = Lead /\ e.bits = <<>>
  BY EncStart
<1>2. DecAt(text, <<>>, Lead)
  BY DecStart
<1>3. Lead + 0 = Lead
  BY LeadBounds
<1> HIDE DEF e
<1>4. DecAt(text, e.bits, e.r + 0)
  BY <1>1, <1>2, <1>3
<1> QED BY <1>1, <1>4 DEF EncAt, e

\* The bits are those of the whole text.
Whole(text, B, n, T) == Tokens(B, n, T) /\ T[n].p = Len(B) /\ T[n].out = text

LEMMA EncLast ==
  ASSUME NEW text \in Seq(Bytes), NEW e, EncAt(text, e), ~(e.r < e.bufferend)
  PROVE  e.bits \in Seq(Bits) /\ \E n, T : Whole(text, e.bits, n, T)
<1>1. PICK g : Ready(text, e, g) /\ DecAt(text, e.bits, e.r + g)
  BY DEF EncAt
<1> DEFINE r == e.r
           end == e.bufferend
           k == Len(e.input)
           R == e.r + g
<1>2. /\ r \in Nat /\ end \in Nat /\ r <= end /\ g \in Nat /\ r < Room - L!F /\ Full(e)
      /\ Left(text, e.input, end, g)
  BY <1>1 DEF Ready, BufAt
<1>3. Room \in Nat /\ L!F \in Nat /\ Lead \in Nat /\ Len(text) \in Nat
  BY RoomBounds
<1>4. k \in Nat /\ (end + g) + k = Lead + Len(text)
  BY <1>2 DEF Left
<1>5. k = 0 \/ end = Room
  BY <1>2 DEF Full
<1>6. R = Lead + Len(text)
  <2>1. ~(r < end) /\ R = r + g
    OBVIOUS
  <2> HIDE DEF r, end, k, R
  <2> QED BY <1>2, <1>3, <1>4, <1>5, <2>1
<1>7. R - Lead = Len(text)
  BY <1>3, <1>6
<1> HIDE DEF R
<1>8. DecAt(text, e.bits, R)
  BY <1>1 DEF R
<1>9. SubSeq(text, 1, Len(text)) = text
  OBVIOUS
<1>10. PICK n, T : /\ Tokens(e.bits, n, T) /\ T[n].p = Len(e.bits)
                   /\ T[n].out = SubSeq(text, 1, R - Lead)
  BY <1>8 DEF DecAt
<1>11. Whole(text, e.bits, n, T)
  BY <1>7, <1>9, <1>10 DEF Whole
<1>12. e.bits \in Seq(Bits)
  BY <1>8 DEF DecAt
<1> QED BY <1>11, <1>12

----------------------------------------------------------------------------
(* The file of bytes, and what the padding of its last byte may not do.    *)

\* The smallest number of bytes that holds m bits.
LEMMA Rounded ==
  ASSUME NEW m \in Nat, NEW b \in Nat \ {0}, NEW n, n = (m + b - 1) \div b
  PROVE  n \in Nat /\ m <= b * n /\ b * n < m + b
<1> DEFINE x == m + b - 1
           q == x \div b
           s == x % b
<1>1. x \in Nat
  OBVIOUS
<1>2. q \in Nat /\ s \in 0..(b - 1) /\ b * q + s = x /\ n = q
  <2> HIDE DEF x
  <2>1. x \div b \in Nat /\ x % b \in 0..(b - 1) /\ b * (x \div b) + (x % b) = x
    BY <1>1, Division
  <2>2. n = x \div b
    BY DEF x
  <2> QED BY <2>1, <2>2
<1> DEFINE y == b * q
<1>3. y \in Nat /\ y + s = x
  <2> HIDE DEF q, s, x
  <2> QED BY <1>2
<1> HIDE DEF q, s, y
<1>4. m <= y /\ y < m + b
  <2>1. x = m + b - 1
    OBVIOUS
  <2> HIDE DEF x
  <2> QED BY <1>2, <1>3, <2>1
<1>5. b * n = y
  BY <1>2 DEF y
<1> QED BY <1>2, <1>4, <1>5

LEMMA PackedBits ==
  ASSUME NEW B \in Seq(Bits), NEW C, C = L!FileBits(L!Pack(B))
  PROVE  /\ L!Pack(B) \in Seq(Bytes) /\ C \in Seq(Bits) /\ Len(C) = BITS * Len(L!Pack(B))
         /\ Len(B) \in 0..Len(C) /\ Len(C) < Len(B) + BITS /\ SubSeq(C, 1, Len(B)) = B
<1> DEFINE code == L!Pack(B)
           m == Len(B)
           n == (Len(B) + BITS - 1) \div BITS
           at(k) == IF k <= Len(B) THEN B[k] ELSE 0
           word(h) == [b \in 1..BITS |-> at((h - 1) * BITS + b)]
<1>1. BITS \in Nat \ {0} /\ BITS \in Widths /\ m \in Nat /\ Bytes = 0..(Pow(BITS) - 1)
      /\ Pow(BITS) \in Nat
  <2>1. BITS \in Nat \ {0} /\ BITS \in Widths /\ Bytes = 0..(Pow(BITS) - 1)
    BY ByteWidth, Powers
  <2>2. Pow(BITS) \in Nat
    BY <2>1, Powers
  <2> QED BY <2>1, <2>2
<1>2. code = [h \in 1..n |-> L!ValueOf(word(h))]
  BY DEF L!Pack
<1>3. n \in Nat /\ m <= BITS * n /\ BITS * n < m + BITS
  BY <1>1, Rounded
<1> HIDE DEF n, code
<1>4. ASSUME NEW k \in Nat, k >= 1 PROVE at(k) \in Bits
  <2>1. CASE k <= Len(B)
    <3>1. k \in 1..Len(B)
      BY <1>4, <2>1
    <3> QED BY <2>1, <3>1
  <2>2. CASE ~(k <= Len(B))
    BY <2>2 DEF Bits
  <2> QED BY <2>1, <2>2
<1> HIDE DEF at
<1>5. ASSUME NEW h \in 1..n
      PROVE  word(h) \in Seq(Bits) /\ Len(word(h)) = BITS
             /\ \A b \in 1..BITS : word(h)[b] = at((h - 1) * BITS + b)
  <2> DEFINE z == (h - 1) * BITS
  <2>1. z \in Nat
    <3>1. h - 1 \in Nat
      BY <1>3
    <3> DEFINE c == h - 1
    <3> HIDE DEF c
    <3>2. c \in Nat
      BY <3>1 DEF c
    <3>3. c * BITS \in Nat
      BY <1>1, <3>2
    <3> QED BY <3>3 DEF c
  <2> HIDE DEF z
  <2>2. word(h) = [b \in 1..BITS |-> at(z + b)]
    BY DEF z
  <2>3. \A b \in 1..BITS : at(z + b) \in Bits
    BY <1>1, <1>4, <2>1
  <2> DEFINE u == word(h)
  <2> HIDE DEF u
  <2>4. u = [b \in 1..BITS |-> at(z + b)]
    BY <2>2 DEF u
  <2>5. u \in [1..BITS -> Bits]
    BY <2>3, <2>4
  <2>6. u \in Seq(Bits) /\ Len(u) = BITS
    BY <1>1, <2>5
  <2>7. \A b \in 1..BITS : u[b] = at(z + b)
    BY <2>4
  <2> QED BY <2>6, <2>7 DEF u, z
<1> HIDE DEF word
<1>6. ASSUME NEW h \in 1..n
      PROVE  /\ code[h] \in Bytes
             /\ \A b \in 1..BITS : L!BitsOf(code[h], BITS)[b] = at((h - 1) * BITS + b)
  <2> DEFINE u == word(h)
             v == L!ValueOf(u)
  <2>1. code[h] = v
    BY <1>2
  <2>2. u \in Seq(Bits) /\ Len(u) = BITS /\ \A b \in 1..BITS : u[b] = at((h - 1) * BITS + b)
    BY <1>5
  <2> HIDE DEF u
  <2>3. v \in Nat /\ v < Pow(BITS) /\ \A b \in 1..BITS : L!BitsOf(v, BITS)[b] = u[b]
    BY <1>1, <2>2, WriteBack
  <2> HIDE DEF v
  <2>4. v \in Bytes
    BY <1>1, <2>3
  <2> QED BY <2>1, <2>2, <2>3, <2>4
<1>7. code \in Seq(Bytes) /\ Len(code) = n
  <2>1. code \in [1..n -> Bytes]
    BY <1>2, <1>6
  <2> QED BY <1>3, <2>1
<1>8. /\ C \in Seq(Bits) /\ Len(C) = BITS * n
      /\ \A f \in Nat : \A b \in 1..BITS : f < n => C[BITS * f + b] = L!BitsOf(code[f + 1], BITS)[b]
  <2>1. C = L!FileBits(code)
    BY DEF code
  <2> QED BY <1>7, <2>1, FileOfBits
<1>9. m \in 0..Len(C) /\ Len(C) < m + BITS
  <2> DEFINE y == BITS * n
  <2>1. y \in Nat /\ Len(C) = y /\ m <= y /\ y < m + BITS
    BY <1>1, <1>3, <1>8
  <2> HIDE DEF y, m
  <2> QED BY <1>1, <2>1
<1>10. ASSUME NEW k \in 1..m PROVE C[k] = B[k]
  <2> DEFINE x == k - 1
             f == x \div BITS
             s == x % BITS
             b == s + 1
             y == BITS * f
  <2>1. x \in Nat /\ x < m /\ k = x + 1
    BY <1>1
  <2>2. f \in Nat /\ s \in 0..(BITS - 1) /\ y + s = x
    BY <1>1, <2>1, Division
  <2> HIDE DEF x, s, f
  <2>3. y \in Nat
    BY <1>1, <2>2
  <2>4. f < n
    <3>1. CASE f >= n
      <4> DEFINE e == f - n
                 p == BITS * n
                 o == BITS * e
      <4>1. e \in Nat /\ f = n + e
        BY <1>3, <2>2, <3>1
      <4> HIDE DEF e
      <4>2. y = p + o /\ p \in Nat /\ o \in Nat
        BY <1>1, <1>3, <4>1
      <4>3. m <= p
        BY <1>3
      <4> HIDE DEF y, p, o, m
      <4> QED BY <1>1, <2>1, <2>2, <4>2, <4>3
    <3> QED BY <1>3, <2>2, <3>1
  <2>5. b \in 1..BITS /\ y + b = k
    <3> HIDE DEF y
    <3> QED BY <1>1, <2>1, <2>2, <2>3
  <2> HIDE DEF b
  <2>6. C[y + b] = L!BitsOf(code[f + 1], BITS)[b]
    BY <1>8, <2>2, <2>4, <2>5
  <2>7. L!BitsOf(code[f + 1], BITS)[b] = at(((f + 1) - 1) * BITS + b)
    <3>1. f + 1 \in 1..n
      BY <1>3, <2>2, <2>4
    <3> QED BY <1>6, <2>5, <3>1
  <2>8. ((f + 1) - 1) * BITS = y
    <3>1. (f + 1) - 1 = f
      BY <2>2
    <3>2. f * BITS = y
      BY <1>1, <2>2
    <3> QED BY <3>1, <3>2
  <2>9. at(k) = B[k]
    <3>1. k <= Len(B)
      BY <1>1
    <3> QED BY <3>1 DEF at
  <2> HIDE DEF y
  <2> QED BY <2>5, <2>6, <2>7, <2>8, <2>9
<1>11. SubSeq(C, 1, m) = B
  <2> DEFINE t == SubSeq(C, 1, m)
  <2>1. t \in Seq(Bits) /\ Len(t) = m /\ \A i \in 1..m : t[i] = C[i]
    BY <1>8, <1>9, FrontBits
  <2> HIDE DEF t
  <2>2. Len(t) = Len(B) /\ \A i \in 1..Len(t) : t[i] = B[i]
    BY <1>10, <2>1
  <2>3. t = B
    BY <2>1, <2>2, SameSequence
  <2> QED BY <2>3 DEF t
<1> QED BY <1>7, <1>8, <1>9, <1>11 DEF code

\* There is one way to read the tokens.
LEMMA TokensSame ==
  ASSUME NEW C, NEW n, NEW T, Tokens(C, n, T), NEW m, NEW U, Tokens(C, m, U), NEW i \in Nat, i <= n, i <= m
  PROVE  T[i] = U[i]
<1> DEFINE Q == {k \in Nat : k <= n /\ k <= m => T[k] = U[k]}
<1>1. /\ n \in Nat /\ T[0] = Origin /\ \A k \in 0..(n - 1) : T[k + 1] = After(C, T[k])
      /\ m \in Nat /\ U[0] = Origin /\ \A k \in 0..(m - 1) : U[k + 1] = After(C, U[k])
  BY DEF Tokens
<1>2. 0 \in Q
  BY <1>1
<1>3. ASSUME NEW k \in Nat, k \in Q PROVE k + 1 \in Q
  <2> SUFFICES ASSUME k + 1 <= n, k + 1 <= m PROVE T[k + 1] = U[k + 1]
    OBVIOUS
  <2>1. k <= n /\ k <= m /\ k \in 0..(n - 1) /\ k \in 0..(m - 1)
    BY <1>1
  <2>2. T[k] = U[k]
    BY <1>3, <2>1
  <2> QED BY <1>1, <2>1, <2>2
<1>4. Nat \subseteq Q
  <2> HIDE DEF Q
  <2> QED BY <1>2, <1>3, Induction
<1>5. i \in Q
  BY <1>4
<1> QED BY <1>5

\* Every token adds to what came out before it.
LEMMA OutGrows ==
  ASSUME NEW B \in Seq(Bits), NEW n, NEW T, Tokens(B, n, T), NEW i \in 0..n
  PROVE  IsFront(T[i].out, T[n].out)
<1>1. /\ n \in Nat /\ \A k \in 0..(n - 1) : T[k + 1] = After(B, T[k])
      /\ \A k \in 0..n : T[k] \in Spot /\ T[k].p <= Len(B)
  BY DEF Tokens
<1> DEFINE Q == {k \in Nat : i + k <= n => IsFront(T[i].out, T[i + k].out)}
           s == T[i].out
<1>2. 0 \in Q
  <2>1. T[i] \in Spot /\ i + 0 = i
    BY <1>1
  <2>2. s \in Seq(Nat)
    BY <2>1 DEF Spot
  <2>3. IsFront(s, s)
    <3> HIDE DEF s
    <3> QED BY <2>2 DEF IsFront
  <2> QED BY <2>1, <2>3
<1>3. ASSUME NEW k \in Nat, k \in Q PROVE k + 1 \in Q
  <2> SUFFICES ASSUME i + (k + 1) <= n PROVE IsFront(s, T[i + (k + 1)].out)
    OBVIOUS
  <2> DEFINE j == i + k
             a == T[j]
             o == TokenOut(B, a)
  <2>1. j \in 0..(n - 1) /\ j \in 0..n /\ j + 1 \in 0..n /\ j <= n /\ i + (k + 1) = j + 1 /\ i \in 0..n
    BY <1>1
  <2>2. IsFront(s, a.out)
    BY <1>3, <2>1
  <2> HIDE DEF j
  <2>3. T[j + 1] = After(B, a) /\ a \in Spot /\ T[j + 1].p <= Len(B) /\ T[i] \in Spot
    BY <1>1, <2>1
  <2> HIDE DEF a
  <2>4. After(B, a).p = a.p + TokenLen(B, a.p) /\ After(B, a).out = a.out \o o.out
    BY DEF After
  <2>5. o \in Copied
    BY <2>3, <2>4, AfterTyped
  <2>6. a.out \in Seq(Nat) /\ o.out \in Seq(Nat) /\ s \in Seq(Nat)
    BY <2>3, <2>5 DEF Spot, Copied
  <2> DEFINE u == a.out
             v == o.out
             c == u \o v
  <2>7. Len(c) = Len(u) + Len(v) /\ \A x \in 1..Len(u) : c[x] = u[x]
    BY <2>6, Both
  <2>8. Len(s) \in Nat /\ Len(u) \in Nat /\ Len(v) \in Nat
    BY <2>6
  <2> HIDE DEF c, u, v, s
  <2>9. Len(s) <= Len(u) /\ \A x \in 1..Len(s) : s[x] = u[x]
    BY <2>2 DEF IsFront, u
  <2>10. IsFront(s, c)
    <3>1. Len(s) <= Len(c)
      BY <2>7, <2>8, <2>9
    <3>2. ASSUME NEW x \in 1..Len(s) PROVE s[x] = c[x]
      <4>1. x \in 1..Len(u)
        BY <2>8, <2>9
      <4> QED BY <2>7, <2>9, <4>1
    <3> QED BY <3>1, <3>2 DEF IsFront
  <2>11. T[i + (k + 1)].out = c
    BY <2>1, <2>3, <2>4 DEF c, u, v
  <2> QED BY <2>10, <2>11
<1>4. Nat \subseteq Q
  <2> HIDE DEF Q
  <2> QED BY <1>2, <1>3, Induction
<1>5. n - i \in Nat /\ i + (n - i) = n /\ n <= n
  BY <1>1
<1>6. n - i \in Q
  BY <1>4, <1>5
<1> QED BY <1>5, <1>6

\* The padding completes no token: what is read is a part of the text, and all
\* of it at the end.
PaddedFile(text, B, C) ==
  /\ B \in Seq(Bits) /\ C \in Seq(Bits) /\ Len(B) \in 0..Len(C) /\ Len(C) < Len(B) + BITS
  /\ SubSeq(C, 1, Len(B)) = B /\ \E n, T : Whole(text, B, n, T)

LEMMA PaddedTokens ==
  ASSUME NEW text, NEW B, NEW C, PaddedFile(text, B, C), NEW n, NEW T, Tokens(C, n, T)
  PROVE  IsFront(T[n].out, text)
         /\ \A z : InToken(C, Len(C), z, T[n]) => T[n].out = text
<1> DEFINE k == Len(B)
<1>1. /\ B \in Seq(Bits) /\ C \in Seq(Bits) /\ k \in 0..Len(C) /\ Len(C) < k + BITS
      /\ SubSeq(C, 1, k) = B
  BY DEF PaddedFile
<1>2. PICK m, U : Whole(text, B, m, U)
  BY DEF PaddedFile
<1>3. Tokens(B, m, U) /\ U[m].p = k /\ U[m].out = text
  BY <1>2 DEF Whole
<1>4. k \in Nat /\ Len(C) \in Nat /\ BITS \in Nat
  BY <1>1, Powers
<1> HIDE DEF k
<1>5. Tokens(C, m, U)
  BY <1>1, <1>3, TokensStay
<1>6. m \in Nat /\ n \in Nat
  BY <1>5 DEF Tokens
<1>7. n <= m
  <2> SUFFICES ASSUME ~(n <= m) PROVE FALSE
    OBVIOUS
  <2>1. m <= n /\ m <= m /\ m \in 0..(n - 1) /\ m + 1 \in 0..n
    BY <1>6
  <2> DEFINE a == T[m]
  <2>2. a = U[m]
    BY <1>5, <1>6, <2>1, TokensSame
  <2>3. T[m + 1] = After(C, a) /\ T[m + 1].p <= Len(C)
    BY <2>1 DEF Tokens
  <2>4. After(C, a).p = a.p + TokenLen(C, a.p)
    BY DEF After
  <2> HIDE DEF a
  <2>5. a.p = k
    BY <1>3, <2>2
  <2> DEFINE w == TokenLen(C, a.p)
  <2>6. w \in Nat /\ w >= BITS /\ k + w <= Len(C)
    BY <2>3, <2>4, <2>5, TokenLength
  <2> HIDE DEF w
  <2> QED BY <1>1, <1>4, <2>6
<1>8. T[n] = U[n]
  BY <1>5, <1>6, <1>7, TokensSame
<1>9. n \in 0..m
  BY <1>6, <1>7
<1>10. IsFront(U[n].out, U[m].out)
  BY <1>1, <1>3, <1>9, OutGrows
<1>11. ASSUME NEW z, InToken(C, Len(C), z, T[n]) PROVE T[n].out = text
  <2>1. CASE n = m
    BY <1>3, <1>8, <2>1
  <2>2. CASE n # m
    <3>1. n \in 0..(m - 1) /\ n + 1 \in 0..m
      BY <1>6, <1>7, <2>2
    <3> DEFINE a == T[n]
    <3>2. U[n + 1] = After(C, a) /\ U[n + 1].p <= Len(C)
      BY <1>5, <1>8, <3>1 DEF Tokens
    <3>3. After(C, a).p = a.p + TokenLen(C, a.p)
      BY DEF After
    <3>4. Len(C) < a.p + TokenLen(C, a.p) /\ a.p \in Nat
      BY <1>11, Unfinished
    <3> DEFINE w == a.p + TokenLen(C, a.p)
    <3>5. w \in Nat
      BY <3>4, TokenLength
    <3>6. w <= Len(C) /\ Len(C) < w
      BY <3>2, <3>3, <3>4
    <3> HIDE DEF w
    <3> QED BY <1>4, <3>5, <3>6
  <2> QED BY <2>1, <2>2
<1> QED BY <1>3, <1>8, <1>10, <1>11

----------------------------------------------------------------------------
(* The chain from the tool to the device.                                  *)

\* Nothing was received.
Fresh ==
  /\ sent \in Seq(Bytes) /\ fed = 0 /\ lz = L!LzssInit /\ bs = BspatchInit /\ sink = <<>>
  /\ ~failed /\ misread = "none"

LEMMA FreshDevice == Fresh => DeviceAt
<1> SUFFICES ASSUME Fresh PROVE DeviceAt
  OBVIOUS
<1> DEFINE r == Now
           z == L!LzssInit
<1>1. /\ sent \in Seq(Bytes) /\ fed = 0 /\ lz = z /\ bs = BspatchInit /\ sink = <<>>
  BY DEF Fresh
<1>2. /\ IsRec(r) /\ ~r.err /\ r.lz = lz /\ r.bs = bs /\ r.out = sink /\ r.miss = "none"
      /\ Halted(r)
  BY DEF IsRec, Now, Fresh, Halted
<1> HIDE DEF r
<1>3. BsAt(old, new, patch, 0, r.bs, r.out)
  BY <1>1, <1>2, PatchStart
<1>4. CASE chain = "patch"
  <2>1. PatchAt(fed, r.lz, r)
    BY <1>1, <1>2, <1>3 DEF PatchAt
  <2> QED BY <1>2, <1>4, <2>1 DEF AtByte, DeviceAt, r
<1>5. CASE chain # "patch"
  <2> DEFINE B == L!FileBits(sent)
             T == [i \in 0..0 |-> Origin]
  <2>1. B \in Seq(Bits)
    BY <1>1, FileOfBits
  <2> HIDE DEF B
  <2>2. Tokens(B, 0, T)
    BY <2>1, TokensFirst
  <2>3. T[0] = Origin
    OBVIOUS
  <2> HIDE DEF T
  <2>4. T[0].p = 0 /\ T[0].w = L!Window /\ T[0].out = <<>>
    BY <2>3, OriginTyped
  <2>5. IsLz(z) /\ z.getting = "flag" /\ z.s = 0 /\ z.w = L!Window
    BY DEF L!LzssInit, IsLz
  <2> HIDE DEF z
  <2>6. InToken(B, 0, r.lz, T[0])
    <3>1. r.lz = z /\ z.w = T[0].w /\ z.s \in Nat /\ T[0].p \in Nat /\ 0 = T[0].p
      BY <1>1, <1>2, <2>4, <2>5
    <3> QED BY <2>5, <3>1, FlagStart
  <2>7. Handed(T[0].out, r)
    <3>1. Len(<<>>) = 0
      OBVIOUS
    <3> QED BY <1>1, <1>2, <1>3, <2>4, <3>1 DEF Handed
  <2>8. BITS * fed = 0
    BY <1>1, Powers
  <2>9. DecodedTo(B, 0, r.lz, 0, T)
    BY <2>2, <2>6 DEF DecodedTo
  <2>10. DevAt(B, 0, r)
    BY <1>2, <2>7, <2>9 DEF DevAt, ReadyAt
  <2> QED BY <1>5, <2>8, <2>10 DEF AtByte, DeviceAt, r, B
<1> QED BY <1>4, <1>5

\* The decoder of the tool stops at the same token as that of the device.
LEMMA DeviceIsTool ==
  Suits /\ DeviceAt /\ fed \in 0..Len(sent) => StageIsTool
<1> SUFFICES ASSUME Suits, DeviceAt, fed \in 0..Len(sent), chain \in {"code", "text"}
             PROVE  sink = L!pipeline_decompress_command(SubSeq(sent, 1, fed))
  BY DEF StageIsTool
<1> DEFINE r == Now
           B == L!FileBits(sent)
           k == BITS * fed
           code == SubSeq(sent, 1, fed)
<1>1. sent \in Seq(Bytes) /\ B \in Seq(Bits) /\ fed \in Nat
  BY FileOfBits DEF Suits
<1>2. r.lz = lz /\ r.out = sink
  BY DEF Now
<1>3. DevAt(B, k, r)
  BY DEF DeviceAt, AtByte
<1>4. Len(code) = fed /\ k <= Len(B) /\ L!FileBits(code) = SubSeq(B, 1, k)
  BY <1>1, PrefixOfBits
<1> HIDE DEF r, B, code
<1>5. PICK n, T : DecodedTo(B, k, r.lz, n, T) /\ Handed(T[n].out, r)
  BY <1>3 DEF DevAt, ReadyAt
<1>6. L!pipeline_decompress_command(code) = T[n].out
  <2>1. GivenTo(B, fed, r.lz, n, T, code)
    BY <1>1, <1>4, <1>5 DEF GivenTo
  <2> QED BY <2>1, ToolEnds
<1>7. r.out = T[n].out
  BY <1>5 DEF Handed
<1> QED BY <1>2, <1>6, <1>7 DEF code

\* The compressed file carries what was compressed.
Packed == \E B : PaddedFile(patch, B, L!FileBits(sent))

Received ==
  /\ fed \in Nat /\ fed <= Len(sent) /\ Suits /\ DeviceAt
  /\ chain \in {"delta", "text"} => Packed

\* The inductive invariant: the tool is at a point of its chain, the device has
\* decoded and patched as far as what it was given goes.
ChainInv ==
  /\ DiffInv
  /\ chain \in {"delta", "patch", "text", "code"}
  /\ chain \in {"delta", "patch"} => SmallImages(old, new)
  /\ chain = "text" => phase \in {"compress", "receive"} /\ patch = new /\ new \in Seq(Bytes)
  /\ chain = "code" => phase = "receive"
  /\ chain = "patch" => phase # "compress"
  /\ phase = "compress" => patch \in Seq(Bytes) /\ EncAt(patch, enc)
  /\ phase # "receive" => sent = <<>> /\ Fresh
  /\ phase = "receive" => Received

LEMMA SmallOfPair ==
  ASSUME NEW pair \in Deltas \cup Pairs
  PROVE  SmallImages(pair[1], pair[2])
<1>1. Len(pair[1]) \in Nat /\ Len(pair[2]) \in Nat
  BY ImagesAssumption
<1>2. /\ \A x \in 0..Len(pair[1]) : Quotients(x)[OFFW \div 2 - 1] < Base \div 2
      /\ \A x \in 0..Len(pair[2]) : Quotients(x)[OFFW \div 2 - 1] < Base \div 2
  BY DeviceAssumption
<1> QED BY <1>1, <1>2 DEF SmallImages, Small

LEMMA InitChain == Init => ChainInv
<1> SUFFICES ASSUME Init PROVE ChainInv
  OBVIOUS
<1>1. DiffInv
  BY InitDiff
<1>2. /\ chain \in {"delta", "patch", "text", "code"}
      /\ chain \in {"delta", "patch"} =>
           phase = "sort" /\ \E pair \in Deltas \cup Pairs : old = pair[1] /\ new = pair[2]
      /\ chain = "text" => phase = "compress" /\ new \in Texts /\ patch = new
      /\ chain = "code" => phase = "receive" /\ sent \in Codes
      /\ chain # "code" => sent = <<>>
  BY DEF Init
<1>3. /\ enc = L!EncodeStart(patch) /\ ~failed /\ misread = "none"
      /\ fed = 0 /\ lz = L!LzssInit /\ bs = BspatchInit /\ sink = <<>>
  BY DEF Init
<1>4. chain \in {"delta", "patch"} => SmallImages(old, new)
  <2> SUFFICES ASSUME chain \in {"delta", "patch"} PROVE SmallImages(old, new)
    OBVIOUS
  <2>1. PICK pair \in Deltas \cup Pairs : old = pair[1] /\ new = pair[2]
    BY <1>2
  <2> QED BY <2>1, SmallOfPair
<1>5. sent \in Seq(Bytes) /\ (chain = "text" => new \in Seq(Bytes))
  <2>1. <<>> \in Seq(Bytes)
    OBVIOUS
  <2>2. \A s : (s \in Texts => s \in Seq(Bytes)) /\ (s \in Codes => s \in Seq(Bytes))
    BY FilesAssumption
  <2> QED BY <1>2, <2>1, <2>2, Zenon
<1>6. Fresh
  BY <1>3, <1>5 DEF Fresh
<1>7. phase = "compress" => patch \in Seq(Bytes) /\ EncAt(patch, enc)
  <2> SUFFICES ASSUME phase = "compress" PROVE patch \in Seq(Bytes) /\ EncAt(patch, enc)
    OBVIOUS
  <2>1. patch \in Seq(Bytes)
    BY <1>2, <1>5
  <2> QED BY <1>3, <2>1, EncFirst
<1>8. phase = "receive" => Received
  <2> SUFFICES ASSUME phase = "receive" PROVE Received
    OBVIOUS
  <2>1. chain = "code" /\ DeviceAt /\ fed = 0 /\ 0 <= Len(sent)
    BY <1>2, <1>3, <1>5, <1>6, FreshDevice
  <2>2. Suits
    BY <1>5, <2>1 DEF Suits, Feeds
  <2> QED BY <2>1, <2>2 DEF Received
<1> QED BY <1>1, <1>2, <1>3, <1>4, <1>5, <1>6, <1>7, <1>8 DEF ChainInv

\* The images the device patches.
LEMMA ImagesPatch ==
  ChainInv /\ chain \in {"delta", "patch"} /\ phase \in {"compress", "receive"} => Patching
BY DEF ChainInv, DiffInv, Images, Patching

\* The loop of bsdiff_internal leaves the rest alone.
LEMMA DiffStepKeeps ==
  ASSUME ChainInv, DiffInv', UNCHANGED <<chain, old, new, patch, sent, device>>,
         phase \in {"sort", "diff", "scan", "extend"}, phase' \in {"diff", "scan", "extend"}
  PROVE  ChainInv'
<1>1. UNCHANGED <<fed, lz, bs, failed, misread, sink>>
  BY DEF device
<1>2. chain \in {"delta", "patch"} /\ SmallImages(old, new) /\ sent = <<>> /\ Fresh
  BY DEF ChainInv, DiffInv
<1>3. Fresh'
  BY <1>1, <1>2 DEF Fresh
<1> QED BY <1>1, <1>2, <1>3 DEF ChainInv

LEMMA FreshNext == Fresh' => DeviceAt'
BY FreshDevice, PTL

\* The patch is written: it is compressed, or sent as it is.
LEMMA WrittenChain == ChainInv /\ Written /\ DiffInv' => ChainInv'
<1> SUFFICES ASSUME ChainInv, Written, DiffInv' PROVE ChainInv'
  OBVIOUS
<1>1. /\ phase = "diff" /\ UNCHANGED <<chain, old, new, fed, lz, bs, failed, misread, sink>>
      /\ \/ /\ chain = "delta" /\ phase' = "compress" /\ enc' = L!EncodeStart(patch') /\ sent' = sent
         \/ /\ chain # "delta" /\ phase' = "receive" /\ sent' = patch'
  BY DEF Written, device
<1>2. chain \in {"delta", "patch"} /\ SmallImages(old, new) /\ sent = <<>> /\ Fresh
  BY <1>1 DEF ChainInv, DiffInv
<1>3. /\ chain' \in {"delta", "patch"} /\ SmallImages(old', new')
      /\ phase' \in {"compress", "receive"}
  BY <1>1, <1>2
<1>4. Images(old', new') /\ IsPatch(old', new', patch')
  BY <1>3 DEF DiffInv
<1>5. patch' \in Seq(Bytes) /\ old' \in Seq(Bytes) /\ new' \in Seq(Bytes)
  BY <1>4 DEF IsPatch, Images
<1>6. Fresh'
  BY <1>1, <1>2, <1>5 DEF Fresh
<1>7. CASE phase' = "compress"
  <2>1. chain' = "delta" /\ enc' = L!EncodeStart(patch') /\ sent' = <<>>
    BY <1>1, <1>2, <1>7
  <2>2. EncAt(patch', enc')
    BY <1>5, <2>1, EncFirst
  <2> QED BY <1>3, <1>5, <1>6, <1>7, <2>1, <2>2 DEF ChainInv
<1>8. CASE phase' = "receive"
  <2>1. chain' = "patch" /\ sent' = patch' /\ fed' = 0
    BY <1>1, <1>2, <1>6, <1>8 DEF Fresh
  <2>2. DeviceAt'
    BY <1>6, FreshNext
  <2>3. Patching'
    BY <1>3, <1>4, <1>5 DEF Patching
  <2>4. Suits'
    BY <1>5, <2>1, <2>3 DEF Suits
  <2>5. Len(sent') \in Nat
    BY <1>5, <2>1
  <2>6. Received'
    BY <2>1, <2>2, <2>4, <2>5 DEF Received
  <2> QED BY <1>3, <1>8, <2>1, <2>6 DEF ChainInv
<1> QED BY <1>3, <1>7, <1>8

\* The last byte of the compressed file is completed.
LEMMA FlushChain == ChainInv /\ Flush /\ DiffInv' => ChainInv'
<1> SUFFICES ASSUME ChainInv, Flush, DiffInv' PROVE ChainInv'
  OBVIOUS
<1>1. /\ phase = "compress" /\ phase' = "receive" /\ enc.r >= enc.bufferend
      /\ sent' = L!Pack(enc.bits)
      /\ UNCHANGED <<chain, old, new, patch, fed, lz, bs, failed, misread, sink>>
  BY DEF Flush, device
<1>2. /\ patch \in Seq(Bytes) /\ EncAt(patch, enc) /\ Fresh
      /\ chain \in {"delta", "text"}
      /\ chain = "delta" => SmallImages(old, new)
      /\ chain = "text" => patch = new /\ new \in Seq(Bytes)
  BY <1>1 DEF ChainInv
<1> DEFINE B == enc.bits
           C == L!FileBits(sent')
<1>3. B \in Seq(Bits) /\ \E n, T : Whole(patch, B, n, T)
  <2>1. ~(enc.r < enc.bufferend)
    <3>1. enc.r \in Nat /\ enc.bufferend \in Nat
      BY <1>2 DEF EncAt, Ready, BufAt, IsEnc
    <3> QED BY <1>1, <3>1
  <2> QED BY <1>2, <2>1, EncLast
<1>4. sent' \in Seq(Bytes) /\ PaddedFile(patch, B, C)
  <2> HIDE DEF B
  <2>1. sent' = L!Pack(B) /\ C = L!FileBits(L!Pack(B))
    BY <1>1 DEF B
  <2> HIDE DEF C
  <2> QED BY <1>3, <2>1, PackedBits DEF PaddedFile
<1> HIDE DEF B
<1>5. \A n, T : Tokens(C, n, T) => IsFront(T[n].out, patch)
  <2> HIDE DEF C
  <2> QED BY <1>4, PaddedTokens
<1>6. Packed'
  BY <1>1, <1>4 DEF Packed
<1>7. Fresh'
  BY <1>1, <1>2, <1>4 DEF Fresh
<1>8. DeviceAt'
  BY <1>7, FreshNext
<1>9. Feeds(L!FileBits(sent))'
  <2>1. chain = "delta" => Patching
    BY <1>1, ImagesPatch
  <2>2. chain = "delta" => Patching'
    BY <1>1, <2>1 DEF Patching
  <2> QED BY <1>1, <1>5, <2>2 DEF Feeds
<1>10. Suits'
  BY <1>1, <1>2, <1>4, <1>9 DEF Suits
<1>11. fed' = 0 /\ 0 <= Len(sent')
  BY <1>4, <1>7 DEF Fresh
<1>12. Received'
  BY <1>6, <1>8, <1>10, <1>11 DEF Received
<1> QED BY <1>1, <1>2, <1>12 DEF ChainInv

LEMMA SuitsKept ==
  ASSUME UNCHANGED <<chain, old, new, patch, sent>>
  PROVE  (Suits => Suits') /\ (Packed => Packed')
BY DEF Suits, Packed, Feeds, Patching

LEMMA DeviceKept ==
  ASSUME UNCHANGED <<chain, old, new, patch, sent, fed, lz, bs, failed, misread, sink>>
  PROVE  DeviceAt => DeviceAt'
BY DEF DeviceAt, Now, AtByte, PatchAt, DevAt, Handed, ReadyAt, Halted

LEMMA ReceiveChain == ChainInv /\ Receive /\ DiffInv' => ChainInv'
<1> SUFFICES ASSUME ChainInv, Receive, DiffInv' PROVE ChainInv'
  OBVIOUS
<1>1. phase = "receive" /\ UNCHANGED <<chain, phase, old, new, patch, sent>>
  BY DEF Receive, tool
<1>2. Received
  BY <1>1 DEF ChainInv
<1>3. fed \in Nat /\ Suits /\ DeviceAt
  BY <1>2 DEF Received
<1>4. fed' \in Nat /\ fed' <= Len(sent) /\ DeviceAt'
  BY <1>3, ReceiveOn
<1>5. Suits' /\ (Packed => Packed')
  BY <1>1, <1>3, SuitsKept
<1>6. Received'
  BY <1>1, <1>2, <1>4, <1>5 DEF Received
<1> QED BY <1>1, <1>4, <1>6 DEF ChainInv

LEMMA NextChain == ChainInv /\ [Next]_vars => ChainInv'
<1> SUFFICES ASSUME ChainInv, [Next]_vars PROVE ChainInv'
  OBVIOUS
<1>1. DiffInv'
  BY NextDiff DEF ChainInv
<1>2. CASE Sort \/ Diff \/ Scan \/ Write
  <2>1. /\ UNCHANGED <<chain, old, new, patch, sent, device>>
        /\ phase \in {"sort", "diff", "scan", "extend"} /\ phase' \in {"diff", "scan", "extend"}
    BY <1>2 DEF Sort, Diff, Scan, Write
  <2> QED BY <1>1, <2>1, DiffStepKeeps
<1>3. CASE Written
  BY <1>1, <1>3, WrittenChain
<1>4. CASE Compress
  <2>1. /\ phase = "compress" /\ phase' = "compress" /\ enc.r < enc.bufferend
        /\ enc' = L!EncodeStep(enc)
        /\ UNCHANGED <<chain, old, new, patch, sent, fed, lz, bs, failed, misread, sink>>
    BY <1>4 DEF Compress, device
  <2>2. patch \in Seq(Bytes) /\ EncAt(patch, enc) /\ sent = <<>> /\ Fresh
    BY <2>1 DEF ChainInv
  <2>3. EncAt(patch, enc')
    BY <2>1, <2>2, EncodeOn
  <2>4. Fresh'
    BY <2>1, <2>2 DEF Fresh
  <2> QED BY <1>1, <2>1, <2>2, <2>3, <2>4 DEF ChainInv
<1>5. CASE Flush
  BY <1>1, <1>5, FlushChain
<1>6. CASE Receive
  BY <1>1, <1>6, ReceiveChain
<1>7. CASE UNCHANGED vars
  <2>1. UNCHANGED <<chain, phase, old, new, patch, enc, sent, fed, lz, bs, failed, misread, sink>>
    BY <1>7 DEF vars, tool, device
  <2>2. (Suits => Suits') /\ (Packed => Packed') /\ (DeviceAt => DeviceAt')
    BY <2>1, SuitsKept, DeviceKept
  <2>3. (Fresh => Fresh') /\ (Received => Received')
    BY <2>1, <2>2 DEF Fresh, Received
  <2> QED BY <1>1, <2>1, <2>3 DEF ChainInv
<1> QED BY <1>2, <1>3, <1>4, <1>5, <1>6, <1>7 DEF Next

\* What the tokens of the file make, and all of it when everything was received.
LEMMA FileSoFar ==
  ASSUME Received, chain \in {"delta", "text"}, misread = "none"
  PROVE  \E n, T : /\ IsFront(T[n].out, patch) /\ T[n].out \in Seq(Nat)
                   /\ fed = Len(sent) => T[n].out = patch
                   /\ Handed(T[n].out, Now)
<1> DEFINE r == Now
           C == L!FileBits(sent)
<1>1. sent \in Seq(Bytes) /\ DevAt(C, BITS * fed, r)
  BY DEF Received, Suits, DeviceAt, AtByte
<1>2. PICK B : PaddedFile(patch, B, C)
  BY DEF Received, Packed
<1>3. Len(C) = BITS * Len(sent)
  BY <1>1, FileOfBits
<1>m. r.miss = "none"
  BY DEF Now
<1> HIDE DEF r, C
<1>4. PICK n, T : Tokens(C, n, T) /\ InToken(C, BITS * fed, r.lz, T[n]) /\ Handed(T[n].out, r)
  BY <1>1, <1>m DEF DevAt, DecodedTo, ReadyAt
<1>5. IsFront(T[n].out, patch) /\ \A z : InToken(C, Len(C), z, T[n]) => T[n].out = patch
  BY <1>2, <1>4, PaddedTokens
<1>6. fed = Len(sent) => T[n].out = patch
  BY <1>3, <1>4, <1>5
<1>7. T[n].out \in Seq(Nat)
  BY <1>4 DEF Tokens, Spot
<1> QED BY <1>4, <1>5, <1>6, <1>7 DEF r

LEMMA FrontIsPrefix ==
  ASSUME NEW s \in Seq(Nat), NEW t \in Seq(Nat), IsFront(s, t)
  PROVE  IsPrefix(s, t)
<1> DEFINE n == Len(s)
<1>1. n \in Nat /\ Len(t) \in Nat /\ n <= Len(t) /\ \A i \in 1..n : s[i] = t[i]
  BY DEF IsFront
<1>2. SubSeq(s, 1, n) = SubSeq(t, 1, n)
  <2>1. SubSeq(s, 1, n) = [i \in 1..n |-> s[i]]
    BY <1>1
  <2>2. SubSeq(t, 1, n) = [i \in 1..n |-> t[i]]
    BY <1>1
  <2> QED BY <1>1, <2>1, <2>2
<1> QED BY <1>1, <1>2 DEF IsPrefix

\* Both properties of the delivery, from the invariant.
LEMMA ChainDelivers == ChainInv => DeliversImage /\ FinishesAtEnd
<1> SUFFICES ASSUME ChainInv, phase = "receive", chain \in {"delta", "patch", "text"}, misread = "none"
             PROVE  /\ IsPrefix(sink, new) /\ (fed = Len(sent) => sink = new) /\ ~failed
                    /\ chain \in {"delta", "patch"} =>
                         /\ bs.at = "finish" => sink = new
                         /\ fed = Len(sent) => bs.at = "finish"
                         /\ chain = "patch" /\ bs.at = "finish" => fed = Len(sent)
  BY DEF DeliversImage, FinishesAtEnd, ChainInv
<1> DEFINE r == Now
<1>2. r.bs = bs /\ r.out = sink /\ r.err = failed /\ r.miss = "none"
  BY DEF Now
<1>1. Received /\ ~failed
  <2>1. Received
    BY DEF ChainInv
  <2>2. AtByte(fed, r)
    BY <2>1 DEF Received, DeviceAt
  <2> HIDE DEF r
  <2>3. ~r.err
    BY <1>2, <2>2 DEF AtByte, PatchAt, DevAt, ReadyAt
  <2> QED BY <1>2, <2>1, <2>3
<1>3. chain \in {"delta", "patch"} => Patching
  BY ImagesPatch
<1>4. CASE chain = "patch"
  <2>1. sent = patch /\ Patching
    BY <1>1, <1>4 DEF Received, Suits
  <2>2. BsAt(old, new, patch, fed, bs, sink)
    <3>1. PICK z : PatchAt(fed, z, r)
      BY <1>1, <1>4 DEF Received, DeviceAt, AtByte
    <3> HIDE DEF r
    <3> QED BY <1>2, <3>1 DEF PatchAt
  <2>3. /\ IsPrefix(sink, new) /\ (fed = Len(patch) <=> bs.at = "finish")
        /\ fed = Len(patch) => sink = new
    BY <2>1, <2>2, PatchedSoFar
  <2> QED BY <1>1, <1>4, <2>1, <2>3
<1>5. CASE chain \in {"delta", "text"}
  <2>1. PICK n, T : /\ IsFront(T[n].out, patch) /\ T[n].out \in Seq(Nat)
                    /\ fed = Len(sent) => T[n].out = patch
                    /\ Handed(T[n].out, r)
    BY <1>1, <1>5, FileSoFar
  <2> DEFINE got == T[n].out
  <2> HIDE DEF got, r
  <2>2. IsFront(got, patch) /\ got \in Seq(Nat) /\ (fed = Len(sent) => got = patch) /\ Handed(got, r)
    BY <2>1 DEF got
  <2>3. CASE chain = "delta"
    <3>1. BsAt(old, new, patch, Len(got), bs, sink)
      BY <1>2, <2>2, <2>3 DEF Handed
    <3>2. /\ IsPrefix(sink, new) /\ (Len(got) = Len(patch) <=> bs.at = "finish")
          /\ Len(got) = Len(patch) => sink = new
      BY <1>3, <2>3, <3>1, PatchedSoFar
    <3> QED BY <1>1, <2>2, <2>3, <3>2
  <2>4. CASE chain = "text"
    <3>1. sink = got /\ patch = new /\ new \in Seq(Bytes)
      BY <1>2, <2>2, <2>4 DEF Handed, ChainInv
    <3>2. new \in Seq(Nat)
      BY <3>1, BytesAreNat
    <3>3. IsPrefix(sink, new)
      BY <2>2, <3>1, <3>2, FrontIsPrefix
    <3> QED BY <1>1, <2>2, <2>4, <3>1, <3>3
  <2> QED BY <1>5, <2>3, <2>4
<1> QED BY <1>4, <1>5

LEMMA ChainStops == ChainInv => FailedReadStops
<1> SUFFICES ASSUME ChainInv, misread = "reported"
             PROVE  failed /\ bs.at # "finish" /\ IsPrefix(sink, new)
  BY DEF FailedReadStops
<1> DEFINE r == Now
<1>1. AtByte(fed, r)
  BY DEF ChainInv, Fresh, Received, DeviceAt
<1>2. r.bs = bs /\ r.out = sink /\ r.err = failed /\ r.miss = "reported"
  BY DEF Now
<1> HIDE DEF r
<1>3. Halted(r)
  BY <1>1 DEF AtByte, DevAt, ReadyAt
<1> QED BY <1>2, <1>3 DEF Halted

LEMMA ChainAgrees == ChainInv => StageIsTool
<1> SUFFICES ASSUME ChainInv PROVE StageIsTool
  OBVIOUS
<1>1. CASE phase = "receive"
  <2>1. Suits /\ DeviceAt /\ fed \in Nat /\ fed <= Len(sent)
    BY <1>1 DEF ChainInv, Received
  <2>2. fed \in 0..Len(sent)
    BY <2>1 DEF Suits
  <2> QED BY <2>1, <2>2, DeviceIsTool
<1>2. CASE phase # "receive"
  <2>1. sent = <<>> /\ Fresh /\ sent \in Seq(Bytes) /\ fed = 0
    BY <1>2 DEF ChainInv, Fresh
  <2>2. fed \in 0..Len(sent)
    BY <2>1
  <2>3. DeviceAt
    BY <2>1, FreshDevice
  <2>4. CASE chain = "text"
    <3>1. Suits
      BY <2>1, <2>4 DEF Suits, Feeds
    <3> QED BY <2>2, <2>3, <3>1, DeviceIsTool
  <2>5. chain # "code"
    BY <1>2 DEF ChainInv
  <2> QED BY <2>4, <2>5 DEF StageIsTool
<1> QED BY <1>1, <1>2

\* The decompressing stage of the device (lzss.c) hands on what the decoder of the
\* tool (pipeline_decompress_command) makes of the bytes received so far: for all
\* files, those that no encoder wrote included, at every byte and however they
\* are cut into chunks.
THEOREM StageMatchesTool == Spec => []StageIsTool
BY InitChain, NextChain, ChainAgrees, PTL DEF Spec

\* What pipeline_diff_command and pipeline_compress_command make, the stages of the
\* device turn back into the new image: for all images, files and chunks, without
\* an error, in order at every moment and complete at the end, as long as no read of
\* the old image fails.  Nothing is assumed of the matches that the tool finds.
THEOREM DeliveryCorrect == Spec => []DeliversImage
BY InitChain, NextChain, ChainDelivers, PTL DEF Spec

\* The patching stage (bspatch.c) reaches its end exactly with the last byte of the
\* patch, whether it comes from the network or out of the decompressor, as long as
\* no read of the old image fails.
THEOREM FinishCorrect == Spec => []FinishesAtEnd
BY InitChain, NextChain, ChainDelivers, PTL DEF Spec

\* A failing read of the old image that is not in a match of the decompressor goes back
\* to the caller as an error, and what was handed on until then is the beginning of
\* the new image: for all images and chunks, whichever reads fail and how often.
THEOREM FailedReadCorrect == Spec => []FailedReadStops
BY InitChain, NextChain, ChainStops, PTL DEF Spec

============================================================================
