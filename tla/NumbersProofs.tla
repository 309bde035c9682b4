---------------------------- MODULE NumbersProofs ----------------------------
(***************************************************************************)
(* The arithmetic under the audio path, for bytes, fractions, samples and  *)
(* correction steps of any width: what is written to the wire is read back *)
(* as it was, samples survive every byte order, the interpolation makes no *)
(* jump, and the drift controller does not hunt.                           *)
(***************************************************************************)
EXTENDS MCStreams, SequenceTheorems, WellFoundedInduction, TLAPS

(* A quotient, a remainder, and how to know them. *)
LEMMA DivMod == ASSUME NEW x \in Int, NEW d \in Nat \ {0}
                PROVE  /\ x \div d \in Int /\ x % d \in 0..d-1
                       /\ x = d * (x \div d) + (x % d)
BY SMT

LEMMA Quotient == ASSUME NEW x \in Int, NEW d \in Nat \ {0}, NEW q \in Int, NEW r \in 0..d-1,
                         x = d * q + r
                  PROVE  x \div d = q /\ x % d = r
BY SMT

LEMMA Sizes == ASSUME Num!NumbersAssumption
               PROVE  /\ Base \in Nat \ {0} /\ Base >= 4 /\ One \in Nat \ {0} /\ One >= 16
                      /\ Peak \in Nat \ {0} /\ One = Base * Base /\ One = 2 * Peak
                      /\ Deadband \in Nat /\ MaxStepAt \in Nat
<1>1. Base * Base >= 16
    BY SMT DEF Num!NumbersAssumption
<1> QED
    BY <1>1 DEF Num!NumbersAssumption

-----------------------------------------------------------------------------
(* The drift controller. *)
LEMMA SteadyHolds == Num!NumbersAssumption => Num!Steady
<1> SUFFICES ASSUME Num!NumbersAssumption,
                    NEW err \in -Deadband..Deadband, NEW drift \in -MaxStepAt..MaxStepAt
             PROVE  LET off == err + drift
                        then == off - Num!Chased(off, 0)
                    IN  /\ then \in -Deadband..Deadband
                        /\ Num!Correction(off) # 0 => then = Num!Saturated(off, -Deadband, Deadband)
    BY DEF Num!Steady
<1> DEFINE e == err + drift
<1>1. Deadband \in Nat /\ MaxStepAt \in Nat /\ e \in Int
      /\ e =< Deadband + MaxStepAt /\ -e =< Deadband + MaxStepAt
    BY Sizes
<1> HIDE DEF e
<1>2. Num!Correction(e) \in Int => Num!Chased(e, 0) = Num!Correction(e)
    <2>1. e - 0 = e
        BY <1>1
    <2> QED
        BY <2>1 DEF Num!Chased
<1>3. CASE e > Deadband
    <2>1. Num!Correction(e) = e - Deadband
        BY <1>1, <1>3 DEF Num!Correction, Num!Saturated
    <2>2. e - Num!Correction(e) = Deadband /\ Num!Saturated(e, -Deadband, Deadband) = Deadband
        BY <1>1, <1>3, <2>1 DEF Num!Saturated
    <2>3. Num!Chased(e, 0) = Num!Correction(e)
        BY <1>1, <1>2, <2>1
    <2> QED
        BY <1>1, <2>2, <2>3 DEF e
<1>4. CASE e < -Deadband
    <2>1. ~ (e > Deadband)
        BY <1>1, <1>4
    <2>2. Num!Correction(e) = -(-e - Deadband)
        BY <1>1, <1>4, <2>1 DEF Num!Correction, Num!Saturated
    <2>3. e - Num!Correction(e) = -Deadband /\ Num!Saturated(e, -Deadband, Deadband) = -Deadband
        BY <1>1, <1>4, <2>2 DEF Num!Saturated
    <2>4. Num!Chased(e, 0) = Num!Correction(e)
        BY <1>1, <1>2, <2>2
    <2> QED
        BY <1>1, <2>3, <2>4 DEF e
<1>5. CASE ~ (e > Deadband) /\ ~ (e < -Deadband)
    <2>1. Num!Correction(e) = 0
        BY <1>1, <1>5 DEF Num!Correction
    <2> QED
        BY <1>1, <1>2, <1>5, <2>1 DEF e
<1> QED
    BY <1>3, <1>4, <1>5

-----------------------------------------------------------------------------
(* The interpolation. *)
LEMMA Floors == ASSUME NEW x \in Int, NEW d \in Nat \ {0}
                PROVE  /\ (x * (d - 1)) \div d = x + ((-x) \div d)
                       /\ (x * 0) \div d = 0
<1>0. -x \in Int
    OBVIOUS
<1>1. /\ (-x) \div d \in Int /\ (-x) % d \in 0..d-1
      /\ -x = d * ((-x) \div d) + ((-x) % d)
    BY <1>0, DivMod
<1> DEFINE q == (-x) \div d
           r == (-x) % d
<1> HIDE DEF q, r
<1>2. q \in Int /\ r \in 0..d-1 /\ -x = d * q + r
    BY <1>1 DEF q, r
<1>3. x * (d - 1) \in Int /\ x * (d - 1) = d * (x + q) + r
    <2>1. x * (d - 1) = d * x - x /\ d * (x + q) = d * x + d * q /\ d * q \in Int /\ d * x \in Int
        BY <1>2
    <2> QED
        BY <1>2, <2>1
<1>4. (x * (d - 1)) \div d = x + q
    BY <1>2, <1>3, Quotient
<1>5. (x * 0) \div d = 0
    <2>1. x * 0 = d * 0 + 0 /\ x * 0 \in Int
        OBVIOUS
    <2> QED
        BY <2>1, Quotient
<1> QED
    BY <1>4, <1>5 DEF q

(* How much a frame before the next one the curve falls short of it: half the sum of
   three roundings. *)
LEMMA LastShift ==
    ASSUME Num!NumbersAssumption, NEW x \in Int
    PROVE  \E q \in Int : /\ Num!Shift(x, One - 1) = x - q
                          /\ x =< q * One /\ q * One =< x + One - 1
<1> DEFINE k == (-x) \div One
<1>1. One \in Nat \ {0} /\ -x \in Int
    BY Sizes
<1>2. k \in Int /\ (-x) % One \in 0..One-1 /\ -x = One * k + ((-x) % One)
    BY <1>1, DivMod
<1>3. Num!Shift(x, One - 1) = x + k
    BY <1>1, Floors DEF Num!Shift
<1> DEFINE r == (-x) % One
           q == -k
<1> HIDE DEF k, r
<1>4. q \in Int /\ q * One = -(One * k) /\ One * k \in Int /\ Num!Shift(x, One - 1) = x - q
    BY <1>1, <1>2, <1>3 DEF k
<1>5. r \in 0..One-1 /\ -x = One * k + r
    BY <1>2 DEF k, r
<1>6. x =< q * One /\ q * One =< x + One - 1
    BY <1>1, <1>4, <1>5
<1> QED
    BY <1>4, <1>6

(* Saturation moves a value towards any value in range, or leaves it. *)
LEMMA Saturates ==
    ASSUME NEW x \in Int, NEW y \in Int, NEW low \in Int, NEW high \in Int, low =< y, y =< high
    PROVE  LET s == Num!Saturated(x, low, high)
           IN  /\ s \in Int
               /\ s - y = x - y \/ (0 =< s - y /\ s - y =< x - y) \/ (x - y =< s - y /\ s - y =< 0)
               /\ low =< x /\ x =< high => s = x
BY DEF Num!Saturated

(* The seam at the next frame: three roundings, each of less than one, and what the
   curve's slope there is, half of y3 - y1. *)
LEMMA SeamBound ==
    ASSUME Num!NumbersAssumption,
           NEW y0 \in -Peak..(Peak - 1), NEW y1 \in -Peak..(Peak - 1),
           NEW y2 \in -Peak..(Peak - 1), NEW y3 \in -Peak..(Peak - 1)
    PROVE  LET seam == Num!Cubic(y0, y1, y2, y3, One - 1) - y2
           IN  /\ seam * 2 * One =< Num!Saturated(y1 - y3, 0, 2 * Peak) + 4 * One
               /\ -seam * 2 * One =< Num!Saturated(y3 - y1, 0, 2 * Peak) + 4 * One
<1> DEFINE c1 == y2 - y0
           c2 == 2*y0 - 5*y1 + 4*y2 - y3
           c3 == 3*(y1 - y2) + y3 - y0
<1>1. /\ Peak \in Nat /\ One = 2 * Peak /\ One >= 16 /\ One \in Nat
      /\ y0 \in Int /\ y1 \in Int /\ y2 \in Int /\ y3 \in Int
    BY Sizes
<1>2. c1 \in Int /\ c2 \in Int /\ c3 \in Int
    BY <1>1
<1>3. PICK q1 \in Int : /\ Num!Shift(c3, One - 1) = c3 - q1
                        /\ c3 =< q1 * One /\ q1 * One =< c3 + One - 1
    BY <1>2, LastShift
<1>4. PICK q2 \in Int : /\ Num!Shift(c2 + (c3 - q1), One - 1) = c2 + (c3 - q1) - q2
                        /\ c2 + (c3 - q1) =< q2 * One /\ q2 * One =< c2 + (c3 - q1) + One - 1
    <2>1. c2 + (c3 - q1) \in Int
        BY <1>2
    <2> QED
        BY <2>1, LastShift
<1>5. PICK q3 \in Int :
          /\ Num!Shift(c1 + (c2 + (c3 - q1) - q2), One - 1) = c1 + (c2 + (c3 - q1) - q2) - q3
          /\ c1 + (c2 + (c3 - q1) - q2) =< q3 * One
          /\ q3 * One =< c1 + (c2 + (c3 - q1) - q2) + One - 1
    <2>1. c1 + (c2 + (c3 - q1) - q2) \in Int
        BY <1>2
    <2> QED
        BY <2>1, LastShift
<1> DEFINE Q == q1 + q2 + q3
           k == (-Q) \div 2
<1>6. c1 + (c2 + (c3 - q1) - q2) - q3 = 2 * (y2 - y1) - Q /\ Q \in Int
    BY <1>1
<1>7. (2 * (y2 - y1) - Q) \div 2 = (y2 - y1) + k /\ k \in Int /\ 2 * k =< -Q /\ -Q =< 2 * k + 1
    <2>1. Q \in Int /\ y2 - y1 \in Int
        BY <1>1
    <2> HIDE DEF Q
    <2> QED
        BY <2>1
<1> DEFINE S == Num!Cubic(y0, y1, y2, y3, One - 1)
           raw == y1 + ((y2 - y1) + k)
<1>8. S = Num!Saturated(raw, -Peak, Peak - 1)
    <2> HIDE DEF k, Q
    <2>1. S = Num!Saturated(y1 + (Num!Shift(c1 + Num!Shift(c2 + Num!Shift(c3, One - 1), One - 1), One - 1) \div 2),
                            -Peak, Peak - 1)
        BY DEF Num!Cubic
    <2> HIDE DEF c1, c2, c3, S
    <2> QED
        BY <2>1, <1>3, <1>4, <1>5, <1>6, <1>7
<1>9. raw = y2 + k
    <2> HIDE DEF k
    <2> QED
        BY <1>1, <1>7
(* The roundings in units of One. *)
<1>10. /\ Q * One >= (y3 - y1) - (2 * q1 + q2)
       /\ Q * One =< (y3 - y1) - (2 * q1 + q2) + 3 * One - 3
    <2>1. Q * One = q1 * One + q2 * One + q3 * One
          /\ q1 * One \in Int /\ q2 * One \in Int /\ q3 * One \in Int
        BY <1>1
    <2>2. c3 + (c2 + c3) + (c1 + c2 + c3) = y3 - y1
        BY <1>1
    <2> HIDE DEF Q, c1, c2, c3
    <2> QED
        BY <1>1, <1>2, <1>3, <1>4, <1>5, <2>1, <2>2
<1>11. q1 \in -4..4 /\ q2 \in -4..3
    <2>1. c3 =< 4 * One - 4 /\ -c3 =< 4 * One - 4
        BY <1>1
    <2>2. q1 * One < 5 * One /\ q1 * One > -5 * One
        <3> HIDE DEF c3
        <3> QED
            BY <1>1, <1>2, <1>3, <2>1
    <2>3. q1 < 5 /\ q1 > -5
        BY <1>1, <2>2
    <2>4. c2 + c3 =< 2 * One - 2 /\ -(c2 + c3) =< 2 * One - 2
        BY <1>1
    <2>5. q2 * One < 4 * One /\ q2 * One > -5 * One
        <3> HIDE DEF c2, c3
        <3> QED
            BY <1>1, <1>2, <1>4, <2>3, <2>4
    <2>6. q2 < 4 /\ q2 > -5
        BY <1>1, <2>5
    <2> QED
        BY <2>3, <2>6
<1> DEFINE D == y3 - y1
           seam == S - y2
<1>12. D \in Int /\ D =< One - 1 /\ -D =< One - 1 /\ seam \in Int /\ k \in Int
       /\ (seam = k \/ (0 =< seam /\ seam =< k) \/ (k =< seam /\ seam =< 0))
    <2>1. raw \in Int /\ -Peak =< y2 /\ y2 =< Peak - 1 /\ raw - y2 = k
        <3> HIDE DEF k, raw
        <3> QED
            BY <1>1, <1>7, <1>9
    <2>2. S \in Int /\ (S - y2 = raw - y2 \/ (0 =< S - y2 /\ S - y2 =< raw - y2)
                                        \/ (raw - y2 =< S - y2 /\ S - y2 =< 0))
        <3>1. -Peak \in Int /\ Peak - 1 \in Int
            BY <1>1
        <3> HIDE DEF raw, S
        <3> QED
            BY <1>1, <1>8, <2>1, <3>1, Saturates
    <2>3. D \in Int /\ D =< One - 1 /\ -D =< One - 1
        BY <1>1
    <2> HIDE DEF S, raw, k, D
    <2> QED
        BY <1>1, <1>7, <2>1, <2>2, <2>3
<1> DEFINE T == Q * One
           E == 2 * q1 + q2
<1>13. T \in Int /\ E \in -12..11 /\ T >= D - E /\ T =< D - E + 3 * One - 3
    <2>1. T \in Int /\ E \in -12..11
        BY <1>1, <1>11
    <2> QED
        BY <1>10, <2>1
<1>14. D = y3 - y1 /\ -D = y1 - y3 /\ 2 * Peak = One
    BY <1>1
<1>15. Num!Saturated(D, 0, One) >= D /\ Num!Saturated(D, 0, One) >= 0
       /\ Num!Saturated(-D, 0, One) >= -D /\ Num!Saturated(-D, 0, One) >= 0
       /\ Num!Saturated(D, 0, One) \in Int /\ Num!Saturated(-D, 0, One) \in Int
    <2> HIDE DEF D
    <2> QED
        BY <1>1, <1>12 DEF Num!Saturated
<1> HIDE DEF D, S, seam, raw, k
<1>16. seam * 2 * One =< Num!Saturated(-D, 0, One) + 4 * One
    <2>1. CASE seam =< 0
        <3>1. seam * 2 * One =< 0
            BY <1>1, <1>12, <2>1
        <3> QED
            BY <1>1, <1>12, <1>15, <3>1
    <2>2. CASE seam > 0
        <3>1. seam =< k
            BY <1>12, <2>2
        <3>2. seam * 2 * One =< -T
            <4>1. 2 * seam =< -Q /\ Q \in Int
                BY <1>6, <1>7, <1>12, <3>1
            <4> HIDE DEF Q
            <4>2. (2 * seam) * One =< (-Q) * One
                BY <1>1, <1>12, <4>1
            <4> QED
                BY <1>1, <1>12, <4>1, <4>2
        <3> HIDE DEF T, E
        <3> QED
            BY <1>1, <1>12, <1>13, <1>15, <3>2
    <2> QED
        BY <1>12, <2>1, <2>2
<1>17. -seam * 2 * One =< Num!Saturated(D, 0, One) + 4 * One
    <2>1. Q < 5
        <3>1. T < 5 * One
            <4> HIDE DEF T, E
            <4> QED
                BY <1>1, <1>12, <1>13
        <3>2. Q \in Int
            BY <1>6
        <3> HIDE DEF Q
        <3> QED
            BY <1>1, <3>1, <3>2
    <2>2. -seam =< 2
        <3>1. Q \in Int
            BY <1>6
        <3> HIDE DEF Q
        <3> QED
            BY <1>7, <1>12, <2>1, <3>1
    <2>3. -seam * 2 * One =< 4 * One
        BY <1>1, <1>12, <2>2
    <2> QED
        BY <1>1, <1>12, <1>15, <2>3
<1> QED
    BY <1>14, <1>16, <1>17 DEF S, seam

(* A fraction of a difference lies between 0 and the difference. *)
LEMMA Fraction ==
    ASSUME NEW x \in Int, NEW d \in Nat \ {0}, NEW f \in 0..d-1
    PROVE  /\ (x * f) \div d \in Int
           /\ x >= 0 => 0 =< (x * f) \div d /\ (x * f) \div d =< x
           /\ x =< 0 => x =< (x * f) \div d /\ (x * f) \div d =< 0
           /\ ((2 * x * f) \div d) \div 2 = (x * f) \div d
<1>1. x * f \in Int /\ 2 * x * f = 2 * (x * f)
    OBVIOUS
<1> DEFINE p == x * f
           q == p \div d
           r == p % d
<1>2. x >= 0 => 0 =< p /\ p =< x * d
    OBVIOUS
<1>3. x =< 0 => x * d =< p /\ p =< 0
    OBVIOUS
<1>4. p \in Int
    BY <1>1
<1> HIDE DEF p
<1>5. q \in Int /\ r \in 0..d-1 /\ p = d * q + r
    BY <1>4, DivMod
<1> HIDE DEF q, r
<1>6. x >= 0 => 0 =< q /\ q =< x
    <2> SUFFICES ASSUME x >= 0 PROVE 0 =< q /\ q =< x
        OBVIOUS
    <2>1. d * q > d * (-1) /\ d * q =< d * x
        BY <1>2, <1>4, <1>5
    <2> QED
        BY <1>5, <2>1
<1>7. x =< 0 => x =< q /\ q =< 0
    <2> SUFFICES ASSUME x =< 0 PROVE x =< q /\ q =< 0
        OBVIOUS
    <2>1. d * q > d * (x - 1) /\ d * q =< d * 0
        BY <1>3, <1>4, <1>5
    <2> QED
        BY <1>5, <2>1
<1>8. ((2 * p) \div d) \div 2 = q
    <2>1. 2 * p = d * (2 * q) + 2 * r
        BY <1>4, <1>5
    <2>2. CASE 2 * r < d
        <3>1. (2 * p) \div d = 2 * q
            <4>1. 2 * r \in 0..d-1 /\ 2 * q \in Int /\ 2 * p \in Int
                BY <1>4, <1>5, <2>2
            <4> QED
                BY <2>1, <4>1, Quotient
        <3> QED
            BY <1>5, <3>1
    <2>3. CASE ~ (2 * r < d)
        <3>1. (2 * p) \div d = 2 * q + 1
            <4>1. 2 * r - d \in 0..d-1 /\ 2 * q + 1 \in Int /\ 2 * p \in Int
                BY <1>4, <1>5, <2>3
            <4>2. 2 * p = d * (2 * q + 1) + (2 * r - d)
                BY <1>5, <2>1
            <4> QED
                BY <4>1, <4>2, Quotient
        <3> QED
            BY <1>5, <3>1
    <2> QED
        BY <2>2, <2>3
<1> QED
    BY <1>1, <1>5, <1>6, <1>7, <1>8 DEF p, q

LEMMA SmoothHolds == Num!NumbersAssumption => Num!Smooth
<1> SUFFICES ASSUME Num!NumbersAssumption,
                    NEW y0 \in -Peak..(Peak - 1), NEW y1 \in -Peak..(Peak - 1),
                    NEW y2 \in -Peak..(Peak - 1), NEW y3 \in -Peak..(Peak - 1)
             PROVE  LET curve(f) == Num!Cubic(y0, y1, y2, y3, f)
                        seam == curve(One - 1) - y2
                    IN /\ curve(0) = y1
                       /\ seam * 2 * One =< Num!Saturated(y1 - y3, 0, 2 * Peak) + 4 * One
                       /\ -seam * 2 * One =< Num!Saturated(y3 - y1, 0, 2 * Peak) + 4 * One
                       /\ y1 - y0 = y2 - y1 /\ y2 - y1 = y3 - y2 =>
                            \A f \in 0..(One - 1) : curve(f) = y1 + Num!Shift(y2 - y1, f)
    BY DEF Num!Smooth
<1> DEFINE c1 == y2 - y0
           c2 == 2*y0 - 5*y1 + 4*y2 - y3
           c3 == 3*(y1 - y2) + y3 - y0
           C(f) == Num!Cubic(y0, y1, y2, y3, f)
<1>1. /\ Peak \in Nat /\ One \in Nat \ {0} /\ -Peak \in Int /\ Peak - 1 \in Int
      /\ y0 \in Int /\ y1 \in Int /\ y2 \in Int /\ y3 \in Int
      /\ c1 \in Int /\ c2 \in Int /\ c3 \in Int
    BY Sizes
<1>2. \A f : C(f) = Num!Saturated(
          y1 + (Num!Shift(c1 + Num!Shift(c2 + Num!Shift(c3, f), f), f) \div 2), -Peak, Peak - 1)
    BY DEF Num!Cubic
<1>3. \A x \in Int : Num!Shift(x, 0) = 0
    BY <1>1, Floors DEF Num!Shift
<1> DEFINE s == y1 - y0
<1>4. C(0) = y1
    <2> HIDE DEF c1, c2, c3, C
    <2>1. Num!Shift(c3, 0) = 0 /\ Num!Shift(c2 + 0, 0) = 0 /\ Num!Shift(c1 + 0, 0) = 0
        BY <1>1, <1>3
    <2>2. C(0) = Num!Saturated(y1 + (0 \div 2), -Peak, Peak - 1)
        BY <1>2, <2>1
    <2>3. y1 + (0 \div 2) = y1
        BY <1>1
    <2> QED
        BY <1>1, <2>2, <2>3 DEF Num!Saturated
<1>5. ASSUME y1 - y0 = y2 - y1, y2 - y1 = y3 - y2, NEW f \in 0..(One - 1)
      PROVE  C(f) = y1 + Num!Shift(y2 - y1, f)
    <2> DEFINE e == y2 - y1
    <2>1. e \in Int /\ c1 = 2 * e /\ c2 = 0 /\ c3 = 0 /\ y2 = y1 + e
        BY <1>1, <1>5
    <2>2. Num!Shift(0, f) = 0
        <3>1. 0 * f = One * 0 + 0 /\ 0 * f \in Int /\ 0 \in 0..One-1
            BY <1>1
        <3> QED
            BY <1>1, <3>1, Quotient DEF Num!Shift
    <2> HIDE DEF c1, c2, c3, C, e
    <2>3. C(f) = Num!Saturated(y1 + (Num!Shift(2 * e, f) \div 2), -Peak, Peak - 1)
        <3>1. 0 + 0 = 0 /\ 2 * e + 0 = 2 * e
            BY <2>1
        <3> QED
            BY <1>2, <2>1, <2>2, <3>1
    <2>4. /\ Num!Shift(2 * e, f) \div 2 = Num!Shift(e, f) /\ Num!Shift(e, f) \in Int
          /\ e >= 0 => 0 =< Num!Shift(e, f) /\ Num!Shift(e, f) =< e
          /\ e =< 0 => e =< Num!Shift(e, f) /\ Num!Shift(e, f) =< 0
        BY <1>1, <2>1, Fraction DEF Num!Shift
    <2> DEFINE m == Num!Shift(e, f)
    <2>5. C(f) = Num!Saturated(y1 + m, -Peak, Peak - 1)
        BY <2>3, <2>4
    <2>6. m \in Int /\ (e >= 0 => 0 =< m /\ m =< e) /\ (e =< 0 => e =< m /\ m =< 0)
        BY <2>4
    <2> HIDE DEF m
    <2>7. -Peak =< y1 + m /\ y1 + m =< Peak - 1
        BY <1>1, <2>1, <2>6
    <2>8. C(f) = y1 + m
        BY <1>1, <2>5, <2>6, <2>7 DEF Num!Saturated
    <2> QED
        BY <2>8 DEF m, e
<1>6. /\ (C(One - 1) - y2) * 2 * One =< Num!Saturated(y1 - y3, 0, 2 * Peak) + 4 * One
      /\ -(C(One - 1) - y2) * 2 * One =< Num!Saturated(y3 - y1, 0, 2 * Peak) + 4 * One
    BY SeamBound
<1> HIDE DEF C
<1> QED
    BY <1>4, <1>5, <1>6 DEF C

-----------------------------------------------------------------------------
(* Recursion over the places of a number. *)

(* Induction along a sequence. *)
LEMMA Along ==
    ASSUME NEW n \in Nat, NEW S, 0 \in S,
           \A m \in 0..n-1 : m \in S => m + 1 \in S
    PROVE  \A m \in 0..n : m \in S
<1> SUFFICES ASSUME NEW x \in 0..n, x \notin S
             PROVE  FALSE
    OBVIOUS
<1> DEFINE Bad == {m \in 0..n : m \notin S}
           R == OpToRel(<, Nat)
<1>1. IsWellFoundedOn(R, Nat)
    BY NatLessThanWellFounded
<1>2. Bad \subseteq Nat /\ Bad # {}
    OBVIOUS
<1>3. \A a, b \in Nat : a < b => <<a, b>> \in R
    BY DEF OpToRel
<1> HIDE DEF R
<1>4. PICK k \in Bad : \A m \in Bad : ~ (<<m, k>> \in R)
    BY <1>1, <1>2, WFMin
<1>5. k \in 1..n /\ k - 1 \in 0..n-1 /\ k - 1 < k /\ k \in Nat /\ k - 1 \in Nat
    BY <1>4
<1>6. k - 1 \in S
    <2>1. k - 1 \notin Bad
        BY <1>3, <1>4, <1>5
    <2> QED
        BY <1>5, <2>1
<1> QED
    BY <1>4, <1>5, <1>6

(* What is defined step by step is there. *)
Unrolls(p, n, c0, Op) == p[0] = c0 /\ \A i \in 1..n : p[i] = Op[i][p[i - 1]]

LEMMA Unrolled ==
    ASSUME NEW n \in Nat, NEW C, NEW c0 \in C, NEW Op \in [1..n -> [C -> C]]
    PROVE  \E p \in [0..n -> C] : Unrolls(p, n, c0, Op)
<1> DEFINE Ok(m, p) == p[0] = c0 /\ \A i \in 1..m : p[i] = Op[i][p[i - 1]]
           S == {m \in 0..n : \E p \in [0..m -> C] : Ok(m, p)}
<1>1. 0 \in S
    <2> DEFINE p == [i \in 0..0 |-> c0]
    <2>1. p \in [0..0 -> C] /\ Ok(0, p) /\ 0 \in 0..n
        OBVIOUS
    <2> HIDE DEF p, Ok
    <2> QED
        BY <2>1
<1>2. ASSUME NEW m \in 0..n-1, m \in S PROVE m + 1 \in S
    <2>1. PICK p \in [0..m -> C] : Ok(m, p)
        BY <1>2
    <2> DEFINE v == Op[m + 1][p[m]]
               q == [i \in 0..m+1 |-> IF i = m + 1 THEN v ELSE p[i]]
    <2>2. m + 1 \in 1..n /\ m \in 0..m /\ m \in Nat /\ m + 1 \in 0..n
        OBVIOUS
    <2>3. v \in C
        BY <2>2
    <2> HIDE DEF v
    <2>4. q \in [0..m+1 -> C]
        BY <2>2, <2>3
    <2>5. ASSUME NEW i \in 1..m+1 PROVE q[i] = Op[i][q[i - 1]]
        <3>1. CASE i = m + 1
            <4>1. q[i] = v /\ i - 1 = m /\ q[i - 1] = p[m]
                BY <2>2, <3>1
            <4> QED
                BY <3>1, <4>1 DEF v
        <3>2. CASE i # m + 1
            <4>1. i \in 1..m /\ q[i] = p[i] /\ q[i - 1] = p[i - 1]
                BY <2>2, <3>2
            <4> QED
                BY <2>1, <4>1
        <3> QED
            BY <3>1, <3>2
    <2>6. q[0] = c0
        BY <2>1, <2>2
    <2>7. Ok(m + 1, q)
        BY <2>5, <2>6
    <2> HIDE DEF q, Ok
    <2> QED
        BY <2>2, <2>4, <2>7
<1>3. \A m \in 0..n : m \in S
    <2> HIDE DEF S
    <2> QED
        BY ONLY <1>1, <1>2, n \in Nat, Along
<1>4. n \in S
    BY <1>3
<1> QED
    BY <1>4 DEF Unrolls

(* The powers of the base. *)
LEMMA PowerReads ==
    ASSUME NEW n \in Nat, Base \in Nat
    PROVE  \E f \in [0..n -> Nat] : /\ f[0] = 1 /\ \A i \in 1..n : f[i] = Base * f[i - 1]
                                    /\ Num!Power(n) = f[n]
<1> DEFINE Ok(p) == p = [i \in 0..n |-> IF i = 0 THEN 1 ELSE Base * p[i - 1]]
           f == CHOOSE p : Ok(p)
<1>1. PICK Op \in [1..n -> [Nat -> Nat]] : \A i \in 1..n, c \in Nat : Op[i][c] = Base * c
    <2> DEFINE O == [i \in 1..n |-> [c \in Nat |-> Base * c]]
    <2>1. O \in [1..n -> [Nat -> Nat]] /\ \A i \in 1..n, c \in Nat : O[i][c] = Base * c
        OBVIOUS
    <2> HIDE DEF O
    <2> QED
        BY <2>1
<1>2. PICK p \in [0..n -> Nat] : Unrolls(p, n, 1, Op)
    <2>1. 1 \in Nat
        OBVIOUS
    <2> QED
        BY <1>1, <2>1, Unrolled
<1>b. p[0] = 1 /\ \A i \in 1..n : p[i] = Op[i][p[i - 1]]
    BY <1>2 DEF Unrolls
<1>3. Ok(p)
    <2>1. \A i \in 0..n : p[i] = IF i = 0 THEN 1 ELSE Base * p[i - 1]
        <3> SUFFICES ASSUME NEW i \in 0..n PROVE p[i] = IF i = 0 THEN 1 ELSE Base * p[i - 1]
            OBVIOUS
        <3>1. i # 0 => i \in 1..n /\ i - 1 \in 0..n
            OBVIOUS
        <3> QED
            BY <1>1, <1>b, <3>1
    <2> QED
        BY <1>2, <2>1
<1>4. Ok(f)
    <2> HIDE DEF Ok
    <2> QED
        BY <1>3
<1>5. Num!Power(n) = f[n]
    BY DEF Num!Power
<1> HIDE DEF f
<1>6. f[0] = 1 /\ \A i \in 1..n : f[i] = Base * f[i - 1]
    <2>1. 0 \in 0..n /\ \A i \in 1..n : i \in 0..n /\ i # 0
        OBVIOUS
    <2> QED
        BY <1>4, <2>1
<1>7. \A i \in 0..n : f[i] \in Nat
    <2> DEFINE T == {i \in 0..n : f[i] \in Nat}
    <2>1. 0 \in T
        BY <1>6
    <2>2. \A m \in 0..n-1 : m \in T => m + 1 \in T
        <3> SUFFICES ASSUME NEW m \in 0..n-1, m \in T PROVE m + 1 \in T
            OBVIOUS
        <3>1. m + 1 \in 1..n /\ (m + 1) - 1 = m /\ m + 1 \in 0..n
            OBVIOUS
        <3>2. f[m + 1] = Base * f[m]
            BY <1>6, <3>1
        <3>3. f[m] \in Nat
            OBVIOUS
        <3>4. Base * f[m] \in Nat
            BY <3>3
        <3> QED
            BY <3>1, <3>2, <3>4
    <2> HIDE DEF T
    <2>3. \A m \in 0..n : m \in T
        BY ONLY <2>1, <2>2, n \in Nat, Along
    <2> QED
        BY <2>3 DEF T
<1>8. f \in [0..n -> Nat]
    BY <1>4, <1>7
<1> QED
    BY <1>5, <1>6, <1>8

LEMMA Powers ==
    ASSUME Num!NumbersAssumption
    PROVE  /\ Num!Power(0) = 1
           /\ \A n \in Nat : Num!Power(n) \in Nat \ {0}
           /\ \A n \in Nat : Num!Power(n + 1) = Base * Num!Power(n)
<1>0. Base \in Nat \ {0}
    BY Sizes
<1>1. Num!Power(0) = 1
    <2>1. PICK f \in [0..0 -> Nat] : f[0] = 1 /\ Num!Power(0) = f[0]
        BY <1>0, PowerReads
    <2> QED
        BY <2>1
<1>2. ASSUME NEW n \in Nat
      PROVE  Num!Power(n) \in Nat \ {0} /\ Num!Power(n + 1) = Base * Num!Power(n)
    <2>1. PICK f \in [0..n -> Nat] : /\ f[0] = 1 /\ \A i \in 1..n : f[i] = Base * f[i - 1]
                                     /\ Num!Power(n) = f[n]
        BY <1>0, PowerReads
    <2>2. PICK g \in [0..n+1 -> Nat] : /\ g[0] = 1 /\ \A i \in 1..n+1 : g[i] = Base * g[i - 1]
                                       /\ Num!Power(n + 1) = g[n + 1]
        <3>1. n + 1 \in Nat
            OBVIOUS
        <3> QED
            BY <1>0, <3>1, PowerReads
    <2> DEFINE T == {i \in 0..n : f[i] = g[i] /\ f[i] # 0}
    <2>3. 0 \in T
        BY <2>1, <2>2
    <2>4. \A m \in 0..n-1 : m \in T => m + 1 \in T
        <3> SUFFICES ASSUME NEW m \in 0..n-1, m \in T PROVE m + 1 \in T
            OBVIOUS
        <3>1. m + 1 \in 1..n /\ m + 1 \in 1..n+1 /\ (m + 1) - 1 = m /\ m + 1 \in 0..n /\ m \in 0..n
            OBVIOUS
        <3>2. f[m + 1] = Base * f[m] /\ g[m + 1] = Base * g[m]
            BY <2>1, <2>2, <3>1
        <3>3. f[m] \in Nat \ {0} /\ f[m] = g[m]
            BY <3>1
        <3>4. Base * f[m] # 0
            BY <1>0, <3>3
        <3> QED
            BY <3>1, <3>2, <3>3, <3>4
    <2>5. \A m \in 0..n : m \in T
        <3> HIDE DEF T
        <3> QED
            BY ONLY <2>3, <2>4, n \in Nat, Along
    <2>6. f[n] = g[n] /\ f[n] \in Nat \ {0}
        BY <2>5
    <2>7. g[n + 1] = Base * g[n]
        <3>1. n + 1 \in 1..n+1 /\ (n + 1) - 1 = n
            OBVIOUS
        <3> QED
            BY <2>2, <3>1
    <2> QED
        BY <2>1, <2>2, <2>6, <2>7
<1> QED
    BY <1>1, <1>2

-----------------------------------------------------------------------------
(* Numbers as bytes. *)

(* Dividing in two steps. *)
LEMMA DivDiv ==
    ASSUME NEW v \in Nat, NEW a \in Nat \ {0}, NEW b \in Nat \ {0}
    PROVE  (v \div a) \div b = v \div (b * a)
<1> DEFINE q == v \div a
           r == v % a
<1>1. q \in Int /\ r \in 0..a-1 /\ v = a * q + r
    BY DivMod
<1> HIDE DEF q, r
<1> DEFINE s == q \div b
           t == q % b
<1>2. s \in Int /\ t \in 0..b-1 /\ q = b * s + t
    BY <1>1, DivMod
<1> HIDE DEF s, t
<1>3. v = (b * a) * s + (a * t + r)
    <2>1. a * (b * s + t) = (b * a) * s + a * t
        BY <1>2
    <2> QED
        BY <1>1, <1>2, <2>1
<1>4. a * t + r \in 0..(b * a)-1
    <2>1. a * t \in Nat /\ a * t =< a * (b - 1)
        BY <1>2
    <2>2. a * (b - 1) = b * a - a /\ b * a \in Nat
        OBVIOUS
    <2> QED
        BY <1>1, <2>1, <2>2
<1>5. b * a \in Nat \ {0}
    OBVIOUS
<1>6. v \div (b * a) = s
    BY <1>2, <1>3, <1>4, <1>5, Quotient
<1> QED
    BY <1>6 DEF q, s

(* The quotient by the power of one place is that by the next's, and the digit. *)
LEMMA NextDigit ==
    ASSUME Num!NumbersAssumption, NEW v \in Nat, NEW k \in Nat
    PROVE  /\ v \div Num!Power(k + 1) \in Nat /\ v \div Num!Power(k) \in Nat
           /\ v \div Num!Power(k) =
                  (v \div Num!Power(k + 1)) * Base + ((v \div Num!Power(k)) % Base)
<1> DEFINE a == Num!Power(k)
           q == v \div a
<1>1. a \in Nat \ {0} /\ Num!Power(k + 1) = Base * a /\ Base \in Nat \ {0}
    BY Powers, Sizes
<1>2. (v \div a) \div Base = v \div Num!Power(k + 1)
    BY <1>1, DivDiv
<1> HIDE DEF a
<1>3. q \in Nat
    <2>1. v \div a \in Int /\ v % a \in 0..a-1 /\ v = a * (v \div a) + (v % a)
        <3>1. v \in Int
            OBVIOUS
        <3> QED
            BY <1>1, <3>1, DivMod
    <2> HIDE DEF q
    <2>2. q \in Int /\ a * q > a * (-1)
        BY <1>1, <2>1 DEF q
    <2> QED
        BY <1>1, <2>2
<1> HIDE DEF q
<1>4. q \div Base \in Int /\ q % Base \in 0..Base-1 /\ q = Base * (q \div Base) + (q % Base)
    <2>1. q \in Int
        BY <1>3
    <2> QED
        BY <1>1, <2>1, DivMod
<1>5. q \div Base \in Nat
    <2> DEFINE s == q \div Base
               t == q % Base
    <2>1. s \in Int /\ t \in 0..Base-1 /\ q = Base * s + t
        BY <1>4
    <2> HIDE DEF s, t
    <2>2. Base * s > Base * (-1)
        BY <1>1, <1>3, <2>1
    <2>3. s \in Nat
        BY <1>1, <2>1, <2>2
    <2> QED
        BY <2>3 DEF s
<1>6. q \div Base = v \div Num!Power(k + 1)
    BY <1>2 DEF q
<1>7. q = (q \div Base) * Base + (q % Base)
    BY <1>1, <1>4
<1> QED
    BY <1>3, <1>5, <1>6, <1>7 DEF q, a

(* Reading bytes, one by one. *)
LEMMA GetReads ==
    ASSUME Base \in Nat, NEW b \in Seq(Nat)
    PROVE  \E f \in [0..Len(b) -> Nat] :
               /\ f[0] = 0 /\ \A i \in 1..Len(b) : f[i] = f[i - 1] * Base + b[i]
               /\ Num!Get(b) = f[Len(b)]
<1> DEFINE n == Len(b)
           Ok(p) == p = [i \in 0..n |-> IF i = 0 THEN 0 ELSE p[i - 1] * Base + b[i]]
           f == CHOOSE p : Ok(p)
<1>0. n \in Nat /\ \A i \in 1..n : b[i] \in Nat
    OBVIOUS
<1>6. Num!Get(b) = f[n]
    BY DEF Num!Get
<1> HIDE DEF n, f
<1>1. PICK Op \in [1..n -> [Nat -> Nat]] : \A i \in 1..n, c \in Nat : Op[i][c] = c * Base + b[i]
    <2> DEFINE O == [i \in 1..n |-> [c \in Nat |-> c * Base + b[i]]]
    <2>1. O \in [1..n -> [Nat -> Nat]] /\ \A i \in 1..n, c \in Nat : O[i][c] = c * Base + b[i]
        <3>1. \A i \in 1..n, c \in Nat : c * Base + b[i] \in Nat
            BY <1>0
        <3> QED
            BY <3>1
    <2> HIDE DEF O
    <2> QED
        BY <2>1
<1>2. PICK p \in [0..n -> Nat] : Unrolls(p, n, 0, Op)
    <2>1. 0 \in Nat
        OBVIOUS
    <2> QED
        BY <1>0, <1>1, <2>1, Unrolled
<1>3. p[0] = 0 /\ \A i \in 1..n : p[i] = Op[i][p[i - 1]]
    BY <1>2 DEF Unrolls
<1>4. Ok(p)
    <2>1. \A i \in 0..n : p[i] = IF i = 0 THEN 0 ELSE p[i - 1] * Base + b[i]
        <3> SUFFICES ASSUME NEW i \in 0..n
                     PROVE  p[i] = IF i = 0 THEN 0 ELSE p[i - 1] * Base + b[i]
            OBVIOUS
        <3>1. i # 0 => i \in 1..n /\ i - 1 \in 0..n
            BY <1>0
        <3> QED
            BY <1>1, <1>3, <3>1
    <2> QED
        BY <1>2, <2>1
<1>5. Ok(f)
    <2> HIDE DEF Ok
    <2> QED
        BY <1>4 DEF f
<1>7. f[0] = 0 /\ \A i \in 1..n : f[i] = f[i - 1] * Base + b[i]
    <2>1. 0 \in 0..n /\ \A i \in 1..n : i \in 0..n /\ i # 0
        BY <1>0
    <2> QED
        BY <1>5, <2>1
<1>8. \A i \in 0..n : f[i] \in Nat
    <2> DEFINE T == {i \in 0..n : f[i] \in Nat}
    <2>1. 0 \in T
        BY <1>0, <1>7
    <2>2. \A m \in 0..n-1 : m \in T => m + 1 \in T
        <3> SUFFICES ASSUME NEW m \in 0..n-1, m \in T PROVE m + 1 \in T
            OBVIOUS
        <3>1. m + 1 \in 1..n /\ (m + 1) - 1 = m /\ m + 1 \in 0..n
            BY <1>0
        <3>2. f[m + 1] = f[m] * Base + b[m + 1]
            BY <1>7, <3>1
        <3>3. f[m] \in Nat /\ b[m + 1] \in Nat
            BY <1>0, <3>1
        <3>4. f[m] * Base \in Nat
            BY <3>3
        <3>5. f[m] * Base + b[m + 1] \in Nat
            BY <3>3, <3>4, SMTT(30)
        <3> QED
            BY <3>1, <3>2, <3>5
    <2> HIDE DEF T
    <2>3. \A m \in 0..n : m \in T
        BY ONLY <2>1, <2>2, <1>0, Along
    <2> QED
        BY <2>3 DEF T
<1>9. f \in [0..n -> Nat]
    BY <1>5, <1>8
<1> QED
    BY <1>6, <1>7, <1>9 DEF n

LEMMA PutType ==
    ASSUME Num!NumbersAssumption, NEW v \in Nat, NEW n \in Nat
    PROVE  /\ Num!Put(v, n) \in Seq(0..Base-1) /\ Num!Put(v, n) \in Seq(Nat)
           /\ Len(Num!Put(v, n)) = n
           /\ \A i \in 1..n : Num!Put(v, n)[i] = (v \div Num!Power(n - i)) % Base
<1> DEFINE d == [i \in 1..n |-> (v \div Num!Power(n - i)) % Base]
<1>1. Base \in Nat \ {0}
    BY Sizes
<1>2. \A i \in 1..n : (v \div Num!Power(n - i)) % Base \in 0..Base-1
    <2> SUFFICES ASSUME NEW i \in 1..n PROVE (v \div Num!Power(n - i)) % Base \in 0..Base-1
        OBVIOUS
    <2>1. n - i \in Nat
        OBVIOUS
    <2>2. v \div Num!Power(n - i) \in Nat
        BY <2>1, NextDigit
    <2>3. v \div Num!Power(n - i) \in Int
        BY <2>2
    <2> QED
        BY <1>1, <2>3, DivMod
<1>3. Num!Put(v, n) = d
    BY DEF Num!Put
<1>4. d \in Seq(0..Base-1) /\ Len(d) = n
    BY <1>2
<1>5. d \in Seq(Nat)
    BY <1>1, <1>2
<1> QED
    BY <1>3, <1>4, <1>5

(* What is put in n bytes is read back, if it fits. *)
LEMMA PutGet ==
    ASSUME Num!NumbersAssumption, NEW n \in Nat, NEW v \in 0..(Num!Power(n) - 1)
    PROVE  Num!Get(Num!Put(v, n)) = v
<1> DEFINE b == Num!Put(v, n)
<1>1. Num!Power(n) \in Nat \ {0} /\ v \in Nat /\ Base \in Nat \ {0}
    BY Powers, Sizes
<1>2. b \in Seq(Nat) /\ Len(b) = n /\ \A i \in 1..n : b[i] = (v \div Num!Power(n - i)) % Base
    BY <1>1, PutType
<1> HIDE DEF b
<1>3. PICK f \in [0..n -> Nat] : /\ f[0] = 0 /\ \A i \in 1..n : f[i] = f[i - 1] * Base + b[i]
                                 /\ Num!Get(b) = f[n]
    BY <1>1, <1>2, GetReads
<1> DEFINE T == {i \in 0..n : f[i] = v \div Num!Power(n - i)}
<1>4. 0 \in T
    <2>1. v \div Num!Power(n) = 0
        <3>1. v = Num!Power(n) * 0 + v /\ 0 \in Int /\ v \in Int
            BY <1>1
        <3> QED
            BY <1>1, <3>1, Quotient
    <2>2. n - 0 = n /\ 0 \in 0..n
        OBVIOUS
    <2> QED
        BY <1>3, <2>1, <2>2
<1>5. ASSUME NEW m \in 0..n-1, m \in T PROVE m + 1 \in T
    <2> DEFINE k == n - (m + 1)
    <2>1. k \in Nat /\ n - m = k + 1 /\ m + 1 \in 1..n /\ (m + 1) - 1 = m
        OBVIOUS
    <2>2. f[m] = v \div Num!Power(k + 1)
        BY <1>5, <2>1
    <2>3. f[m + 1] = f[m] * Base + b[m + 1]
        BY <1>3, <2>1
    <2>4. b[m + 1] = (v \div Num!Power(k)) % Base
        BY <1>2, <2>1
    <2> HIDE DEF k
    <2>5. v \div Num!Power(k) = (v \div Num!Power(k + 1)) * Base + ((v \div Num!Power(k)) % Base)
        BY <1>1, <2>1, NextDigit
    <2>6. f[m + 1] = v \div Num!Power(k)
        BY <2>2, <2>3, <2>4, <2>5
    <2> QED
        BY <2>6, <2>1 DEF k
<1>6. \A m \in 0..n : m \in T
    <2> HIDE DEF T
    <2> QED
        BY ONLY <1>4, <1>5, n \in Nat, Along
<1>7. f[n] = v \div Num!Power(0)
    <2>1. n \in T /\ n - n = 0
        BY <1>6
    <2> QED
        BY <2>1
<1>8. v \div 1 = v
    BY <1>1
<1> QED
    BY <1>3, <1>7, <1>8, Powers DEF b

LEMMA PowerSum ==
    ASSUME Num!NumbersAssumption, NEW m \in Nat, NEW n \in Nat
    PROVE  Num!Power(n + m) = Num!Power(n) * Num!Power(m)
<1> DEFINE T == {j \in 0..n : Num!Power(j + m) = Num!Power(j) * Num!Power(m)}
<1>0. Base \in Nat /\ Num!Power(0) = 1 /\ \A k \in Nat : Num!Power(k) \in Nat
    BY Powers, Sizes
<1>1. 0 \in T
    <2>1. 0 + m = m /\ Num!Power(m) \in Nat /\ 0 \in 0..n
        BY <1>0
    <2> QED
        BY <1>0, <2>1
<1>2. ASSUME NEW j \in 0..n-1, j \in T PROVE j + 1 \in T
    <2>1. j \in Nat /\ j + m \in Nat /\ (j + 1) + m = (j + m) + 1 /\ j + 1 \in 0..n
        OBVIOUS
    <2>2. Num!Power((j + m) + 1) = Base * Num!Power(j + m) /\ Num!Power(j + 1) = Base * Num!Power(j)
        BY <2>1, Powers
    <2>3. Num!Power(j + m) = Num!Power(j) * Num!Power(m)
        BY <1>2
    <2>4. Num!Power(j) \in Nat /\ Num!Power(m) \in Nat
        BY <1>0, <2>1
    <2>5. Base * (Num!Power(j) * Num!Power(m)) = (Base * Num!Power(j)) * Num!Power(m)
        BY <1>0, <2>4
    <2> QED
        BY <2>1, <2>2, <2>3, <2>5
<1>3. \A j \in 0..n : j \in T
    <2> HIDE DEF T
    <2> QED
        BY ONLY <1>1, <1>2, n \in Nat, Along
<1>4. n \in T
    BY <1>3
<1> QED
    BY <1>4

(* A digit below m is one of the remainder by the power of m. *)
LEMMA LowDigit ==
    ASSUME Num!NumbersAssumption, NEW v \in Nat, NEW m \in Nat, NEW k \in 0..m-1
    PROVE  ((v % Num!Power(m)) \div Num!Power(k)) % Base = (v \div Num!Power(k)) % Base
<1> DEFINE p == Num!Power(m)
           a == Num!Power(k)
           c == Num!Power(m - k - 1)
           q == v \div p
           r == v % p
           s == r \div a
           t == r % a
           x == s \div Base
           y == s % Base
<1>1. p \in Nat \ {0} /\ a \in Nat \ {0} /\ c \in Nat \ {0} /\ Base \in Nat \ {0} /\ v \in Int
    BY Powers, Sizes
<1>2. p = a * (Base * c)
    <2>1. k \in Nat /\ m - k \in Nat /\ m - k - 1 \in Nat /\ (m - k - 1) + 1 = m - k /\ k + (m - k) = m
        OBVIOUS
    <2>2. Num!Power(k + (m - k)) = a * Num!Power(m - k)
        BY <2>1, PowerSum
    <2>3. Num!Power(m - k) = Base * c
        BY <2>1, Powers
    <2> QED
        BY <2>1, <2>2, <2>3
<1> HIDE DEF p, a, c
<1>3. q \in Int /\ r \in 0..p-1 /\ v = p * q + r
    BY <1>1, DivMod
<1> HIDE DEF q, r
<1>r. r \in Int
    BY <1>1, <1>3
<1>4. s \in Int /\ t \in 0..a-1 /\ r = a * s + t
    BY <1>1, <1>r, DivMod
<1> HIDE DEF s, t
<1>5. x \in Int /\ y \in 0..Base-1 /\ s = Base * x + y
    BY <1>1, <1>4, DivMod
<1> HIDE DEF x, y
<1> DEFINE z == Base * (c * q) + s
<1>6. v = a * z + t /\ z \in Int
    <2>1. (a * (Base * c)) * q = a * (Base * (c * q)) /\ Base * (c * q) \in Int
        BY <1>1, <1>3
    <2>2. a * (Base * (c * q) + s) = a * (Base * (c * q)) + a * s
        BY <1>1, <1>4, <2>1
    <2> QED
        BY <1>1, <1>2, <1>3, <1>4, <2>1, <2>2
<1>7. v \div a = z
    <2> HIDE DEF z
    <2> QED
        BY <1>1, <1>4, <1>6, Quotient
<1>8. z = Base * (c * q + x) + y /\ c * q + x \in Int
    <2>1. c * q \in Int
        BY <1>1, <1>3
    <2> QED
        BY <1>1, <1>5, <2>1
<1>9. z % Base = y
    <2> HIDE DEF z
    <2> QED
        BY <1>1, <1>5, <1>6, <1>8, Quotient
<1>10. s % Base = y
    BY DEF y
<1> QED
    BY <1>7, <1>9, <1>10 DEF s, r, p, a

(* A number in n and m bytes is the number in n + m bytes. *)
LEMMA Halves ==
    ASSUME Num!NumbersAssumption, NEW v \in Nat, NEW n \in Nat, NEW m \in Nat
    PROVE  /\ v \div Num!Power(m) \in Nat /\ v % Num!Power(m) \in 0..(Num!Power(m) - 1)
           /\ Num!Put(v \div Num!Power(m), n) \o Num!Put(v % Num!Power(m), m) = Num!Put(v, n + m)
<1> DEFINE p == Num!Power(m)
           hi == v \div p
           lo == v % p
           a == Num!Put(hi, n)
           b == Num!Put(lo, m)
           w == Num!Put(v, n + m)
<1>1. p \in Nat \ {0}
    BY Powers
<1>2. hi \in Nat /\ lo \in 0..p-1
    <2>1. m + 1 \in Nat /\ v \in Int
        OBVIOUS
    <2>2. hi \in Nat
        BY NextDigit
    <2> HIDE DEF p
    <2> QED
        BY <1>1, <2>1, <2>2, DivMod
<1>3. /\ a \in Seq(Nat) /\ Len(a) = n
      /\ \A i \in 1..n : a[i] = (hi \div Num!Power(n - i)) % Base
    <2> HIDE DEF hi
    <2> QED
        BY <1>2, PutType
<1>4. /\ b \in Seq(Nat) /\ Len(b) = m
      /\ \A i \in 1..m : b[i] = (lo \div Num!Power(m - i)) % Base
    <2>1. lo \in Nat
        BY <1>1, <1>2
    <2> HIDE DEF lo
    <2> QED
        BY <2>1, PutType
<1>5. /\ w \in Seq(Nat) /\ Len(w) = n + m
      /\ \A i \in 1..(n + m) : w[i] = (v \div Num!Power(n + m - i)) % Base
    <2>1. n + m \in Nat
        OBVIOUS
    <2> QED
        BY <2>1, PutType
<1>6. ASSUME NEW i \in 1..(n + m) PROVE (a \o b)[i] = w[i]
    <2>1. CASE i =< n
        <3>1. i \in 1..n /\ n - i \in Nat /\ (n - i) + m = n + m - i
            BY <2>1
        <3>2. hi \div Num!Power(n - i) = v \div (Num!Power(n - i) * p)
            <4>1. Num!Power(n - i) \in Nat \ {0}
                BY <3>1, Powers
            <4> HIDE DEF p
            <4> QED
                BY <1>1, <4>1, DivDiv
        <3>3. Num!Power(n - i) * p = Num!Power(n + m - i)
            BY <3>1, PowerSum
        <3>4. a[i] = w[i]
            <4> HIDE DEF hi, p, a, w
            <4> QED
                BY <1>3, <1>5, <3>1, <3>2, <3>3
        <3>5. (a \o b)[i] = a[i]
            <4> HIDE DEF a, b
            <4> QED
                BY <1>3, <1>4, <3>1
        <3> QED
            BY <3>4, <3>5
    <2>2. CASE ~ (i =< n)
        <3> DEFINE j == i - n
                   k == m - j
        <3>1. j \in 1..m /\ k \in 0..m-1 /\ n + m - i = k
            BY <2>2
        <3>2. (lo \div Num!Power(k)) % Base = (v \div Num!Power(k)) % Base
            <4> HIDE DEF j, k
            <4> QED
                BY <3>1, LowDigit
        <3>3. b[j] = w[i]
            <4> HIDE DEF lo, p, b, w, hi, a
            <4> QED
                BY <1>4, <1>5, <3>1, <3>2
        <3>4. (a \o b)[i] = b[j]
            <4> HIDE DEF a, b
            <4> QED
                BY <1>3, <1>4, <2>2
        <3> QED
            BY <3>3, <3>4
    <2> QED
        BY <2>1, <2>2
<1>7. a \o b = w
    <2> HIDE DEF a, b, w
    <2>1. a \o b \in Seq(Nat) /\ Len(a \o b) = n + m
        BY <1>3, <1>4
    <2>2. \A i \in 1..Len(a \o b) : (a \o b)[i] = w[i]
        BY <1>6, <2>1
    <2>3. w \in Seq(Nat) /\ Len(a \o b) = Len(w)
        BY <1>5, <2>1
    <2> QED
        BY ONLY <2>1, <2>2, <2>3, SeqEqual
<1> QED
    BY <1>2, <1>7

(* A part of a sequence is what stands there. *)
LEMMA PartIs ==
    ASSUME NEW s \in Seq(Nat), NEW t \in Seq(Nat), NEW m \in Nat, m + Len(t) =< Len(s),
           \A i \in 1..Len(t) : s[m + i] = t[i]
    PROVE  SubSeq(s, m + 1, m + Len(t)) = t
<1> DEFINE u == SubSeq(s, m + 1, m + Len(t))
<1>1. Len(t) \in Nat /\ Len(s) \in Nat
    OBVIOUS
<1>2. u \in Seq(Nat) /\ Len(u) = Len(t)
      /\ \A i \in 1..Len(t) : u[i] = s[m + i]
    <2> DEFINE a == m + 1
               b == m + Len(t)
    <2>1. a \in Int /\ b \in Int /\ \A i \in a..b : s[i] \in Nat
        BY <1>1
    <2>2. (IF a =< b THEN b - a + 1 ELSE 0) = Len(t) /\ b - a + 1 = Len(t)
        BY <1>1
    <2>3. \A i \in 1..Len(t) : a + i - 1 = m + i
        BY <1>1
    <2> HIDE DEF a, b
    <2>4. /\ SubSeq(s, a, b) \in Seq(Nat) /\ Len(SubSeq(s, a, b)) = IF a =< b THEN b - a + 1 ELSE 0
          /\ \A i \in 1..(b - a + 1) : SubSeq(s, a, b)[i] = s[a + i - 1]
        BY ONLY <2>1, SubSeqProperties
    <2>5. u = SubSeq(s, a, b)
        BY DEF a, b
    <2> HIDE DEF u
    <2> QED
        BY ONLY <2>2, <2>3, <2>4, <2>5
<1> HIDE DEF u
<1>3. u = t
    BY <1>2, SeqEqual
<1> QED
    BY <1>3 DEF u

LEMMA Parts ==
    ASSUME NEW a \in Seq(Nat), NEW b \in Seq(Nat)
    PROVE  SubSeq(a \o b, 1, Len(a)) = a /\ SubSeq(a \o b, Len(a) + 1, Len(a) + Len(b)) = b
<1>1. Len(a) \in Nat /\ Len(b) \in Nat /\ 0 \in Nat
    OBVIOUS
<1>2. a \o b \in Seq(Nat) /\ Len(a \o b) = Len(a) + Len(b)
    OBVIOUS
<1>3. \A i \in 1..Len(a) : (a \o b)[0 + i] = a[i]
    OBVIOUS
<1>4. \A i \in 1..Len(b) : (a \o b)[Len(a) + i] = b[i]
    OBVIOUS
<1>5. 0 + Len(a) =< Len(a \o b) /\ Len(a) + Len(b) =< Len(a \o b)
    BY <1>1, <1>2
<1>6. 0 + 1 = 1 /\ 0 + Len(a) = Len(a)
    BY <1>1
<1>7. SubSeq(a \o b, 0 + 1, 0 + Len(a)) = a
    BY ONLY <1>1, <1>2, <1>3, <1>5, a \in Seq(Nat), PartIs
<1>8. SubSeq(a \o b, Len(a) + 1, Len(a) + Len(b)) = b
    BY ONLY <1>1, <1>2, <1>4, <1>5, b \in Seq(Nat), PartIs
<1> QED
    BY <1>6, <1>7, <1>8

LEMMA WideKept ==
    ASSUME Num!NumbersAssumption, NEW v \in 0..(Num!Power(8) - 1)
    PROVE  Num!Get64(Num!Put64(v)) = v /\ Num!Get(Num!Put64(v)) = v
<1> DEFINE p == Num!Power(4)
           hi == v \div p
           lo == v % p
           a == Num!Put(hi, 4)
           b == Num!Put(lo, 4)
<1>1. p \in Nat \ {0} /\ Num!Power(8) = p * p /\ v \in Nat /\ v \in Int
    <2>1. 4 \in Nat /\ 8 \in Nat /\ 4 + 4 = 8
        OBVIOUS
    <2>2. Num!Power(4 + 4) = p * p
        BY <2>1, PowerSum
    <2>3. Num!Power(8) \in Nat
        BY <2>1, Powers
    <2> QED
        BY <2>1, <2>2, <2>3, Powers
<1>2. hi \in Nat /\ lo \in 0..p-1 /\ Num!Put64(v) = a \o b /\ a \o b = Num!Put(v, 8)
    <2>1. 4 \in Nat /\ 4 + 4 = 8
        OBVIOUS
    <2>2. hi \in Nat /\ lo \in 0..p-1 /\ a \o b = Num!Put(v, 4 + 4)
        BY <1>1, <2>1, Halves
    <2>3. Num!Put64(v) = a \o b
        BY DEF Num!Put64
    <2> QED
        BY <2>1, <2>2, <2>3
<1>3. v = p * hi + lo
    <2> HIDE DEF p
    <2> QED
        BY <1>1, DivMod
<1> HIDE DEF p, hi, lo
<1>4. hi \in 0..p-1
    <2>1. p * hi \in Int /\ p * p \in Int /\ v < p * p
        BY <1>1, <1>2
    <2>2. p * hi < p * p
        BY <1>2, <1>3, <2>1
    <2> QED
        BY <1>1, <1>2, <2>2
<1>5. a \in Seq(Nat) /\ Len(a) = 4 /\ b \in Seq(Nat) /\ Len(b) = 4
    <2>1. 4 \in Nat /\ lo \in Nat
        BY <1>1, <1>2
    <2> QED
        BY <1>2, <2>1, PutType
<1>6. Num!Get(a) = hi /\ Num!Get(b) = lo
    <2>1. 4 \in Nat
        OBVIOUS
    <2> QED
        BY <1>2, <1>4, <2>1, PutGet DEF p
<1>7. Num!Get(Num!Put(v, 8)) = v
    <2>1. 8 \in Nat
        OBVIOUS
    <2> QED
        BY <2>1, PutGet
<1> HIDE DEF a, b
<1>8. SubSeq(a \o b, 1, 4) = a /\ SubSeq(a \o b, 5, 8) = b
    <2>1. SubSeq(a \o b, 1, Len(a)) = a /\ SubSeq(a \o b, Len(a) + 1, Len(a) + Len(b)) = b
        BY ONLY <1>5, Parts
    <2>2. 4 + 1 = 5 /\ 4 + 4 = 8
        OBVIOUS
    <2> QED
        BY <1>5, <2>1, <2>2
<1>9. Num!Get64(a \o b) = hi * p + lo
    BY <1>6, <1>8 DEF Num!Get64, p
<1> QED
    BY <1>1, <1>2, <1>3, <1>7, <1>9

(* Two readings differ in their digits. *)
LEMMA GetTells ==
    ASSUME Num!NumbersAssumption, NEW u \in Seq(0..Base-1), NEW t \in Seq(0..Base-1),
           Len(u) = Len(t), Num!Get(u) = Num!Get(t)
    PROVE  \A i \in 1..Len(u) : u[i] = t[i]
<1> DEFINE n == Len(u)
<1>1. Base \in Nat \ {0} /\ n \in Nat /\ u \in Seq(Nat) /\ t \in Seq(Nat)
      /\ \A i \in 1..n : u[i] \in 0..Base-1 /\ t[i] \in 0..Base-1
    <2>1. Base \in Nat \ {0} /\ 0..Base-1 \subseteq Nat
        BY Sizes
    <2>2. u \in Seq(Nat) /\ t \in Seq(Nat)
        BY ONLY <2>1, SeqMonotonic, u \in Seq(0..Base-1), t \in Seq(0..Base-1)
    <2>3. Len(t) = n /\ n \in Nat
        OBVIOUS
    <2> QED
        BY <2>1, <2>2, <2>3
<1>2. PICK f \in [0..n -> Nat] : /\ f[0] = 0 /\ \A i \in 1..n : f[i] = f[i - 1] * Base + u[i]
                                 /\ Num!Get(u) = f[n]
    BY <1>1, GetReads
<1>3. PICK g \in [0..n -> Nat] : /\ g[0] = 0 /\ \A i \in 1..n : g[i] = g[i - 1] * Base + t[i]
                                 /\ Num!Get(t) = g[n]
    BY <1>1, GetReads
<1> HIDE DEF n
<1>4. ASSUME NEW i \in 1..n, f[i] = g[i] PROVE f[i - 1] = g[i - 1] /\ u[i] = t[i]
    <2> DEFINE a == f[i - 1]
               b == g[i - 1]
               d == u[i]
               e == t[i]
               x == f[i]
    <2>1. a \in Nat /\ b \in Nat /\ x \in Nat
        <3>1. i \in 0..n /\ i - 1 \in 0..n
            BY <1>1
        <3> QED
            BY <3>1
    <2>2. d \in 0..Base-1 /\ e \in 0..Base-1
        BY <1>1
    <2>3. x = a * Base + d /\ x = b * Base + e
        BY <1>2, <1>3, <1>4
    <2> HIDE DEF a, b, d, e, x
    <2>4. a \in Int /\ b \in Int /\ x \in Int /\ x = Base * a + d /\ x = Base * b + e
        BY <1>1, <2>1, <2>2, <2>3
    <2>5. x \div Base = a /\ x % Base = d
        BY ONLY <1>1, <2>2, <2>4, Quotient
    <2>6. x \div Base = b /\ x % Base = e
        BY ONLY <1>1, <2>2, <2>4, Quotient
    <2>7. a = b /\ d = e
        BY <2>5, <2>6
    <2> QED
        BY <2>7 DEF a, b, d, e
<1> DEFINE T == {j \in 0..n : f[n - j] = g[n - j]}
<1>5. 0 \in T
    <2>1. n - 0 = n /\ 0 \in 0..n
        BY <1>1
    <2> QED
        BY <1>2, <1>3, <2>1
<1>6. ASSUME NEW m \in 0..n-1, m \in T PROVE m + 1 \in T
    <2>1. n - m \in 1..n /\ (n - m) - 1 = n - (m + 1) /\ m + 1 \in 0..n
        BY <1>1
    <2>2. f[n - m] = g[n - m]
        BY <1>6
    <2> QED
        BY <1>4, <2>1, <2>2
<1>7. \A m \in 0..n : m \in T
    <2> HIDE DEF T
    <2> QED
        BY ONLY <1>1, <1>5, <1>6, Along
<1>8. ASSUME NEW i \in 1..n PROVE u[i] = t[i]
    <2>1. n - i \in 0..n /\ n - (n - i) = i
        BY <1>1
    <2>2. n - i \in T
        BY <1>7, <2>1
    <2>3. f[i] = g[i]
        BY <2>1, <2>2
    <2> QED
        BY <1>4, <2>3
<1> QED
    BY <1>8 DEF n

(* x is what a and b are one after the other, of n and m bytes. *)
Joins(x, a, b, n, m) == /\ x \in Seq(Nat) /\ Len(x) = n + m
                        /\ (\A i \in 1..n : x[i] = a[i]) /\ (\A i \in 1..m : x[n + i] = b[i])

LEMMA Abutted ==
    \A a, b \in Seq(Nat), n, m \in Nat : \A x :
        Len(a) = n /\ Len(b) = m /\ x = a \o b => Joins(x, a, b, n, m)
<1> SUFFICES ASSUME NEW a \in Seq(Nat), NEW b \in Seq(Nat), NEW n \in Nat, NEW m \in Nat,
                    Len(a) = n, Len(b) = m
             PROVE  Joins(a \o b, a, b, n, m)
    BY Zenon
<1>1. a \o b \in Seq(Nat)
    OBVIOUS
<1>2. Len(a \o b) = n + m
    BY SMTT(30)
<1>3. \A i \in 1..n : (a \o b)[i] = a[i]
    OBVIOUS
<1>4. \A i \in 1..m : (a \o b)[n + i] = b[i]
    OBVIOUS
<1> QED
    BY <1>1, <1>2, <1>3, <1>4 DEF Joins

(* The parts of a header, byte by byte. *)
Laid(h, a, b, d, e) == /\ h \in Seq(Nat) /\ Len(h) = 16
                       /\ (\A i \in 1..4 : h[i] = a[i]) /\ h[5] = b[1] /\ h[6] = b[2]
                       /\ (\A i \in 1..4 : h[8 + i] = d[i]) /\ (\A i \in 1..4 : h[12 + i] = e[i])

LEMMA HdrBytes ==
    ASSUME NEW a \in Seq(Nat), NEW b \in Seq(Nat), NEW c \in Seq(Nat), NEW d \in Seq(Nat),
           NEW e \in Seq(Nat), Len(a) = 4, Len(b) = 2, Len(c) = 2, Len(d) = 4, Len(e) = 4,
           NEW h, h = a \o b \o c \o d \o e
    PROVE  Laid(h, a, b, d, e)
<1>0. /\ 4 \in Nat /\ 2 \in Nat /\ 6 \in Nat /\ 8 \in Nat /\ 12 \in Nat
      /\ 4 + 2 = 6 /\ 6 + 2 = 8 /\ 8 + 4 = 12 /\ 12 + 4 = 16
    OBVIOUS
<1> DEFINE X == a \o b
           Y == X \o c
           Z == Y \o d
<1>h. h = Z \o e
    OBVIOUS
<1>z. Z = Y \o d
    OBVIOUS
<1> HIDE DEF Z
<1>y. Y = X \o c
    OBVIOUS
<1> HIDE DEF Y
<1>x. X = a \o b
    OBVIOUS
<1> HIDE DEF X
<1>a. Joins(X, a, b, 4, 2)
    BY ONLY <1>0, <1>x, a \in Seq(Nat), b \in Seq(Nat), Len(a) = 4, Len(b) = 2, Abutted, Zenon
<1>1. /\ X \in Seq(Nat) /\ Len(X) = 4 + 2 /\ (\A i \in 1..4 : X[i] = a[i])
      /\ (\A i \in 1..2 : X[4 + i] = b[i])
    BY ONLY <1>a DEF Joins
<1>2. Len(X) = 6
    BY <1>0, <1>1
<1>b. Joins(Y, X, c, 6, 2)
    BY ONLY <1>0, <1>y, <1>1, <1>2, c \in Seq(Nat), Len(c) = 2, Abutted, Zenon
<1>3. Y \in Seq(Nat) /\ Len(Y) = 6 + 2 /\ (\A i \in 1..6 : Y[i] = X[i])
    BY ONLY <1>b DEF Joins
<1>4. Len(Y) = 8
    BY <1>0, <1>3
<1>c. Joins(Z, Y, d, 8, 4)
    BY ONLY <1>0, <1>z, <1>3, <1>4, d \in Seq(Nat), Len(d) = 4, Abutted, Zenon
<1>5. /\ Z \in Seq(Nat) /\ Len(Z) = 8 + 4 /\ (\A i \in 1..8 : Z[i] = Y[i])
      /\ (\A i \in 1..4 : Z[8 + i] = d[i])
    BY ONLY <1>c DEF Joins
<1>6. Len(Z) = 12
    BY <1>0, <1>5
<1>d. Joins(h, Z, e, 12, 4)
    BY ONLY <1>0, <1>h, <1>5, <1>6, e \in Seq(Nat), Len(e) = 4, Abutted, Zenon
<1>7. /\ h \in Seq(Nat) /\ Len(h) = 12 + 4 /\ (\A i \in 1..12 : h[i] = Z[i])
      /\ (\A i \in 1..4 : h[12 + i] = e[i])
    BY ONLY <1>d DEF Joins
<1>8. X[5] = b[1] /\ X[6] = b[2]
    <2>1. 1 \in 1..2 /\ 2 \in 1..2 /\ 4 + 1 = 5 /\ 4 + 2 = 6
        OBVIOUS
    <2>2. X[4 + 1] = b[1] /\ X[4 + 2] = b[2]
        BY ONLY <1>1, <2>1
    <2> QED
        BY <2>1, <2>2
<1>9. \A i \in 1..6 : h[i] = X[i]
    <2>1. \A i \in 1..6 : i \in 1..8 /\ i \in 1..12
        OBVIOUS
    <2> QED
        BY ONLY <1>3, <1>5, <1>7, <2>1
<1>10. (\A i \in 1..4 : h[i] = a[i]) /\ h[5] = b[1] /\ h[6] = b[2]
    <2>1. 5 \in 1..6 /\ 6 \in 1..6 /\ \A i \in 1..4 : i \in 1..6
        OBVIOUS
    <2> QED
        BY ONLY <1>1, <1>8, <1>9, <2>1
<1>11. \A i \in 1..4 : h[8 + i] = d[i]
    <2> SUFFICES ASSUME NEW i \in 1..4 PROVE h[8 + i] = d[i]
        OBVIOUS
    <2>1. 8 + i \in 1..12
        OBVIOUS
    <2> QED
        BY <1>5, <1>7, <2>1
<1> QED
    BY <1>0, <1>7, <1>10, <1>11 DEF Laid

LEMMA MagicFits == ASSUME Num!NumbersAssumption
                   PROVE  /\ Num!Power(4) \in Nat /\ Num!Magic \in 0..(Num!Power(4) - 1)
                          /\ 0 \in 0..(Num!Power(4) - 1)
<1>1. 0 \in Nat /\ 1 \in Nat /\ 2 \in Nat /\ 3 \in Nat /\ 0 + 1 = 1 /\ 1 + 1 = 2 /\ 2 + 1 = 3 /\ 3 + 1 = 4
    OBVIOUS
<1>2. /\ Num!Power(1) = Base * Num!Power(0) /\ Num!Power(2) = Base * Num!Power(1)
      /\ Num!Power(3) = Base * Num!Power(2) /\ Num!Power(4) = Base * Num!Power(3)
      /\ Num!Power(3) \in Nat \ {0}
    BY <1>1, Powers
<1>3. Num!Power(4) >= 4 /\ Num!Power(4) \in Nat
    BY <1>2, Sizes
<1> QED
    BY <1>3 DEF Num!Magic

(* The bytes of the header that is packed. *)
LEMMA Packed ==
    ASSUME Num!NumbersAssumption, NEW type \in 0..(Base - 1),
           NEW seq \in 0..(Num!Power(4) - 1), NEW len \in 0..(Num!Power(4) - 1)
    PROVE  LET h == Num!HdrPack(type, seq, len)
           IN  /\ h \in Seq(Nat) /\ Len(h) = 16
               /\ \A i \in 1..4 : h[i] = Num!Put(Num!Magic, 4)[i]
               /\ h[5] = 1 /\ h[6] = type
               /\ SubSeq(h, 1, 4) = Num!Put(Num!Magic, 4)
               /\ SubSeq(h, 9, 12) = Num!Put(seq, 4) /\ SubSeq(h, 13, 16) = Num!Put(len, 4)
<1> DEFINE a == Num!Put(Num!Magic, 4)
           b == <<Num!Version, type>>
           c == Num!Put(0, 2)
           d == Num!Put(seq, 4)
           e == Num!Put(len, 4)
           h == Num!HdrPack(type, seq, len)
<1>1. /\ Num!Magic \in Nat /\ seq \in Nat /\ len \in Nat /\ type \in Nat /\ Base \in Nat
      /\ 0 \in Nat /\ 2 \in Nat /\ 4 \in Nat
    BY MagicFits, Sizes
<1>2. a \in Seq(Nat) /\ Len(a) = 4 /\ c \in Seq(Nat) /\ Len(c) = 2
    BY <1>1, PutType
<1>3. d \in Seq(Nat) /\ Len(d) = 4 /\ e \in Seq(Nat) /\ Len(e) = 4
    BY <1>1, PutType
<1>4. b \in Seq(Nat) /\ Len(b) = 2 /\ b[1] = 1 /\ b[2] = type
    BY <1>1 DEF Num!Version
<1>5. h = a \o b \o c \o d \o e
    BY DEF Num!HdrPack
<1> HIDE DEF a, b, c, d, e, h
<1>6. /\ h \in Seq(Nat) /\ Len(h) = 16 /\ (\A i \in 1..4 : h[i] = a[i]) /\ h[5] = b[1] /\ h[6] = b[2]
      /\ (\A i \in 1..4 : h[8 + i] = d[i]) /\ (\A i \in 1..4 : h[12 + i] = e[i])
    <2>1. Laid(h, a, b, d, e)
        BY ONLY <1>2, <1>3, <1>4, <1>5, HdrBytes, Zenon
    <2> QED
        BY ONLY <2>1 DEF Laid
<1>7. SubSeq(h, 0 + 1, 0 + Len(a)) = a
    <2>1. 0 \in Nat /\ 0 + Len(a) =< Len(h) /\ \A i \in 1..Len(a) : h[0 + i] = a[i]
        BY <1>2, <1>6
    <2> QED
        BY ONLY <1>2, <1>6, <2>1, PartIs
<1>8. SubSeq(h, 8 + 1, 8 + Len(d)) = d
    <2>1. 8 \in Nat /\ 8 + Len(d) =< Len(h) /\ \A i \in 1..Len(d) : h[8 + i] = d[i]
        BY <1>3, <1>6
    <2> QED
        BY ONLY <1>3, <1>6, <2>1, PartIs
<1>9. SubSeq(h, 12 + 1, 12 + Len(e)) = e
    <2>1. 12 \in Nat /\ 12 + Len(e) =< Len(h) /\ \A i \in 1..Len(e) : h[12 + i] = e[i]
        BY <1>3, <1>6
    <2> QED
        BY ONLY <1>3, <1>6, <2>1, PartIs
<1>10. /\ 0 + 1 = 1 /\ 0 + Len(a) = 4 /\ 8 + 1 = 9 /\ 8 + Len(d) = 12
       /\ 12 + 1 = 13 /\ 12 + Len(e) = 16
    BY <1>2, <1>3
<1>11. SubSeq(h, 1, 4) = a /\ SubSeq(h, 9, 12) = d /\ SubSeq(h, 13, 16) = e
    BY <1>7, <1>8, <1>9, <1>10
<1> QED
    BY <1>4, <1>6, <1>11 DEF h, a, d, e

(* What is packed is unpacked. *)
LEMMA Unpacked ==
    ASSUME Num!NumbersAssumption, NEW type \in 0..(Base - 1),
           NEW seq \in 0..(Num!Power(4) - 1), NEW len \in 0..(Num!Power(4) - 1)
    PROVE  Num!HdrUnpack(Num!HdrPack(type, seq, len)) = [type |-> type, seq |-> seq, len |-> len]
<1> DEFINE h == Num!HdrPack(type, seq, len)
<1>1. /\ h[5] = 1 /\ h[6] = type /\ SubSeq(h, 1, 4) = Num!Put(Num!Magic, 4)
      /\ SubSeq(h, 9, 12) = Num!Put(seq, 4) /\ SubSeq(h, 13, 16) = Num!Put(len, 4)
    BY Packed
<1>2. 4 \in Nat /\ Num!Magic \in 0..(Num!Power(4) - 1)
    BY MagicFits
<1>3. /\ Num!Get(Num!Put(Num!Magic, 4)) = Num!Magic
      /\ Num!Get(Num!Put(seq, 4)) = seq /\ Num!Get(Num!Put(len, 4)) = len
    BY <1>2, PutGet
<1> HIDE DEF h
<1>4. Num!HdrUnpack(h) = [type |-> type, seq |-> seq, len |-> len]
    BY <1>1, <1>3 DEF Num!HdrUnpack, Num!Version
<1> QED
    BY <1>4 DEF h

(* One byte of the magic or the version changed is noticed. *)
LEMMA Noticed ==
    ASSUME Num!NumbersAssumption, NEW i \in 1..5, NEW d \in 1..(Base - 1)
    PROVE  LET h == Num!HdrPack(1, 0, 0)
           IN  Num!HdrUnpack([h EXCEPT ![i] = (@ + d) % Base]) = Num!BadHdr
<1> DEFINE h == Num!HdrPack(1, 0, 0)
           m == Num!Put(Num!Magic, 4)
           w == (h[i] + d) % Base
           g == [h EXCEPT ![i] = w]
<1>1. Base \in Nat \ {0} /\ Base >= 4 /\ 1 \in 0..(Base - 1) /\ 0 \in 0..(Num!Power(4) - 1)
    BY Sizes, MagicFits
<1>2. /\ h \in Seq(Nat) /\ Len(h) = 16 /\ (\A k \in 1..4 : h[k] = m[k]) /\ h[5] = 1
    BY <1>1, Packed
<1>3. m \in Seq(0..Base-1) /\ m \in Seq(Nat) /\ Len(m) = 4 /\ Num!Get(m) = Num!Magic
    <2>1. 4 \in Nat /\ Num!Magic \in 0..(Num!Power(4) - 1) /\ Num!Magic \in Nat
        BY MagicFits
    <2> QED
        BY <2>1, PutType, PutGet
<1> HIDE DEF h, m
<1>4. h[i] \in 0..Base-1
    <2>1. CASE i = 5
        BY <1>1, <1>2, <2>1
    <2>2. CASE i # 5
        <3>1. i \in 1..4 /\ i \in 1..Len(m)
            BY <1>3, <2>2
        <3>2. m[i] \in 0..Base-1
            BY ONLY <1>3, <3>1, ElementOfSeq
        <3> QED
            BY <1>2, <3>1, <3>2
    <2> QED
        BY <2>1, <2>2
<1>5. w \in 0..Base-1 /\ w # h[i]
    <2> DEFINE v == h[i]
    <2>1. v \in 0..Base-1
        BY <1>4
    <2> HIDE DEF v
    <2>2. v + d \in Int
        BY <1>1, <2>1
    <2>3. CASE v + d < Base
        <3>1. v + d = Base * 0 + (v + d) /\ v + d \in 0..Base-1 /\ 0 \in Int
            BY <1>1, <2>1, <2>3
        <3>2. (v + d) % Base = v + d
            BY <1>1, <2>2, <3>1, Quotient
        <3> QED
            BY <1>1, <2>1, <3>1, <3>2 DEF v
    <2>4. CASE ~ (v + d < Base)
        <3>1. v + d = Base * 1 + (v + d - Base) /\ v + d - Base \in 0..Base-1 /\ 1 \in Int
            BY <1>1, <2>1, <2>4
        <3>2. (v + d) % Base = v + d - Base
            BY ONLY <1>1, <2>2, <3>1, Quotient
        <3> QED
            BY <1>1, <2>1, <3>1, <3>2 DEF v
    <2> QED
        BY <2>3, <2>4
<1>6. [h EXCEPT ![i] = (@ + d) % Base] = g
    OBVIOUS
<1> HIDE DEF w
<1>7. g \in Seq(Nat) /\ Len(g) = 16 /\ \A k \in 1..16 : g[k] = IF k = i THEN w ELSE h[k]
    <2>1. w \in Nat /\ i \in 1..Len(h)
        BY <1>1, <1>2, <1>5
    <2>3. Len(g) = Len(h)
        BY <1>2, <2>1 DEF g
    <2>4. \A k \in 1..Len(h) : g[k] = IF k = i THEN w ELSE h[k]
        BY <1>2, <2>1 DEF g
    <2>5. DOMAIN h = 1..Len(h) /\ Len(h) \in Nat /\ \A k \in 1..Len(h) : h[k] \in Nat
        <3>1. h \in Seq(Nat)
            BY <1>2
        <3>2. Len(h) \in Nat /\ h \in [1..Len(h) -> Nat]
            BY ONLY <3>1, LenProperties
        <3> QED
            BY <3>2
    <2>6. g = [k \in 1..Len(h) |-> g[k]]
        BY <2>5 DEF g
    <2>7. \A k \in 1..Len(h) : g[k] \in Nat
        BY ONLY <2>1, <2>4, <2>5
    <2>2. g \in Seq(Nat)
        <3> HIDE DEF g
        <3> QED
            BY ONLY <2>5, <2>6, <2>7
    <2> QED
        BY <1>2, <2>2, <2>3, <2>4
<1> HIDE DEF g
<1>8. CASE i = 5
    <2>1. g[5] = w /\ h[5] = 1 /\ w # 1
        BY <1>2, <1>5, <1>7, <1>8
    <2> QED
        BY <1>6, <2>1 DEF Num!HdrUnpack, Num!Version, h
<1>9. CASE i # 5
    <2> DEFINE u == [k \in 1..4 |-> g[k]]
    <2>1. i \in 1..4
        BY <1>9
    <2>2. \A k \in 1..4 : g[k] \in 0..Base-1
        <3> SUFFICES ASSUME NEW k \in 1..4 PROVE g[k] \in 0..Base-1
            OBVIOUS
        <3>1. k \in 1..16 /\ k \in 1..Len(m)
            BY <1>3
        <3>2. m[k] \in 0..Base-1
            BY ONLY <1>3, <3>1, ElementOfSeq
        <3> QED
            BY <1>2, <1>5, <1>7, <3>1, <3>2
    <2>3. u \in Seq(0..Base-1) /\ Len(u) = 4 /\ \A k \in 1..4 : u[k] = g[k]
        BY <2>2
    <2>4. u \in Seq(Nat)
        BY <1>1, <2>2
    <2> HIDE DEF u
    <2>5. SubSeq(g, 0 + 1, 0 + Len(u)) = u
        <3>1. 0 \in Nat /\ 0 + Len(u) =< Len(g) /\ \A k \in 1..Len(u) : g[0 + k] = u[k]
            BY <1>7, <2>3
        <3> QED
            BY ONLY <1>7, <2>4, <3>1, PartIs
    <2>6. SubSeq(g, 1, 4) = u
        <3>1. 0 + 1 = 1 /\ 0 + Len(u) = 4
            BY <2>3
        <3> QED
            BY <2>5, <3>1
    <2>7. u[i] # m[i]
        <3>1. i \in 1..16 /\ u[i] = g[i] /\ g[i] = w /\ h[i] = m[i]
            BY <1>2, <1>7, <2>1, <2>3
        <3> QED
            BY <1>5, <3>1
    <2>8. Num!Get(u) # Num!Magic
        <3> SUFFICES ASSUME Num!Get(u) = Num!Magic PROVE FALSE
            OBVIOUS
        <3>1. Num!Get(u) = Num!Get(m) /\ Len(u) = Len(m)
            BY <1>3, <2>3
        <3>2. \A k \in 1..Len(u) : u[k] = m[k]
            BY ONLY Num!NumbersAssumption, <1>3, <2>3, <3>1, GetTells
        <3> QED
            BY <2>1, <2>3, <2>7, <3>2
    <2> QED
        BY <1>6, <2>6, <2>8 DEF Num!HdrUnpack, h
<1> QED
    BY <1>8, <1>9

LEMMA WireHolds == Num!NumbersAssumption => Num!WireKept
<1> SUFFICES ASSUME Num!NumbersAssumption PROVE Num!WireKept
    OBVIOUS
<1>1. \A v \in 0..(Num!Power(2) - 1) : Num!Get(Num!Put(v, 2)) = v
    <2>1. 2 \in Nat
        OBVIOUS
    <2> QED
        BY <2>1, PutGet
<1>2. \A v \in 0..(Num!Power(8) - 1) : Num!Get64(Num!Put64(v)) = v /\ Num!Get(Num!Put64(v)) = v
    BY WideKept
<1>3. ASSUME NEW type \in 0..(Base - 1), NEW seq \in 0..(Num!Power(4) - 1)
      PROVE  LET len == Num!Power(4) - 1 - seq
             IN  Num!HdrUnpack(Num!HdrPack(type, seq, len)) = [type |-> type, seq |-> seq, len |-> len]
    <2>1. Num!Power(4) - 1 - seq \in 0..(Num!Power(4) - 1)
        BY MagicFits
    <2> QED
        BY <2>1, Unpacked
<1>4. ASSUME NEW i \in 1..5, NEW d \in 1..(Base - 1)
      PROVE  LET h == Num!HdrPack(1, 0, 0)
             IN  Num!HdrUnpack([h EXCEPT ![i] = (@ + d) % Base]) = Num!BadHdr
    BY Noticed
<1> QED
    BY <1>1, <1>2, <1>3, <1>4 DEF Num!WireKept

-----------------------------------------------------------------------------
(* Samples. *)

(* The machine word of a sample: two bytes of it, and it comes back. *)
LEMMA Word ==
    ASSUME Num!NumbersAssumption, NEW v \in -Peak..(Peak - 1)
    PROVE  LET w == v % (2 * Peak)
           IN  /\ w \div Base \in Nat /\ w % Base \in Nat
               /\ Num!Signed((w % Base) + (w \div Base) * Base) = v
<1> DEFINE w == v % (2 * Peak)
           x == w \div Base
           y == w % Base
<1>1. /\ Peak \in Nat \ {0} /\ 2 * Peak \in Nat \ {0} /\ Base \in Nat \ {0} /\ v \in Int
    BY Sizes
<1>2. w \in Nat /\ (v >= 0 => w = v) /\ (v < 0 => w = v + 2 * Peak)
    <2>1. CASE v >= 0
        <3>1. v = (2 * Peak) * 0 + v /\ v \in 0..(2 * Peak)-1 /\ 0 \in Int
            BY <1>1, <2>1
        <3>2. w = v
            BY ONLY <1>1, <3>1, Quotient
        <3> QED
            BY <1>1, <2>1, <3>2
    <2>2. CASE v < 0
        <3>1. v = (2 * Peak) * (-1) + (v + 2 * Peak) /\ v + 2 * Peak \in 0..(2 * Peak)-1 /\ -1 \in Int
            BY <1>1, <2>2
        <3>2. w = v + 2 * Peak
            BY ONLY <1>1, <3>1, Quotient
        <3> QED
            BY <1>1, <2>2, <3>1, <3>2
    <2> QED
        BY <1>1, <2>1, <2>2
<1> HIDE DEF w
<1>3. x \in Int /\ y \in 0..Base-1 /\ w = Base * x + y
    <2>1. w \in Int
        BY <1>2
    <2> QED
        BY <1>1, <2>1, DivMod
<1> HIDE DEF x, y
<1>4. x \in Nat
    <2>1. Base * x > Base * (-1)
        BY <1>1, <1>2, <1>3
    <2> QED
        BY <1>1, <1>3, <2>1
<1>5. y + x * Base = w
    BY <1>1, <1>3
<1>6. Num!Signed(w) = v
    BY <1>1, <1>2 DEF Num!Signed
<1> QED
    BY <1>1, <1>3, <1>4, <1>5, <1>6 DEF x, y, w

LEMMA SamplesHold == Num!NumbersAssumption => Num!SamplesKept
<1> SUFFICES ASSUME Num!NumbersAssumption, NEW v \in -Peak..(Peak - 1), NEW u \in -Peak..(Peak - 1),
                    NEW big \in BOOLEAN
             PROVE  LET le == Num!HostToLe(Num!HostPut(v, big) \o Num!HostPut(u, big) \o <<0>>, big)
                    IN /\ Num!Le16Get(SubSeq(le, 1, 2)) = v /\ Num!Le16Get(SubSeq(le, 3, 4)) = u
                       /\ le[5] = 0 /\ Num!Le16Get(Num!Le16Put(v)) = v
    BY DEF Num!SamplesKept
<1> DEFINE vh == (v % (2 * Peak)) \div Base
           vl == (v % (2 * Peak)) % Base
           uh == (u % (2 * Peak)) \div Base
           ul == (u % (2 * Peak)) % Base
           p == Num!HostPut(v, big)
           q == Num!HostPut(u, big)
           b == p \o q \o <<0>>
           le == Num!HostToLe(b, big)
<1>1. /\ vh \in Nat /\ vl \in Nat /\ uh \in Nat /\ ul \in Nat
      /\ Num!Signed(vl + vh * Base) = v /\ Num!Signed(ul + uh * Base) = u
    BY Word
<1>2. /\ p = IF big THEN <<vh, vl>> ELSE <<vl, vh>>
      /\ q = IF big THEN <<uh, ul>> ELSE <<ul, uh>>
    BY DEF Num!HostPut
<1>3. Num!Le16Put(v) = <<vl, vh>>
    BY DEF Num!Le16Put, Num!HostPut
<1>b. b = (p \o q) \o <<0>>
    OBVIOUS
<1>le. le = [i \in 1..Len(b) |-> IF big /\ (i < Len(b) \/ Len(b) % 2 = 0)
                                 THEN b[IF i % 2 = 1 THEN i + 1 ELSE i - 1] ELSE b[i]]
    BY DEF Num!HostToLe
<1> HIDE DEF vh, vl, uh, ul, p, q, b, le
<1>4. /\ p \in Seq(Nat) /\ Len(p) = 2 /\ p[1] = (IF big THEN vh ELSE vl) /\ p[2] = (IF big THEN vl ELSE vh)
      /\ q \in Seq(Nat) /\ Len(q) = 2 /\ q[1] = (IF big THEN uh ELSE ul) /\ q[2] = (IF big THEN ul ELSE uh)
    BY <1>1, <1>2
<1>5. b \in Seq(Nat) /\ Len(b) = 5 /\ b[1] = p[1] /\ b[2] = p[2] /\ b[3] = q[1] /\ b[4] = q[2] /\ b[5] = 0
    <2> DEFINE z == p \o q
               o == <<0>>
    <2>1. z = p \o q /\ b = z \o o /\ o \in Seq(Nat) /\ Len(o) = 1 /\ o[1] = 0
        BY <1>b
    <2> HIDE DEF z, o
    <2>2. 2 \in Nat /\ 4 \in Nat /\ 1 \in Nat /\ 2 + 2 = 4 /\ 4 + 1 = 5 /\ 2 + 1 = 3
        OBVIOUS
    <2>3. Joins(z, p, q, 2, 2)
        BY ONLY <1>4, <2>1, <2>2, Abutted, Zenon
    <2>4. /\ z \in Seq(Nat) /\ Len(z) = 2 + 2 /\ (\A i \in 1..2 : z[i] = p[i])
          /\ (\A i \in 1..2 : z[2 + i] = q[i])
        BY ONLY <2>3 DEF Joins
    <2>5. Len(z) = 4
        BY <2>2, <2>4
    <2>6. Joins(b, z, o, 4, 1)
        BY ONLY <2>1, <2>2, <2>4, <2>5, Abutted, Zenon
    <2>7. /\ b \in Seq(Nat) /\ Len(b) = 4 + 1 /\ (\A i \in 1..4 : b[i] = z[i])
          /\ (\A i \in 1..1 : b[4 + i] = o[i])
        BY ONLY <2>6 DEF Joins
    <2>8. 1 \in 1..2 /\ 2 \in 1..2 /\ 1 \in 1..1 /\ 1 \in 1..4 /\ 2 \in 1..4 /\ 3 \in 1..4 /\ 4 \in 1..4
        OBVIOUS
    <2>9. z[1] = p[1] /\ z[2] = p[2] /\ z[2 + 1] = q[1] /\ z[2 + 2] = q[2]
        BY ONLY <2>4, <2>8
    <2>10. b[1] = z[1] /\ b[2] = z[2] /\ b[3] = z[3] /\ b[4] = z[4] /\ b[4 + 1] = o[1]
        BY ONLY <2>7, <2>8
    <2> QED
        BY ONLY <2>1, <2>2, <2>7, <2>9, <2>10
<1>6. /\ le[1] = vl /\ le[2] = vh /\ le[3] = ul /\ le[4] = uh /\ le[5] = 0
    <2>1. le = [i \in 1..5 |-> IF big /\ i < 5
                               THEN b[IF i % 2 = 1 THEN i + 1 ELSE i - 1] ELSE b[i]]
        <3>1. 5 % 2 = 1
            OBVIOUS
        <3> QED
            BY <1>le, <1>5, <3>1
    <2>2. CASE big
        <3>1. le[1] = b[2] /\ le[2] = b[1]
            BY <2>1, <2>2
        <3>2. le[3] = b[4] /\ le[4] = b[3] /\ le[5] = b[5]
            BY <2>1, <2>2
        <3> QED
            BY <1>4, <1>5, <2>2, <3>1, <3>2
    <2>3. CASE ~ big
        <3>1. le[1] = b[1] /\ le[2] = b[2] /\ le[3] = b[3] /\ le[4] = b[4] /\ le[5] = b[5]
            BY <2>1, <2>3
        <3> QED
            BY <1>4, <1>5, <2>3, <3>1
    <2> QED
        BY <2>2, <2>3
<1>7. le \in Seq(Nat) /\ Len(le) = 5
    <2>1. le = [i \in 1..5 |-> le[i]]
        BY <1>le, <1>5
    <2>2. \A i \in 1..5 : le[i] \in Nat
        <3>1. \A i \in 1..5 : i = 1 \/ i = 2 \/ i = 3 \/ i = 4 \/ i = 5
            OBVIOUS
        <3> QED
            BY <1>1, <1>6, <3>1
    <2>3. 5 \in Nat
        OBVIOUS
    <2> QED
        BY ONLY <2>1, <2>2, <2>3
<1>8. SubSeq(le, 1, 2)[1] = vl /\ SubSeq(le, 1, 2)[2] = vh
    BY <1>6, <1>7
<1>9. SubSeq(le, 3, 4)[1] = ul /\ SubSeq(le, 3, 4)[2] = uh
    BY <1>6, <1>7
<1>10. Num!Le16Get(SubSeq(le, 1, 2)) = v /\ Num!Le16Get(SubSeq(le, 3, 4)) = u
    BY <1>1, <1>8, <1>9 DEF Num!Le16Get
<1>11. Num!Le16Get(Num!Le16Put(v)) = v
    <2>1. <<vl, vh>>[1] = vl /\ <<vl, vh>>[2] = vh
        OBVIOUS
    <2> QED
        BY <1>1, <1>3, <2>1 DEF Num!Le16Get
<1> QED
    BY <1>6, <1>10, <1>11 DEF le, b, p, q

-----------------------------------------------------------------------------
(* The arithmetic of be16_put ... le16_put, cubic_q16 and rn_drift_decide holds its
   promises in every width: bytes of at least four values, any samples of two of them,
   any deadband and largest step. *)
THEOREM ArithmeticTheorem == Num!NumbersAssumption => (StreamsSpec => []Arithmetic)
<1> SUFFICES ASSUME Num!NumbersAssumption PROVE StreamsSpec => []Arithmetic
    OBVIOUS
<1>1. Arithmetic
    BY WireHolds, SamplesHold, SmoothHolds, SteadyHolds DEF Arithmetic
<1> QED
    BY <1>1, PTL
=============================================================================
