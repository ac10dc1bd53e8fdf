----------------------------- MODULE BigInteger -----------------------------
(***************************************************************************)
(* The arbitrary-precision integers with which oidc-token-manager.js       *)
(* verifies the signature of an id_token: digits of DB bits, least         *)
(* significant first, in two's complement with sign s (0 or -1).  Widths   *)
(* that the code fixes (28-bit digits, the 52 bits of a double's mantissa, *)
(* Montgomery's 15-bit halves) are constants, so that small instances meet *)
(* every carry and every boundary.  Quotients of doubles are exact here.   *)
(*                                                                         *)
(* An array is a function on an initial part of the naturals; a method     *)
(* that writes into its argument r returns r.                              *)
(***************************************************************************)
EXTENDS Integers, Sequences, FiniteSets, Bitwise, TLC

CONSTANTS
  DB,             \* bits of a digit
  FP,             \* BI_FP: bits of a quotient estimate
  HB,             \* bits of the lower half in Montgomery reduction
  ByteBits,       \* bits of a byte
  IntBits,        \* bits of intValue's result
  SmallExponent,  \* below it modPowInt reduces classically
  MaxExponent,    \* the largest number exp takes for an exponent, 2^32 - 1
  Windows,        \* bit lengths from which modPow takes the next window
  LowPrimes       \* primes of the trial division, ascending

ASSUME WidthAssumption ==
  /\ DB \in Nat /\ DB % 2 = 0 /\ FP \in DB..(2 * DB)
  /\ HB \in (DB \div 2)..DB /\ ByteBits \in 1..DB /\ IntBits \in DB..(2 * DB)
  /\ SmallExponent \in Nat /\ MaxExponent \in Nat /\ Len(Windows) = 4

DV == 2^DB
DM == DV - 1
Half == 2^(DB \div 2)
F1 == FP - DB
F2 == 2 * DB - FP

-----------------------------------------------------------------------------
(***************************************************************************)
(* Numbers                                                                 *)
(***************************************************************************)
Highest(S) == CHOOSE x \in S : \A y \in S : y <= x
Least(S) == CHOOSE x \in S : \A y \in S : x <= y

\* (@@ has TLC compute an array once, and not at every access.)
Computed(array) == <<>> @@ array
Number(s, t, digits) ==
  [s |-> s, t |-> t, d |-> Computed([i \in 0..(t - 1) |-> digits[i]])]
At(x, i) == IF i \in DOMAIN x.d THEN x.d[i] ELSE 0
Filler(x) == IF x.s < 0 THEN DM ELSE 0

Clamp(x) ==
  Number(x.s, Highest({0} \union {i + 1 : i \in {j \in 0..(x.t - 1) : x.d[j] # Filler(x)}}),
         x.d)

FromInt(x) ==
  IF x \in {0, -1} THEN Number(x, 0, <<>>)
  ELSE Number(IF x < 0 THEN -1 ELSE 0, 1, 0 :> IF x < 0 THEN x + DV ELSE x)

Zero == FromInt(0)
One == FromInt(1)

\* nbits, lbit and cbit of a digit.
NBits(x) == IF x = 0 THEN 1 ELSE 1 + Highest({b \in 0..30 : x >= 2^b})
LBit(x) == IF x = 0 THEN -1 ELSE Highest({b \in 0..(DB - 1) : x % 2^b = 0})
CBit(x) == Cardinality({b \in 0..(DB - 1) : (x \div 2^b) % 2 = 1})

IsEven(x) == (IF x.t > 0 THEN At(x, 0) % 2 ELSE x.s) = 0
SigNum(x) == IF x.s < 0 THEN -1 ELSE IF x.t = 0 \/ (x.t = 1 /\ At(x, 0) = 0) THEN 0 ELSE 1

\* Mutant: the longer number is the greater one, whatever its sign.
CompareToUnsigned(x, a) ==
  LET differing == {i \in 0..(x.t - 1) : x.d[i] # At(a, i)}
  IN  IF x.s # a.s THEN x.s - a.s
      ELSE IF x.t # a.t THEN x.t - a.t
      ELSE IF differing = {} THEN 0
      ELSE x.d[Highest(differing)] - a.d[Highest(differing)]

CompareTo(x, a) ==
  LET differing == {i \in 0..(x.t - 1) : x.d[i] # At(a, i)}
  IN  IF x.s # a.s THEN x.s - a.s
      ELSE IF x.t # a.t THEN IF x.s < 0 THEN a.t - x.t ELSE x.t - a.t
      ELSE IF differing = {} THEN 0
      ELSE x.d[Highest(differing)] - a.d[Highest(differing)]

BitLength(x) ==
  IF x.t <= 0 THEN 0 ELSE DB * (x.t - 1) + NBits(At(x, x.t - 1) ^^ Filler(x))

GetLowestSetBit(x) ==
  LET ones == {i \in 0..(x.t - 1) : x.d[i] # 0}
  IN  IF ones # {} THEN Least(ones) * DB + LBit(x.d[Least(ones)])
      ELSE IF x.s < 0 THEN x.t * DB ELSE -1

BitCount(x) ==
  LET n[i \in 0..x.t] == IF i = 0 THEN 0 ELSE n[i - 1] + CBit(x.d[i - 1] ^^ Filler(x))
  IN  n[x.t]

TestBit(x, n) ==
  IF n \div DB >= x.t THEN x.s # 0 ELSE (x.d[n \div DB] \div 2^(n % DB)) % 2 = 1

\* A value as a signed integer of so many bits, as JavaScript's | and << leave it.
Signed(v, bits) == IF v % 2^bits >= 2^(bits - 1) THEN (v % 2^bits) - 2^bits ELSE v % 2^bits

IntValue(x) ==
  IF x.t = 0 THEN x.s
  ELSE IF x.t = 1 THEN At(x, 0) + (IF x.s < 0 THEN -DV ELSE 0)
  ELSE Signed((At(x, 1) % 2^(IntBits - DB)) * DV + At(x, 0), IntBits)

ByteValue(x) == IF x.t = 0 THEN x.s ELSE Signed(At(x, 0), ByteBits)

-----------------------------------------------------------------------------
(***************************************************************************)
(* Shifts, addition and bitwise operations                                 *)
(***************************************************************************)
DLShiftTo(x, n) ==
  Number(x.s, x.t + n, [i \in Nat |-> IF i < n THEN 0 ELSE At(x, i - n)])

DRShiftTo(x, n) ==
  Number(x.s, IF x.t > n THEN x.t - n ELSE 0, [i \in Nat |-> At(x, i + n)])

LShiftTo(x, n) ==
  LET bs == n % DB
      ds == n \div DB
      Lower(i) == IF i = x.t THEN (Filler(x) * 2^bs) % DV ELSE (At(x, i) % 2^(DB - bs)) * 2^bs
      Upper(i) == IF i < 0 THEN 0 ELSE At(x, i) \div 2^(DB - bs)
  IN  Clamp(Number(x.s, x.t + ds + 1,
                   [i \in Nat |-> IF i < ds THEN 0 ELSE Upper(i - ds - 1) + Lower(i - ds)]))

RShiftTo(x, n) ==
  LET bs == n % DB
      ds == n \div DB
      Above(i) == IF i = x.t THEN Filler(x) ELSE At(x, i)
  IN  IF ds >= x.t THEN Number(x.s, 0, <<>>)
      ELSE Clamp(Number(x.s, x.t - ds,
             [i \in Nat |-> At(x, i + ds) \div 2^bs + (Above(i + ds + 1) % 2^bs) * 2^(DB - bs)]))

ShiftLeft(x, n) == IF n < 0 THEN RShiftTo(x, -n) ELSE LShiftTo(x, n)
ShiftRight(x, n) == IF n < 0 THEN LShiftTo(x, -n) ELSE RShiftTo(x, n)

\* The loops of addTo (k = 1) and subTo (k = -1): the sign of the shorter number
\* is carried in where its digits end.
SignAt(x, k, a, i) == (IF i = x.t THEN x.s ELSE 0) + (IF i = a.t THEN k * a.s ELSE 0)
CarriedOn(d, c) == [c |-> c \div DV, d |-> Append(d, c % DV)]
NextDigit(w, x, k, a, i) == CarriedOn(w.d, w.c + SignAt(x, k, a, i) + At(x, i) + k * At(a, i))
Topped(n, d, c) ==
  Clamp(Number(IF c < 0 THEN -1 ELSE 0, IF c \in {0, -1} THEN n ELSE n + 1,
               [i \in Nat |-> IF i < n THEN d[i + 1] ELSE IF c < -1 THEN DV + c ELSE c]))
WithTop(w, x, k, a, n) == Topped(n, w.d, w.c + SignAt(x, k, a, n))

Combined(x, k, a) ==
  LET n == IF x.t > a.t THEN x.t ELSE a.t
      sum[i \in 0..n] ==
        IF i = 0 THEN [c |-> 0, d |-> <<>>] ELSE NextDigit(sum[i - 1], x, k, a, i - 1)
  IN  WithTop(sum[n], x, k, a, n)

AddTo(x, a) == Combined(x, 1, a)
SubTo(x, a) == Combined(x, -1, a)
Negate(x) == SubTo(Zero, x)
NegateIf(negative, x) == IF negative THEN Negate(x) ELSE x
Abs(x) == NegateIf(x.s < 0, x)

\* op_and, op_or, op_xor and op_andnot of two digits.
DigitOp(op, x, y) ==
  CASE op = "and" -> x & y
    [] op = "or" -> x | y
    [] op = "xor" -> x ^^ y
    [] op = "andnot" -> x & (DM - y)

BitwiseTo(x, a, op) ==
  LET Digit(z, i) == IF i < z.t THEN z.d[i] ELSE Filler(z)
  IN  Clamp(Number(IF DigitOp(op, Filler(x), Filler(a)) = 0 THEN 0 ELSE -1,
                   Highest({x.t, a.t}), [i \in Nat |-> DigitOp(op, Digit(x, i), Digit(a, i))]))

Not_(x) == Number(-1 - x.s, x.t, [i \in Nat |-> DM - x.d[i]])
ChangeBit(x, n, op) == BitwiseTo(x, ShiftLeft(One, n), op)

-----------------------------------------------------------------------------
(***************************************************************************)
(* Multiplication and division                                             *)
(***************************************************************************)
\* am3, by halves of a digit: w_j += x * y_i for n digits, with carry c.
AmCut(d, low, high) == [d |-> Append(d, low % DV), c |-> low \div DV + high]
AmSum(v, xh, xl, h, l, m, wk) == AmCut(v.d, xl * l + (m % Half) * Half + wk + v.c, m \div Half + xh * h)
AmHalves(v, xh, xl, h, l, wk) == AmSum(v, xh, xl, h, l, xh * l + h * xl, wk)
AmDigit(v, x, yk, wk) == AmHalves(v, x \div Half, x % Half, yk \div Half, yk % Half, wk)
AmWritten(w, j, d, c) ==
  [w |-> Computed([b \in DOMAIN w |-> IF b >= j /\ b < j + Len(d) THEN d[b - j + 1] ELSE w[b]]),
   c |-> c]
AmInto(w, j, v) == AmWritten(w, j, v.d, v.c)

Am(y, i, x, w, j, c, n) ==
  LET am[k \in 0..n] ==
        IF k = 0 THEN [d |-> <<>>, c |-> c]
        ELSE AmDigit(am[k - 1], x, At(y, i + k - 1), w[j + k - 1])
  IN  AmInto(w, j, am[n])

\* The array after am, whose carry is put at, or added to, the digit it has reached.
CarryPut(v, at) == [v.w EXCEPT ![at] = v.c]
CarryAdded(v, at) == [v.w EXCEPT ![at] = @ + v.c]

\* The n lowest digits, zeros above those of x.
Truncated(x, n) == Number(x.s, n, [i \in Nat |-> At(x, i)])

Zeros(n) == Computed([i \in 0..(n - 1) |-> 0])
Array(s, t, w) == Clamp(Number(s, t, w))

MagnitudeTimes(x, y) ==
  LET w[i \in 0..y.t] ==
        IF i = 0 THEN Zeros(x.t + y.t)
        ELSE CarryPut(Am(x, 0, y.d[i - 1], w[i - 1], i - 1, 0, x.t), i - 1 + x.t)
  IN  Array(0, x.t + y.t, w[y.t])

MultiplyTo(this, a) == NegateIf(this.s # a.s, MagnitudeTimes(Abs(this), Abs(a)))

CarryCut(w, at) == IF w[at] >= DV THEN [w EXCEPT ![at] = @ - DV, ![at + 1] = 1] ELSE w
TwiceAdded(x, u, i) == Am(x, i + 1, 2 * x.d[i], u.w, 2 * i + 1, u.c, x.t - i - 1)
SquareRow(x, w, i) ==
  CarryCut(CarryAdded(TwiceAdded(x, Am(x, i, x.d[i], w, 2 * i, 0, 1), i), i + x.t), i + x.t)
LastSquared(x, w) == CarryAdded(Am(x, x.t - 1, x.d[x.t - 1], w, 2 * x.t - 2, 0, 1), 2 * x.t - 1)
MagnitudeSquared(x) ==
  LET w[i \in 0..(x.t - 1)] == IF i = 0 THEN Zeros(2 * x.t) ELSE SquareRow(x, w[i - 1], i - 1)
  IN  IF x.t = 0 THEN Zero ELSE Array(0, 2 * x.t, LastSquared(x, w[x.t - 1]))

SquareTo(this) == MagnitudeSquared(Abs(this))

DMultiply(x, n) ==
  LET Longer(v) == Array(x.s, x.t + 1, (x.t :> v.c) @@ v.w)
  IN  Longer(Am(x, 0, n - 1, x.d, 0, 0, x.t))

RECURSIVE CarryUp(_, _)
CarryUp(x, w) ==
  IF x.d[w] < DV THEN x
  ELSE LET t == IF w + 1 >= x.t THEN w + 2 ELSE x.t
       IN  CarryUp([x EXCEPT !.t = t,
                             !.d = (w :> x.d[w] - DV) @@ (w + 1 :> At(x, w + 1) + 1) @@ x.d],
                   w + 1)

DAddOffset(x, n, w) ==
  LET Added(padded) == CarryUp([padded EXCEPT !.d[w] = @ + n], w)
  IN  IF n = 0 THEN x ELSE Added(Truncated(x, Highest({x.t, w + 1})))

\* Trying out a quotient digit that is too large: t, the negative of the divisor,
\* has been added qd times, and is taken back until the digit i fits.
RECURSIVE TakenBack(_, _, _, _)
TakenBack(r, i, t, qd) ==
  IF At(r, i) < qd THEN TakenBack(SubTo(r, t), i, t, qd - 1) ELSE r

\* Quotient and remainder of magnitudes by a divisor y that is not longer, and whose
\* highest bit is its digit's: the quotient's digits replace those of x above ys.
Estimated(y, r, i) ==
  LET y0 == y.d[y.t - 1]
      yt == y0 * 2^F1 + (IF y.t > 1 THEN y.d[y.t - 2] \div 2^F2 ELSE 0)
  IN  IF At(r, i) = y0 THEN DM ELSE (At(r, i) * 2^FP + (At(r, i - 1) + 2^F2) * 2^F1) \div yt
TopSubtracted(x, top) ==
  IF CompareTo(x, top) >= 0
    THEN SubTo([x EXCEPT !.t = @ + 1, !.d = (x.t :> 1) @@ @], top) ELSE x
DigitTried(xt, r, ny, j, ys, qd) ==
  TakenBack([r EXCEPT !.d = CarryAdded(Am(ny, 0, qd, Truncated(r, xt + 2).d, j, 0, ys), j + ys)],
            j + ys, DLShiftTo(ny, j), qd)
DigitDivided(xt, r, ny, j, y) == DigitTried(xt, r, ny, j, y.t, Estimated(y, r, j + y.t))
DividedBy(x, y, ny) ==
  LET r[j \in 0..Highest({0, x.t - y.t})] ==
        IF j >= x.t - y.t THEN TopSubtracted(x, DLShiftTo(y, x.t - y.t))
        ELSE DigitDivided(x.t, r[j + 1], ny, j, y)
  IN  r[0]
Separated(r, ys) == [q |-> DRShiftTo(r, ys), r |-> Clamp(Truncated(r, ys))]
DivRemNormalized(x, y) ==
  Separated(DividedBy(x, y, Truncated(SubTo(DLShiftTo(One, y.t), y), y.t)), y.t)

\* The divisor pm is not shorter than one digit and not longer than pt.
Normalized(x, nsh) == IF nsh > 0 THEN LShiftTo(x, nsh) ELSE x
ShiftedBack(qr, nsh) == [qr EXCEPT !.r = RShiftTo(@, nsh)]
DivRemShifted(pt, pm, nsh) ==
  ShiftedBack(DivRemNormalized(Normalized(pt, nsh), Normalized(pm, nsh)), nsh)

DivRemAbs(x, pt, pm) ==
  IF pt.t < pm.t THEN [q |-> Zero, r |-> x]
  ELSE DivRemShifted(pt, pm, DB - NBits(pm.d[pm.t - 1]))
WithSigns(x, m, pt, pm, qr) ==
  IF pt.t < pm.t THEN qr
  ELSE [q |-> NegateIf(x.s # m.s, qr.q), r |-> NegateIf(x.s < 0, qr.r)]
DivRemTo(x, m) == WithSigns(x, m, Abs(x), Abs(m), DivRemAbs(x, Abs(x), Abs(m)))

\* The residue of x, given that of its magnitude.
Residue(r, x, m) == IF x.s < 0 /\ CompareTo(r, Zero) > 0 THEN SubTo(m, r) ELSE r

Mod(x, a) == Residue(DivRemTo(Abs(x), a).r, x, a)

ModInt(x, n) ==
  LET d == DV % n
      r[i \in 0..x.t] ==
        IF i = x.t THEN IF x.s < 0 THEN n - 1 ELSE 0 ELSE (d * r[i + 1] + x.d[i]) % n
  IN  IF d = 0 /\ x.t > 0 THEN x.d[0] % n ELSE r[0]

-----------------------------------------------------------------------------
(***************************************************************************)
(* Reduction and exponentiation                                            *)
(***************************************************************************)
\* invDigit: -1/x modulo DV by Newton's steps.  Bound: the step to 16 bits is left
\* out, which digits of at most 16 bits do not need.
InvDigit(x) ==
  LET Newton(y, b) == (y * (2 - (x.d[0] % 2^b) * y)) % 2^b
      Opposite(y) == IF y > 0 THEN DV - y ELSE 0
  IN  IF x.t < 1 \/ x.d[0] % 2 = 0 THEN 0
      ELSE Opposite(Newton(Newton(Newton(x.d[0] % 4, 4), 8), DB) % DV)

RECURSIVE Propagated(_, _)
Propagated(w, j) ==
  IF w[j] < DV THEN w ELSE Propagated([w EXCEPT ![j] = @ - DV, ![j + 1] = @ + 1], j + 1)

\* u0 of the code: the multiple of m that clears the digit wi.
Clearing(wi, mp) ==
  LET mpl == mp % 2^HB
      mph == mp \div 2^HB
      j == wi % 2^HB
  IN  (j * mpl + ((j * mph + (wi \div 2^HB) * mpl) % 2^(DB - HB)) * 2^HB) % DV
Cleared(m, w, i, mp) ==
  Propagated(CarryAdded(Am(m, 0, Clearing(w[i], mp), w, i, 0, m.t), i + m.t), i + m.t)
MontArray(m, x, mp) ==
  LET w[i \in 0..m.t] ==
        IF i = 0 THEN Truncated(x, 2 * m.t + 1).d ELSE Cleared(m, w[i - 1], i - 1, mp)
  IN  w[m.t]
Below(r, m) == IF CompareTo(r, m) >= 0 THEN SubTo(r, m) ELSE r
MontReduce(m, x) ==
  Below(DRShiftTo(Array(x.s, 2 * m.t + 1, MontArray(m, x, InvDigit(m))), m.t), m)

\* Mutant: the residue of a negative number is that of its magnitude.
MontConvertOfMagnitude(m, x) == DivRemTo(DLShiftTo(Abs(x), m.t), m).r

MontConvert(m, x) == Residue(DivRemTo(DLShiftTo(Abs(x), m.t), m).r, x, m)

WholeRow(x, a, w, i) == CarryPut(Am(x, 0, At(a, i), w, i, 0, x.t), i + x.t)
LowerProduct(x, a, n, t) ==
  LET wholes == Highest({0, t - x.t})
      w[i \in 0..Least({a.t, n})] ==
        IF i = 0 THEN Zeros(t)
        ELSE IF i <= wholes THEN WholeRow(x, a, w[i - 1], i - 1)
        ELSE Am(x, 0, At(a, i - 1), w[i - 1], i - 1, 0, n - i + 1).w
  IN  Array(0, t, w[Least({a.t, n})])
MultiplyLowerTo(x, a, n) == LowerProduct(x, a, n, Least({x.t + a.t, n}))

UpperRow(x, a, w, i, above) ==
  CarryPut(Am(x, above - i, At(a, i), w, 0, 0, x.t + i - above), x.t + i - above)
MultiplyUpperTo(x, a, n) ==
  LET above == n - 1
      from == Highest({0, above - x.t})
      w[i \in from..Highest({from, a.t})] ==
        IF i = from THEN Zeros(x.t + a.t - above) ELSE UpperRow(x, a, w[i - 1], i - 1, above)
  IN  DRShiftTo(Array(0, x.t + a.t - above, w[Highest({from, a.t})]), 1)

RECURSIVE AddUntil(_, _, _), SubWhile(_, _)
AddUntil(x, r, w) == IF CompareTo(x, r) < 0 THEN AddUntil(DAddOffset(x, 1, w), r, w) ELSE x
SubWhile(x, m) == IF CompareTo(x, m) >= 0 THEN SubWhile(SubTo(x, m), m) ELSE x

LowerSubtracted(m, low, r2) == SubWhile(SubTo(AddUntil(low, r2, m.t + 1), r2), m)
BarrettBy(m, mu, x) ==
  LowerSubtracted(m, IF x.t > m.t + 1 THEN Clamp(Truncated(x, m.t + 1)) ELSE x,
    MultiplyLowerTo(m, MultiplyUpperTo(mu, DRShiftTo(x, m.t - 1), m.t + 1), m.t + 1))
BarrettReduce(m, x) == BarrettBy(m, DivRemTo(DLShiftTo(One, 2 * m.t), m).q, x)

\* A reducer is [kind, m]; the null reducer reduces nothing.
Reduce(z, x) ==
  CASE z.kind = "Classic"    -> DivRemTo(x, z.m).r
    [] z.kind = "Montgomery" -> MontReduce(z.m, x)
    [] z.kind = "Barrett"    -> BarrettReduce(z.m, x)
    [] z.kind = "NullExp"    -> x

Convert(z, x) ==
  CASE z.kind = "Classic" ->
         IF x.s < 0 \/ CompareTo(x, z.m) >= 0 THEN Mod(x, z.m) ELSE x
    [] z.kind = "Montgomery" -> MontConvert(z.m, x)
    [] z.kind = "Barrett" ->
         IF x.s < 0 \/ x.t > 2 * z.m.t THEN Mod(x, z.m)
         ELSE IF CompareTo(x, z.m) < 0 THEN x ELSE BarrettReduce(z.m, x)
    [] z.kind = "NullExp" -> x

Revert(z, x) == IF z.kind = "Montgomery" THEN MontReduce(z.m, x) ELSE x
\* (The sets have TLC finish the product before it reduces it: it goes too deep else.)
MulTo(z, x, y) == CHOOSE r \in {Reduce(z, product) : product \in {MultiplyTo(x, y)}} : TRUE
SqrTo(z, x) == CHOOSE r \in {Reduce(z, square) : square \in {SquareTo(x)}} : TRUE

\* exp: the bits of the number e below its highest, from the left.  Out of its
\* domain it gives one.
Multiplied(z, r, g, bit) == IF bit = 1 THEN MulTo(z, r, g) ELSE r
RECURSIVE RaisedFrom(_, _, _, _)
RaisedFrom(z, g, e, bits) ==
  IF bits = 0 THEN g
  ELSE Multiplied(z, SqrTo(z, RaisedFrom(z, g, e \div 2, bits - 1)), g, e % 2)
Exp(x, e, z) ==
  IF e > MaxExponent \/ e < 1 THEN One
  ELSE Revert(z, RaisedFrom(z, Convert(z, x), e, NBits(e) - 1))

ModPowInt(x, e, m) ==
  Exp(x, e, [kind |-> IF e < SmallExponent \/ IsEven(m) THEN "Classic" ELSE "Montgomery", m |-> m])

Pow(x, e) == Exp(x, e, [kind |-> "NullExp", m |-> Zero])

\* modPow: windows of at most k bits that begin and end with a one, from the left;
\* position i of digit j is the next bit.
Window(bits) ==
  CASE bits < Windows[1] -> 1
    [] bits >= Windows[1] /\ bits < Windows[2] -> 3
    [] bits >= Windows[2] /\ bits < Windows[3] -> 4
    [] bits >= Windows[3] /\ bits < Windows[4] -> 5
    [] bits >= Windows[4] -> 6

\* g, g^3, g^5, ...
OddAppended(z, odd, g2) == Append(odd, MulTo(z, g2, odd[Len(odd)]))
RECURSIVE OddPowers(_, _, _, _)
OddPowers(z, g, g2, n) ==
  IF n = 0 THEN <<g>> ELSE OddAppended(z, OddPowers(z, g, g2, n - 1), g2)

\* The state of the loop is [r, isOne, j, i].  A step is a window, which takes n
\* squarings and a factor, or a zero before one, a squaring without a factor (w = 0).
RECURSIVE Squared(_, _, _)
Squared(z, r, n) == IF n = 0 THEN r ELSE SqrTo(z, Squared(z, r, n - 1))
WithFactor(z, r, odd, w) == IF w = 0 THEN r ELSE MulTo(z, r, odd[(w + 1) \div 2])
MovedOn(v, r, i) ==
  [r |-> r, isOne |-> FALSE,
   j |-> IF i < 0 THEN v.j - 1 ELSE v.j, i |-> IF i < 0 THEN i + DB ELSE i]
Stepped(z, v, odd, n, w) ==
  MovedOn(v, IF v.isOne THEN odd[(w + 1) \div 2] ELSE WithFactor(z, Squared(z, v.r, n), odd, w),
          v.i - n)
BitsSeen(v, e, k) ==
  IF v.i >= k - 1 THEN (e.d[v.j] \div 2^(v.i - k + 1)) % 2^k
  ELSE (e.d[v.j] % 2^(v.i + 1)) * 2^(k - 1 - v.i)
         + (IF v.j > 0 THEN e.d[v.j - 1] \div 2^(DB + v.i - k + 1) ELSE 0)
TrailingZeros(w, k) == Highest({b \in 0..(k - 1) : w % 2^b = 0})
\* <<n, w>> of the step: k bits without their trailing zeros, or one zero.
WindowOf(bits, k) ==
  IF bits < 2^(k - 1) THEN <<1, 0>>
  ELSE <<k - TrailingZeros(bits, k), bits \div 2^TrailingZeros(bits, k)>>
ByWindow(z, v, odd, window) == Stepped(z, v, odd, window[1], window[2])
UnlessEnded(z, v, odd, e, k) ==
  IF v.j < 0 THEN v ELSE ByWindow(z, v, odd, WindowOf(BitsSeen(v, e, k), k))
\* n steps, by halves of which the set has TLC finish the first before it begins the
\* second: its stack is too small for a loop in a loop else.
RECURSIVE Steps(_, _, _, _, _, _)
Steps(z, v, odd, e, k, n) ==
  IF n = 1 THEN UnlessEnded(z, v, odd, e, k)
  ELSE CHOOSE r \in {Steps(z, w, odd, e, k, n - n \div 2) :
                        w \in {Steps(z, v, odd, e, k, n \div 2)}} : TRUE
PowerOf(z, odd, e, k) ==
  Steps(z, [r |-> One, isOne |-> TRUE, j |-> e.t - 1, i |-> NBits(e.d[e.t - 1]) - 1],
        odd, e, k, DB * e.t).r
PowerFrom(z, g, e, k) == PowerOf(z, OddPowers(z, g, SqrTo(z, g), 2^(k - 1) - 1), e, k)
PowerBy(z, x, e, k) == Revert(z, PowerFrom(z, Convert(z, x), e, k))

ModPow(x, e, m) ==
  LET bits == BitLength(e)
      kind == IF bits < NBits(SmallExponent - 1) THEN "Classic"
              ELSE IF IsEven(m) THEN "Barrett" ELSE "Montgomery"
  IN  IF bits <= 0 THEN One ELSE PowerBy([kind |-> kind, m |-> m], x, e, Window(bits))

-----------------------------------------------------------------------------
(***************************************************************************)
(* Divisors and primes                                                     *)
(***************************************************************************)
RECURSIVE GcdOfOdd(_, _)
GcdOfOdd(x, y) ==
  LET Odd(n) == RShiftTo(n, Highest({0, GetLowestSetBit(n)}))
      Next_(u, v) ==
        IF CompareTo(u, v) >= 0 THEN GcdOfOdd(RShiftTo(SubTo(u, v), 1), v)
        ELSE GcdOfOdd(u, RShiftTo(SubTo(v, u), 1))
  IN  IF SigNum(x) <= 0 THEN y ELSE Next_(Odd(x), Odd(y))

GCD(this, a) ==
  LET Times(g, x, y) == LShiftTo(GcdOfOdd(RShiftTo(x, g), RShiftTo(y, g)), g)
      Ordered(x, y) ==
        IF GetLowestSetBit(y) < 0 THEN x
        ELSE Times(Least({GetLowestSetBit(x), GetLowestSetBit(y)}), x, y)
      Of(x, y) == IF CompareTo(x, y) < 0 THEN Ordered(y, x) ELSE Ordered(x, y)
  IN  Of(Abs(this), Abs(a))

\* modInverse, extended binary gcd: u = a*x + b*m and v = c*x + d*m, where a and c
\* are kept only for an even m.  While u is even it is halved together with its
\* coefficients.
RECURSIVE Halved(_, _, _)
HalvedBy(x, m, p, both) ==
  Halved(x, m, [u |-> RShiftTo(p.u, 1),
                a |-> IF ~IsEven(m) THEN p.a
                      ELSE RShiftTo(IF both THEN AddTo(p.a, x) ELSE p.a, 1),
                b |-> RShiftTo(IF both THEN SubTo(p.b, m) ELSE p.b, 1)])
Halved(x, m, p) ==
  IF IsEven(p.u) THEN HalvedBy(x, m, p, ~IsEven(p.b) \/ (IsEven(m) /\ ~IsEven(p.a))) ELSE p
Minus(p, q) == [u |-> SubTo(p.u, q.u), a |-> SubTo(p.a, q.a), b |-> SubTo(p.b, q.b)]
RECURSIVE Reduced(_, _, _, _)
Smaller(x, m, p, q) ==
  IF CompareTo(p.u, q.u) >= 0 THEN Reduced(x, m, Minus(p, q), q) ELSE Reduced(x, m, p, Minus(q, p))
Reduced(x, m, p, q) ==
  IF SigNum(p.u) = 0 THEN q ELSE Smaller(x, m, Halved(x, m, p), Halved(x, m, q))
RaisedBy(d, m) == IF SigNum(d) < 0 THEN AddTo(d, m) ELSE d
InverseFrom(m, q) ==
  IF CompareTo(q.u, One) # 0 THEN Zero
  ELSE IF CompareTo(q.b, m) >= 0 THEN SubTo(q.b, m) ELSE RaisedBy(RaisedBy(q.b, m), m)
ModInverse(x, m) ==
  IF (IsEven(x) /\ IsEven(m)) \/ SigNum(m) = 0 THEN Zero
  ELSE InverseFrom(m, Reduced(x, m, [u |-> m, a |-> One, b |-> Zero],
                                    [u |-> x, a |-> Zero, b |-> One]))

\* One round of millerRabin with the base a: FALSE when a shows that x is composite.
RECURSIVE Squares(_, _, _, _, _), Again(_, _, _, _, _)
Squares(x, y, j, n1, k) ==
  IF j < k /\ CompareTo(y, n1) # 0 THEN Again(x, ModPowInt(y, 2, x), j, n1, k)
  ELSE CompareTo(y, n1) = 0
Again(x, y, j, n1, k) == CompareTo(y, One) # 0 /\ Squares(x, y, j + 1, n1, k)
Begun(x, y, n1, k) == CompareTo(y, One) # 0 /\ CompareTo(y, n1) # 0 => Squares(x, y, 1, n1, k)
Round(x, a, n1, k) == k > 0 /\ Begun(x, ModPow(a, ShiftRight(n1, k), x), n1, k)
Passes(x, a) == LET n1 == SubTo(x, One) IN Round(x, a, n1, GetLowestSetBit(n1))

\* isProbablePrime for the bases that were drawn.  The products of the trial
\* division are taken apart: each low prime divides by itself.
IsPrimeMagnitude(x, bases) ==
  IF x.t <= 1 /\ At(x, 0) <= LowPrimes[Len(LowPrimes)]
    THEN x.t = 1 /\ \E i \in DOMAIN LowPrimes : At(x, 0) = LowPrimes[i]
  ELSE /\ ~IsEven(x)
       /\ \A i \in 2..Len(LowPrimes) : ModInt(x, LowPrimes[i]) # 0
       /\ \A p \in bases : Passes(x, FromInt(p))
IsProbablePrime(n, bases) == IsPrimeMagnitude(Abs(n), bases)

-----------------------------------------------------------------------------
(***************************************************************************)
(* Conversions.  A string is the sequence of its digits, the most          *)
(* significant first; a minus sign is -1, any other character -2.          *)
(***************************************************************************)
\* fromString for a radix of k bits, or the bytes of an array (bytes = TRUE).  A
\* digit goes into the top one of d, sh bits of which are taken, or begins a new one.
ReadInto(d, sh, x, k) ==
  IF sh = 0 THEN Append(d, x)
  ELSE IF sh + k > DB
    THEN Append([d EXCEPT ![Len(d)] = @ + (x % 2^(DB - sh)) * 2^sh], x \div 2^(DB - sh))
  ELSE [d EXCEPT ![Len(d)] = @ + x * 2^sh]
DigitRead(w, x, k) ==
  IF x < 0 THEN [w EXCEPT !.mi = @ \/ x = -1]
  ELSE [mi |-> FALSE, sh |-> IF w.sh + k >= DB THEN w.sh + k - DB ELSE w.sh + k,
        d |-> ReadInto(w.d, w.sh, x, k)]
RECURSIVE DigitsRead(_, _, _)
DigitsRead(s, k, bytes) ==
  IF s = <<>> THEN [d |-> <<>>, sh |-> 0, mi |-> FALSE]
  ELSE DigitRead(DigitsRead(Tail(s), k, bytes), IF bytes THEN s[1] % 2^k ELSE s[1], k)
WithSignBits(w) ==
  IF w.sh > 0 THEN [w.d EXCEPT ![Len(w.d)] = @ + (2^(DB - w.sh) - 1) * 2^w.sh] ELSE w.d
OfDigits(s, d) == Clamp(Number(s, Len(d), [i \in Nat |-> d[i + 1]]))
NumberRead(w, negative) ==
  NegateIf(w.mi, IF negative THEN OfDigits(-1, WithSignBits(w)) ELSE OfDigits(0, w.d))
FromString(s, k, bytes) ==
  NumberRead(DigitsRead(s, k, bytes), bytes /\ s # <<>> /\ (s[1] % 2^k) >= 2^(k - 1))

\* The group of k bits that ends at bit b, from one digit or from two.
Group(x, b, k) ==
  LET i == b \div DB
      off == b % DB
  IN  (At(x, i) \div 2^off + At(x, i + 1) * 2^(DB - off)) % 2^k

\* toString for a radix of k bits of a number that is not negative.
ToString_(x, k) ==
  LET groups == (x.t * DB + k - 1) \div k
      Digit(v, d) == IF v # <<>> \/ d > 0 THEN Append(v, d) ELSE v
      r[n \in 0..groups] ==
        IF n = groups THEN <<>> ELSE Digit(r[n + 1], Group(x, n * k, k))
      NotEmpty(v) == IF v = <<>> THEN <<0>> ELSE v
  IN  NotEmpty(r[0])

ToByteArray(x) ==
  LET rest == (x.t * DB) % ByteBits
      whole == (x.t * DB) \div ByteBits
      head == At(x, x.t - 1) \div 2^(DB - rest)
      r0 == IF rest > 0 /\ head # Filler(x) \div 2^(DB - rest)
              THEN <<head + x.s * 2^rest>> ELSE <<>>
      Signed_(v, d) == IF v = <<>> /\ (d < 0) # (x.s < 0) THEN <<x.s>> ELSE v
      Byte(v, d) == IF v # <<>> \/ d # x.s THEN Append(v, d) ELSE v
      Next_(v, d) == Byte(Signed_(v, d), d)
      r[n \in 0..whole] ==
        IF n = whole THEN r0
        ELSE Next_(r[n + 1], Signed(Group(x, n * ByteBits, ByteBits), ByteBits))
      NotEmpty(v) == IF v = <<>> THEN <<x.s>> ELSE v
  IN  NotEmpty(r[0])

\* Number.prototype.toString of a small number.
RECURSIVE DigitsOf(_, _)
DigitsOf(n, b) == IF n < b THEN <<n>> ELSE Append(DigitsOf(n \div b, b), n % b)

ChunkSize(b) == Highest({n \in 0..DB : b^n <= DV})

\* Chunks of ChunkSize digits, the last of which is not filled up with zeros.
RECURSIVE Chunks(_, _, _)
Chunks(qr, b, r) ==
  IF SigNum(qr.q) > 0
    THEN Chunks(DivRemTo(qr.q, FromInt(b^ChunkSize(b))), b,
                Tail(DigitsOf(b^ChunkSize(b) + IntValue(qr.r), b)) \o r)
    ELSE DigitsOf(IntValue(qr.r), b) \o r
ToRadix(x, b) ==
  IF SigNum(x) = 0 THEN <<0>> ELSE Chunks(DivRemTo(x, FromInt(b^ChunkSize(b))), b, <<>>)

\* The number v.n so far and the v.j digits of the next chunk, v.w.
ChunkAdded(n, b, j, w) == DAddOffset(DMultiply(n, b^j), w, 0)
RadixDigitRead(v, x, b) ==
  IF x < 0 THEN [v EXCEPT !.mi = @ \/ (x = -1 /\ SigNum(v.n) = 0)]
  ELSE IF v.j + 1 >= ChunkSize(b)
    THEN [v EXCEPT !.n = ChunkAdded(@, b, v.j + 1, b * v.w + x), !.j = 0, !.w = 0]
  ELSE [v EXCEPT !.j = @ + 1, !.w = b * @ + x]
RECURSIVE RadixDigitsRead(_, _, _)
RadixDigitsRead(v, s, b) ==
  IF s = <<>> THEN v ELSE RadixDigitsRead(RadixDigitRead(v, s[1], b), Tail(s), b)
WholeNumberRead(v, b) == NegateIf(v.mi, IF v.j > 0 THEN ChunkAdded(v.n, b, v.j, v.w) ELSE v.n)
FromRadix(s, b) ==
  WholeNumberRead(RadixDigitsRead([n |-> Zero, j |-> 0, w |-> 0, mi |-> FALSE], s, b), b)

\* toString and new BigInteger(s, b), with the sign.
PowersOf2 == {2^n : n \in 1..DB}
BitsOfRadix(b) == CHOOSE n \in 1..DB : b = 2^n
MagnitudeText(x, b) == IF b \in PowersOf2 THEN ToString_(x, BitsOfRadix(b)) ELSE ToRadix(x, b)
Text(x, b) == (IF x.s < 0 THEN <<-1>> ELSE <<>>) \o MagnitudeText(Abs(x), b)

Parsed(s, b) ==
  IF b \in PowersOf2 THEN FromString(s, BitsOfRadix(b), FALSE) ELSE FromRadix(s, b)
=============================================================================
