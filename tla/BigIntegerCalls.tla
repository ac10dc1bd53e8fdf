--------------------------- MODULE BigIntegerCalls ---------------------------
(***************************************************************************)
(* A BigInteger as its user sees it: a number that calls of its methods    *)
(* replace by their result, next to the integer that mathematics gives for *)
(* the same calls.  A result is an argument of the next call, so digits    *)
(* that a method leaves in a wrong shape reach every other method.         *)
(***************************************************************************)
EXTENDS BigInteger

CONSTANTS
  Bound,         \* bound: magnitude of the numbers reached
  Operands,      \* bound: arguments of the calls
  Moduli,        \* bound: moduli, positive
  Exponents,     \* bound: exponents from 0 to MaxExponent
  Radices,       \* bound: radices of strings
  Bases          \* what the random base of a primality test may be

VARIABLES
  number,        \* the object
  value          \* history: what it should be

numberVars == <<number, value>>

NumberInit == value \in {-1, 0, 1} /\ number = FromInt(value)

Becomes(x, v) ==
  /\ -Bound <= v /\ v <= Bound
  /\ number' = x
  /\ value' = v

-----------------------------------------------------------------------------
(***************************************************************************)
(* Reference: the one shape of an integer, and what the calls mean         *)
(***************************************************************************)
Magnitude(v) == IF v < 0 THEN -v ELSE v

\* The shortest digits in two's complement.
RECURSIVE Length(_)
Length(v) == IF v \in {0, -1} THEN 0 ELSE 1 + Length(v \div DV)

Represented(v) ==
  Number(IF v < 0 THEN -1 ELSE 0, Length(v), [i \in Nat |-> (v \div DV^i) % DV])

\* Division that truncates, as JavaScript's.
Quotient(v, w) ==
  LET q == Magnitude(v) \div Magnitude(w) IN IF (v < 0) = (w < 0) THEN q ELSE -q
Remainder(v, w) == v - w * Quotient(v, w)

Divides(n, v) == v % n = 0
Divisor(v, w) ==
  IF v = 0 \/ w = 0 THEN Magnitude(v + w)
  ELSE Highest({n \in 1..Least({Magnitude(v), Magnitude(w)}) : Divides(n, v) /\ Divides(n, w)})

RECURSIVE Power(_, _, _)
Power(v, e, m) ==
  LET half == Power(v, e \div 2, m)
  IN  IF e = 0 THEN 1 % m ELSE (half * half * (IF e % 2 = 1 THEN v % m ELSE 1)) % m

Prime(v) == v > 1 /\ \A n \in 2..(v - 1) : n * n <= v => ~Divides(n, v)

\* A bit of an integer in two's complement, and the integer of such bits.
Bit(v, b) == (v \div 2^b) % 2
BitOf(op, x, y) ==
  CASE op = "and"    -> x * y
    [] op = "or"     -> x + y - x * y
    [] op = "xor"    -> (x + y) % 2
    [] op = "andnot" -> x * (1 - y)

Bitwise_(v, w, op) ==
  LET wide == 5 * DB
      upTo[b \in 0..wide] ==
        IF b = 0 THEN -BitOf(op, Bit(v, wide), Bit(w, wide)) * 2^wide
        ELSE upTo[b - 1] + BitOf(op, Bit(v, b - 1), Bit(w, b - 1)) * 2^(b - 1)
  IN  upTo[wide]

-----------------------------------------------------------------------------
(***************************************************************************)
(* Calls                                                                   *)
(***************************************************************************)
\* add, subtract, negate and abs.
Adds(w) ==
  \/ Becomes(AddTo(number, Represented(w)), value + w)
  \/ Becomes(SubTo(number, Represented(w)), value - w)
  \/ Becomes(SubTo(Represented(w), number), w - value)
  \/ Becomes(Negate(number), -value)
  \/ Becomes(Abs(number), Magnitude(value))

\* multiply and square.
Multiplies(w) ==
  \/ Becomes(MultiplyTo(number, Represented(w)), value * w)
  \/ Becomes(MultiplyTo(Represented(w), number), value * w)
  \/ Becomes(SquareTo(number), value * value)

\* divideAndRemainder, on either side, and mod.
Divisions(w) ==
  \/ /\ w # 0
     /\ LET qr == DivRemTo(number, Represented(w))
        IN  \/ Becomes(qr.q, Quotient(value, w))
            \/ Becomes(qr.r, Remainder(value, w))
  \/ /\ value # 0
     /\ LET qr == DivRemTo(Represented(w), number)
        IN  \/ Becomes(qr.q, Quotient(w, value))
            \/ Becomes(qr.r, Remainder(w, value))
  \/ w # 0 /\ Becomes(DivRemTo(MultiplyTo(number, Represented(w)), Represented(w)).q, value)
  \/ w > 0 /\ Becomes(Mod(number, Represented(w)), value % w)

Shifts(n) ==
  \/ Becomes(ShiftLeft(number, n), value * 2^n)
  \/ Becomes(ShiftRight(number, n), value \div 2^n)
  \/ Becomes(ShiftRight(ShiftLeft(number, n), n), value)
  \/ Becomes(ShiftLeft(number, -n), value \div 2^n)

\* and, or, xor, andNot, not; flipBit stands for setBit and clearBit.
Bits(w) ==
  \/ \E op \in {"and", "or", "xor", "andnot"} :
       Becomes(BitwiseTo(number, Represented(w), op), Bitwise_(value, w, op))
  \/ Becomes(Not_(number), -1 - value)

FlipsBit(n) == Becomes(ChangeBit(number, n, "xor"), Bitwise_(value, 2^n, "xor"))

Divisors(w) ==
  \/ Becomes(GCD(number, Represented(w)), Divisor(value, w))
  \/ Becomes(GCD(Represented(w), number), Divisor(value, w))

CallNumber ==
  \/ \E w \in Operands : Adds(w) \/ Multiplies(w) \/ Divisions(w) \/ Bits(w) \/ Divisors(w)
  \/ \E n \in 0..(2 * DB) : Shifts(n) \/ FlipsBit(n)

-----------------------------------------------------------------------------
(***************************************************************************)
(* Properties                                                              *)
(***************************************************************************)
\* After any sequence of calls the digits are those of the integer that the
\* same operations give, and no superfluous digit is left, on which compareTo,
\* bitLength and the division depend.
Represents == number = Represented(value)

\* compareTo, bitLength, getLowestSetBit, bitCount, testBit, signum and modInt
\* read from the digits what holds of the integer.
QueriesAgree ==
  /\ \A w \in Operands :
       /\ (CompareTo(number, Represented(w)) < 0) = (value < w)
       /\ (CompareTo(number, Represented(w)) = 0) = (value = w)
  /\ BitLength(number) = Least({n \in 0..(3 * DB) : -(2^n) <= value /\ value < 2^n})
  /\ value # 0 => Divides(2^GetLowestSetBit(number), value)
                  /\ ~Divides(2^(GetLowestSetBit(number) + 1), value)
  /\ \A b \in 0..(3 * DB) : TestBit(number, b) = (Bit(value, b) = 1)
  /\ BitCount(number) =
       Cardinality({b \in 0..(3 * DB - 1) : (Bit(value, b) = 1) # (value < 0)})
  /\ SigNum(number) = (IF value < 0 THEN -1 ELSE IF value = 0 THEN 0 ELSE 1)
  /\ \A m \in Moduli : m < DV => ModInt(number, m) = value % m
  /\ ByteValue(number) = Signed(value, ByteBits)
  /\ IntValue(number) = (IF number.t <= 1 THEN value ELSE Signed(value, IntBits))

\* modPow and modPowInt raise to a power modulo m, whichever of the classic,
\* Barrett's and Montgomery's reduction they choose, with and without windows.
RaisedRight ==
  /\ Pow(number, 3) = Represented(value * value * value)
  /\ \A m \in Moduli : \A e \in Exponents :
       LET power == Represented(IF e = 0 THEN 1 ELSE Power(value, e, m))
       IN  /\ ModPow(number, Represented(e), Represented(m)) = power
           /\ ModPowInt(number, e, Represented(m)) = power

\* modInverse finds the inverse of what has one, and zero for the rest.
InversesAgree ==
  \A m \in Moduli \ {1} :
    value > 0 /\ value < m =>
      \E inverse \in {ModInverse(number, Represented(m))} :
        IF Divisor(value, m) = 1
            THEN \E v \in 1..(m - 1) : inverse = Represented(v) /\ (v * value) % m = 1
            ELSE inverse = Zero

\* A number is read back from its own text in every radix and from its bytes,
\* which are as few as show its sign.
TextReadsBack ==
  /\ \A b \in Radices : Parsed(Text(number, b), b) = number
  /\ FromString(ToByteArray(number), ByteBits, TRUE) = number
  /\ LET bytes == ToByteArray(number)
     IN  Len(bytes) > 1 /\ bytes[1] \in {-1, 0} => (bytes[1] < 0) # (bytes[2] < 0)

\* isProbablePrime never rejects a prime, whatever bases are drawn, and below the
\* square of the last low prime it never accepts a composite.
PrimesAreFound ==
  value > 1 /\ value < LowPrimes[Len(LowPrimes)] * LowPrimes[Len(LowPrimes)] =>
    (IsProbablePrime(number, Bases) <=> Prime(value))

=============================================================================
