-------------------------------- MODULE Octets --------------------------------
(***************************************************************************)
(* The texts in which oidc-token-manager.js passes octets around: hex,     *)
(* base64, base64url, PEM lines and percent-escaped UTF-8.                 *)
(*                                                                         *)
(* A string is a sequence.  Its members are the values of hex digits       *)
(* (0..15) in a hex string, indices into b64map (0..63) or one of the      *)
(* symbols below in a base64 string, and character codes in any other.     *)
(* The case of hex digits is left out.                                     *)
(***************************************************************************)
EXTENDS Integers, Sequences
LOCAL INSTANCE SequencesExt

CONSTANTS
  LineLength,    \* characters of a base64 line in PEM text
  Unreserved     \* characters that encodeURIComponent leaves as they are

ASSUME LineAssumption == LineLength \in Nat \ {0}

\* b64map has 62 and 63 at the end, '+' and '/'; what replaces them in base64url.
b64pad == 64
Dash == 65
Underscore == 66
CR == 67
LF == 68

\* A sequence of strings as one, by halves: a certificate has some thousand characters.
RECURSIVE JoinedBetween(_, _, _)
JoinedBetween(parts, a, b) ==
  LET m == (a + b) \div 2
  IN  IF a > b THEN <<>>
      ELSE IF a = b THEN parts[a]
      ELSE JoinedBetween(parts, a, m) \o JoinedBetween(parts, m + 1, b)
Joined(parts) == JoinedBetween(parts, 1, Len(parts))

-----------------------------------------------------------------------------
(***************************************************************************)
(* Hex and base64                                                          *)
(***************************************************************************)
hex2b64(h) ==
  LET n == Len(h)
      Group3(i) == LET c == 256 * h[3 * i - 2] + 16 * h[3 * i - 1] + h[3 * i]
                   IN  <<c \div 64, c % 64>>
      rest == CASE n % 3 = 0 -> <<>>
                [] n % 3 = 1 -> <<h[n] * 4>>
                [] n % 3 = 2 -> LET c == 16 * h[n - 1] + h[n] IN <<c \div 4, (c % 4) * 16>>
      ret == Joined([i \in 1..(n \div 3) |-> Group3(i)]) \o rest
  IN  ret \o [i \in 1..((-Len(ret)) % 4) |-> b64pad]

\* The state k of the decoder is the position modulo 4, slop the bits that the
\* character before has left.
b64tohex(s) ==
  LET pads == {i \in DOMAIN s : s[i] = b64pad}
      before == IF pads = {} THEN s ELSE SubSeq(s, 1, (CHOOSE i \in pads : \A j \in pads : i <= j) - 1)
      v == SelectSeq(before, LAMBDA c : c < b64pad)
      Decoded(i) ==
        CASE i % 4 = 1 -> <<v[i] \div 4>>
          [] i % 4 = 2 -> <<(v[i - 1] % 4) * 4 + v[i] \div 16>>
          [] i % 4 = 3 -> <<v[i - 1] % 16, v[i] \div 4>>
          [] i % 4 = 0 -> <<(v[i - 1] % 4) * 4 + v[i] \div 16, v[i] % 16>>
  IN  Joined([i \in DOMAIN v |-> Decoded(i)])
        \o (IF Len(v) % 4 = 1 THEN <<(v[Len(v)] % 4) * 4>> ELSE <<>>)

\* Octets from pairs of hex digits, a last digit without a partner by itself.
hextoBA(h) ==
  [i \in 1..((Len(h) + 1) \div 2) |->
     IF 2 * i <= Len(h) THEN 16 * h[2 * i - 1] + h[2 * i] ELSE h[2 * i - 1]]

b64toBA(s) == hextoBA(b64tohex(s))

\* A digit of its own gets a zero before it.
BAtohex(a) == Joined([i \in DOMAIN a |-> <<a[i] \div 16, a[i] % 16>>])

hextorstr(h) == [i \in 1..(Len(h) \div 2) |-> 16 * h[2 * i - 1] + h[2 * i]]
rstrtohex(s) == Joined([i \in DOMAIN s |-> <<(s[i] \div 16) % 16, s[i] % 16>>])

-----------------------------------------------------------------------------
(***************************************************************************)
(* base64url and PEM lines                                                 *)
(***************************************************************************)
\* Mutant: replace() with a string, which replaces the first occurrence only.
ReplacedFirst(s, this, that) ==
  [i \in DOMAIN s |-> IF s[i] = this /\ \A j \in 1..(i - 1) : s[j] # this THEN that ELSE s[i]]

Replaced(s, this, that) == [i \in DOMAIN s |-> IF s[i] = this THEN that ELSE s[i]]

b64tob64u(s) ==
  Replaced(Replaced(SelectSeq(s, LAMBDA c : c # b64pad), 62, Dash), 63, Underscore)

b64utob64(s) ==
  LET padded == CASE Len(s) % 4 = 2 -> s \o <<b64pad, b64pad>>
                  [] Len(s) % 4 = 3 -> s \o <<b64pad>>
                  [] OTHER -> s
  IN  Replaced(Replaced(padded, Dash, 62), Underscore, 63)

hextob64u(h) == b64tob64u(hex2b64(h))
b64utohex(s) == b64tohex(b64utob64(s))
stob64u(s) == b64tob64u(hex2b64(BAtohex(s)))
b64utos(s) == b64toBA(b64utob64(s))

\* A line break after every full line, except at the end.
hextob64nl(h) ==
  LET b64 == hex2b64(h)
  IN  Joined([i \in DOMAIN b64 |->
        IF i % LineLength = 0 /\ i < Len(b64) THEN <<b64[i], CR, LF>> ELSE <<b64[i]>>])

b64nltohex(s) == b64tohex(SelectSeq(s, LAMBDA c : c <= b64pad))

\* The text between the header and the footer; b64tohex skips the CR that is left.
pemToHex(s) == b64tohex(SelectSeq(s, LAMBDA c : c # LF))

-----------------------------------------------------------------------------
(***************************************************************************)
(* Percent escapes and UTF-8                                               *)
(***************************************************************************)
Percent == 37
HexChar(n) == IF n < 10 THEN 48 + n ELSE 87 + n
HexValue(c) == IF c < 58 THEN c - 48 ELSE c - 87
Escaped(octet) == <<Percent, HexChar(octet \div 16), HexChar(octet % 16)>>

\* The browser's encodeURIComponent and decodeURIComponent.
UTF8(c) ==
  IF c < 128 THEN <<c>>
  ELSE IF c < 2048 THEN <<192 + c \div 64, 128 + (c % 64)>>
  ELSE <<224 + c \div 4096, 128 + ((c \div 64) % 64), 128 + (c % 64)>>

encodeURIComponent(s) ==
  Joined([i \in DOMAIN s |->
    IF s[i] \in Unreserved THEN <<s[i]>>
    ELSE Joined([j \in DOMAIN UTF8(s[i]) |-> Escaped(UTF8(s[i])[j])])])

decodeURIComponent(s) ==
  LET octets == [i \in 1..(Len(s) \div 3) |-> 16 * HexValue(s[3 * i - 1]) + HexValue(s[3 * i])]
      from[i \in Nat] ==
        IF i > Len(octets) THEN <<>>
        ELSE IF octets[i] < 128 THEN <<octets[i]>> \o from[i + 1]
        ELSE IF octets[i] < 224
          THEN <<(octets[i] % 32) * 64 + (octets[i + 1] % 64)>> \o from[i + 2]
        ELSE <<(octets[i] % 16) * 4096 + (octets[i + 1] % 64) * 64 + (octets[i + 2] % 64)>>
               \o from[i + 3]
  IN  from[1]

\* Escapes the characters, too, that encodeURIComponent has left.
encodeURIComponentAll(u8) ==
  LET s == encodeURIComponent(u8)
      from[i \in Nat] ==
        IF i > Len(s) THEN <<>>
        ELSE IF s[i] = Percent THEN SubSeq(s, i, i + 2) \o from[i + 3]
        ELSE Escaped(s[i]) \o from[i + 1]
  IN  from[1]

uricmptohex(s) ==
  LET digits == SelectSeq(s, LAMBDA c : c # Percent)
  IN  [i \in DOMAIN digits |-> HexValue(digits[i])]

hextouricmp(h) == Joined([i \in 1..(Len(h) \div 2) |-> Escaped(16 * h[2 * i - 1] + h[2 * i])])

utf8tohex(s) == uricmptohex(encodeURIComponentAll(s))
hextoutf8(h) == decodeURIComponent(hextouricmp(h))
utf8tob64u(s) == hextob64u(utf8tohex(s))
b64utoutf8(s) == hextoutf8(b64utohex(s))
=============================================================================
