----------------------------- MODULE Certificates -----------------------------
(***************************************************************************)
(* How oidc-token-manager.js finds its way in DER: ASN1HEX on the hex of   *)
(* an object, X509 for the key of a certificate, and RSAKey for a PKCS#1   *)
(* private key.  Positions count hex digits from 0, as in the code, and    *)
(* point at a tag; an object is its tag, the octets of its length and its  *)
(* value.  The strings are those of well-formed DER: what the code reads   *)
(* at the position undefined is left out.                                  *)
(***************************************************************************)
EXTENDS Octets
LOCAL INSTANCE SequencesExt

\* JavaScript's substring, and substr for a length.
Clipped(s, p) == IF p < 0 THEN 0 ELSE IF p > Len(s) THEN Len(s) ELSE p
Between(s, a, b) == IF a <= b THEN SubSeq(s, a + 1, b) ELSE SubSeq(s, b + 1, a)
substring(s, from, to) == Between(s, Clipped(s, from), Clipped(s, to))

HexToInt(h) ==
  LET n[i \in 0..Len(h)] == IF i = 0 THEN 0 ELSE 16 * n[i - 1] + h[i] IN n[Len(h)]

-----------------------------------------------------------------------------
(***************************************************************************)
(* ASN1HEX.  -1 and -2 stand for a length that cannot be read.             *)
(***************************************************************************)
\* Mutant: the octet that says how many follow does not count itself.
OctetsOfLRest(digit, n) ==
  IF digit # <<8>> THEN 1 ELSE IF n = 0 THEN -1 ELSE IF n < 10 THEN n ELSE -2

\* How many octets a length has whose first octet is 8n, or short.
OctetsOfL(digit, n) ==
  IF digit # <<8>> THEN 1 ELSE IF n = 0 THEN -1 ELSE IF n < 10 THEN n + 1 ELSE -2
getByteLengthOfL(s, pos) ==
  OctetsOfL(substring(s, pos + 2, pos + 3), HexToInt(substring(s, pos + 3, pos + 4)))

HexOfL(s, pos, len) == IF len < 1 THEN <<>> ELSE substring(s, pos + 2, pos + 2 + len * 2)
getHexOfL(s, pos) == HexOfL(s, pos, getByteLengthOfL(s, pos))

\* The length that its octets hL say: of themselves or of those behind the first.
IntOfL(hL) ==
  IF hL = <<>> THEN -1
  ELSE HexToInt(IF hL[1] < 8 THEN hL ELSE substring(hL, 2, Len(hL)))
getIntOfL(s, pos) == IntOfL(getHexOfL(s, pos))

BehindL(pos, l_len) == IF l_len < 0 THEN l_len ELSE pos + (l_len + 1) * 2
getStartPosOfV(s, pos) == BehindL(pos, getByteLengthOfL(s, pos))

HexFrom(s, pos1, len) == substring(s, pos1, pos1 + len * 2)
getHexOfV(s, pos) == HexFrom(s, getStartPosOfV(s, pos), getIntOfL(s, pos))

getHexOfTLV(s, pos) == substring(s, pos, pos + 2) \o getHexOfL(s, pos) \o getHexOfV(s, pos)

getPosOfNextSibling(s, pos) == getStartPosOfV(s, pos) + getIntOfL(s, pos) * 2

\* Siblings from the first child to the end of the value; there is always one, and
\* there are never more than MaxSiblings after it.
MaxSiblings == 200

RECURSIVE Siblings(_, _, _, _), SiblingsAfter(_, _, _, _)
Siblings(h, p, n, end) == <<p>> \o SiblingsAfter(h, getPosOfNextSibling(h, p), n, end)
SiblingsAfter(h, pNext, n, end) ==
  IF pNext >= end \/ n >= MaxSiblings THEN <<>> ELSE Siblings(h, pNext, n + 1, end)
ChildrenFrom(h, p0, len) == Siblings(h, p0, 0, p0 + len * 2)
getPosArrayOfChildren(h, pos) == ChildrenFrom(h, getStartPosOfV(h, pos), getIntOfL(h, pos))

getNthChildIndex(h, idx, nth) == getPosArrayOfChildren(h, idx)[nth + 1]

getDecendantIndexByNthList(h, currentIndex, nthList) ==
  LET idx[i \in 0..Len(nthList)] ==
        IF i = 0 THEN currentIndex ELSE getNthChildIndex(h, idx[i - 1], nthList[i])
  IN  idx[Len(nthList)]

getDecendantHexTLVByNthList(h, currentIndex, nthList) ==
  getHexOfTLV(h, getDecendantIndexByNthList(h, currentIndex, nthList))

getDecendantHexVByNthList(h, currentIndex, nthList) ==
  getHexOfV(h, getDecendantIndexByNthList(h, currentIndex, nthList))

\* The numbers of an object identifier: two from the first octet, then groups of
\* seven bits up to an octet below 128.
hextooidstr(hex) ==
  LET b == hextoBA(hex)
      Read(w, octet) ==
        LET v == 128 * w.v + (octet % 128)
        IN  IF octet >= 128 THEN [w EXCEPT !.v = v] ELSE [v |-> 0, c |-> Append(w.c, v)]
      read[i \in 1..Len(b)] ==
        IF i = 1 THEN [v |-> 0, c |-> <<b[1] \div 40, b[1] % 40>>] ELSE Read(read[i - 1], b[i])
  IN  read[Len(b)].c

-----------------------------------------------------------------------------
(***************************************************************************)
(* X509                                                                    *)
(***************************************************************************)
Version3 == <<10, 0, 0, 3, 0, 2, 0, 1, 0, 2>>

PublicKeyInfoAmong(hCert, a) ==
  IF substring(hCert, a[1], a[1] + 10) = Version3
    THEN IF Len(a) < 6 THEN -1 ELSE a[7]
    ELSE IF Len(a) < 5 THEN -1 ELSE a[6]
getSubjectPublicKeyInfoPosFromCertHex(hCert) ==
  PublicKeyInfoAmong(hCert, getPosArrayOfChildren(hCert, getStartPosOfV(hCert, 0)))

\* The value of the bit string behind its octet of unused bits, which are none.
BehindUnused(hCert, pV) == IF substring(hCert, pV, pV + 2) # <<0, 0>> THEN -1 ELSE pV + 2
PublicKeyAmong(hCert, a) ==
  IF Len(a) # 2 \/ substring(hCert, a[2], a[2] + 2) # <<0, 3>> THEN -1
  ELSE BehindUnused(hCert, getStartPosOfV(hCert, a[2]))
PublicKeyIn(hCert, pInfo) ==
  IF pInfo = -1 THEN -1 ELSE PublicKeyAmong(hCert, getPosArrayOfChildren(hCert, pInfo))
getSubjectPublicKeyPosFromCertHex(hCert) ==
  PublicKeyIn(hCert, getSubjectPublicKeyInfoPosFromCertHex(hCert))

TwoValues(hCert, a) == IF Len(a) # 2 THEN <<>> ELSE [i \in 1..2 |-> getHexOfV(hCert, a[i])]
getPublicKeyHexArrayFromCertHex(hCert) ==
  TwoValues(hCert, getPosArrayOfChildren(hCert, getSubjectPublicKeyPosFromCertHex(hCert)))

\* readCertPEM: the key that the object then has, and the certificate.
KeyAndCert(a, hCert) == [n |-> a[1], e |-> a[2], hex |-> hCert]
readCertHex(hCert) == KeyAndCert(getPublicKeyHexArrayFromCertHex(hCert), hCert)
readCertPEM(sCertPEM) == readCertHex(pemToHex(sCertPEM))

getSerialNumberHex(hex) == getDecendantHexVByNthList(hex, 0, <<0, 1>>)
getIssuerHex(hex) == getDecendantHexTLVByNthList(hex, 0, <<0, 3>>)
getSubjectHex(hex) == getDecendantHexTLVByNthList(hex, 0, <<0, 5>>)
getNotBefore(hex) == hextoutf8(getDecendantHexVByNthList(hex, 0, <<0, 4, 0>>))
getNotAfter(hex) == hextoutf8(getDecendantHexVByNthList(hex, 0, <<0, 4, 1>>))

\* A distinguished name: type and value of each attribute.
hex2rdn(hRDN) ==
  <<getDecendantHexTLVByNthList(hRDN, 0, <<0, 0>>),
    hextoutf8(getDecendantHexVByNthList(hRDN, 0, <<0, 1>>))>>

NamesAt(hDN, a) == [i \in DOMAIN a |-> hex2rdn(getHexOfTLV(hDN, a[i]))]
hex2dn(hDN) == NamesAt(hDN, getPosArrayOfChildren(hDN, 0))

\* The public key's algorithm, its parameter and its bits; "malformed" for each of
\* the exceptions.
TagAt(h, p) == substring(h, p, p + 2)
WithoutUnused(bits) == substring(bits, 2, Len(bits))
KeyInfo(h, a3, a4) ==
  IF Len(a4) # 2 \/ TagAt(h, a3[2]) # <<0, 3>> THEN "malformed"
  ELSE [algoid |-> getHexOfV(h, a4[1]),
        algparam |-> CASE TagAt(h, a4[2]) = <<0, 6>> -> getHexOfV(h, a4[2])
                       [] TagAt(h, a4[2]) = <<3, 0>> -> getHexOfTLV(h, a4[2])
                       [] OTHER -> <<>>,
        keyhex |-> WithoutUnused(getHexOfV(h, a3[2]))]
Info(h, a3) ==
  IF Len(a3) # 2 THEN "malformed" ELSE KeyInfo(h, a3, getPosArrayOfChildren(h, a3[1]))
InfoInBody(h, a2) ==
  IF Len(a2) < 7 THEN "malformed" ELSE Info(h, getPosArrayOfChildren(h, a2[7]))
InfoInWhole(h, a1) ==
  IF Len(a1) # 3 \/ TagAt(h, a1[1]) # <<3, 0>> THEN "malformed"
  ELSE InfoInBody(h, getPosArrayOfChildren(h, a1[1]))
InfoInCert(h) == InfoInWhole(h, getPosArrayOfChildren(h, 0))
getPublicKeyInfoPropOfCertPEM(sCertPEM) == InfoInCert(pemToHex(sCertPEM))

-----------------------------------------------------------------------------
(***************************************************************************)
(* PKCS#1 private keys                                                     *)
(***************************************************************************)
\* The version and the eight numbers of the key, one behind the other.
NextAppended(h, a) == Append(a, getPosOfNextSibling(h, a[Len(a)]))
getPosArrayOfChildrenFromHex(hPrivateKey) ==
  LET a[n \in 1..9] ==
        IF n = 1 THEN <<getStartPosOfV(hPrivateKey, 0)>> ELSE NextAppended(hPrivateKey, a[n - 1])
  IN  a[9]

ValuesAt(h, posArray) == [i \in 1..9 |-> getHexOfV(h, posArray[i])]
getHexValueArrayOfChildrenFromHex(hPrivateKey) ==
  ValuesAt(hPrivateKey, getPosArrayOfChildrenFromHex(hPrivateKey))

NumbersOfKey(a) ==
  [N |-> a[2], E |-> a[3], D |-> a[4], P |-> a[5], Q |-> a[6], DP |-> a[7], DQ |-> a[8], C |-> a[9]]
readPrivateKeyFromPEMString(keyPEM) ==
  NumbersOfKey(getHexValueArrayOfChildrenFromHex(pemToHex(keyPEM)))
=============================================================================
