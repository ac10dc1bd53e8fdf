------------------------------- MODULE IdTokens -------------------------------
(***************************************************************************)
(* How an id_token is verified: KJUR.jws takes the compact text apart,     *)
(* X509 reads the key of the provider's certificate, RSAKey compares the   *)
(* digest that the signature decrypts to with the digest of the text.  The *)
(* side that signs is in the library, too.                                 *)
(*                                                                         *)
(* Hash stands for hashString (Digests has how messages are fed to it);    *)
(* what JSON says of a header is a constant.  Left out is what needs the   *)
(* SecureRandom, KEYUTIL, HMAC, ECDSA or DSA that the file does not have.  *)
(***************************************************************************)
EXTENDS BigInteger, Certificates

CONSTANTS
  Hash(_, _),       \* hex digits of the hash of a string by an algorithm
  MinPadding,       \* hex digits of 0001, as little padding as there may be, and 00
  DigestInfoHead,   \* [hash algorithm -> hex digits before the hash]
  Header            \* [text of a header -> [object: BOOLEAN, alg]]

\* parseBigInt(h, 16)
parseBigInt(h) == FromString(h, 4, FALSE)

-----------------------------------------------------------------------------
(***************************************************************************)
(* RSAKey                                                                  *)
(***************************************************************************)
setPublic(N, E) == [n |-> parseBigInt(N), e |-> HexToInt(E)]
setPrivate(N, E, D) == [n |-> parseBigInt(N), e |-> HexToInt(E), d |-> parseBigInt(D)]
setPrivateEx(a) ==
  [n |-> parseBigInt(a.N), e |-> HexToInt(a.E), d |-> parseBigInt(a.D),
   p |-> parseBigInt(a.P), q |-> parseBigInt(a.Q),
   dmp1 |-> parseBigInt(a.DP), dmq1 |-> parseBigInt(a.DQ), coeff |-> parseBigInt(a.C)]

\* The key that generate makes of the primes p > q it has drawn.
KeyOf(p, q, e, p1, q1, d) ==
  [n |-> MultiplyTo(p, q), e |-> e, d |-> d, p |-> p, q |-> q,
   dmp1 |-> Mod(d, p1), dmq1 |-> Mod(d, q1), coeff |-> ModInverse(q, p)]
KeyBy(p, q, e, p1, q1) == KeyOf(p, q, e, p1, q1, ModInverse(FromInt(e), MultiplyTo(p1, q1)))
generated(p, q, e) == KeyBy(p, q, e, SubTo(p, One), SubTo(q, One))

doPublic(key, x) == ModPowInt(x, key.e, key.n)

\* By the Chinese remainder theorem when the primes are known.
RECURSIVE RaisedTo(_, _, _)
RaisedTo(xp, xq, p) == IF CompareTo(xp, xq) < 0 THEN RaisedTo(AddTo(xp, p), xq, p) ELSE xp

Combined_(key, xp, xq) ==
  AddTo(MultiplyTo(Mod(MultiplyTo(SubTo(xp, xq), key.coeff), key.p), key.q), xq)
ByRemainders(key, xp, xq) == Combined_(key, RaisedTo(xp, xq, key.p), xq)
doPrivate(key, x) ==
  IF "p" \notin DOMAIN key THEN ModPow(x, key.d, key.n)
  ELSE ByRemainders(key, ModPow(Mod(x, key.p), key.dmp1, key.p),
                         ModPow(Mod(x, key.q), key.dmq1, key.q))

-----------------------------------------------------------------------------
(***************************************************************************)
(* Signatures of a hash                                                    *)
(***************************************************************************)
Digits(x, n) == [i \in 1..(IF n > 0 THEN n ELSE 0) |-> x]
CeilingOf(n, m) == (n + m - 1) \div m

\* 0001ff..ff00, the algorithm and the hash, as long as the key; <<>> for the
\* exception when the key is too short.  A count of fractional digits rounds up.
getPaddedDigestInfoHex(hHash, alg, keySize) ==
  LET hDigestInfo == DigestInfoHead[alg] \o hHash
      fLen == keySize - 4 * (6 + Len(hDigestInfo))
  IN  IF 4 * (Len(hDigestInfo) + MinPadding) > keySize THEN <<>>
      ELSE <<0, 0, 0, 1>> \o Digits(15, 2 * CeilingOf(fLen, 8)) \o <<0, 0>> \o hDigestInfo

zeroPaddingOfSignature(hex, bitLength) ==
  Digits(0, CeilingOf(bitLength - 4 * Len(hex), 4)) \o hex

SignatureOf(key, padded) ==
  IF padded = <<>> THEN <<>>
  ELSE zeroPaddingOfSignature(ToString_(doPrivate(key, parseBigInt(padded)), 4), BitLength(key.n))
signWithMessageHash(key, hHash, alg) ==
  SignatureOf(key, getPaddedDigestInfoHex(hHash, alg, BitLength(key.n)))

\* replace(/^1f+00/, "")
WithoutPadding(h) ==
  LET after == {i \in 2..Len(h) : h[i] # 15}
      end == IF after = {} THEN 0 ELSE Least(after)
  IN  IF h[1] = 1 /\ end > 2 /\ substring(h, end - 1, end + 1) = <<0, 0>>
        THEN substring(h, end + 1, Len(h)) ELSE h

StartsWith(h, prefix) == substring(h, 0, Len(prefix)) = prefix

\* One of the algorithms has its name at the beginning, and its hash of s behind it.
IsDigestInfoOf(info, s) ==
  \E alg \in DOMAIN DigestInfoHead :
    /\ StartsWith(info, DigestInfoHead[alg])
    /\ substring(info, Len(DigestInfoHead[alg]), Len(info)) = Hash(s, alg)
IsSignatureOf(key, s, signature) ==
  /\ BitLength(signature) <= BitLength(key.n)
  /\ IsDigestInfoOf(WithoutPadding(ToString_(doPublic(key, signature), 4)), s)
verifyString(key, s, hSig) == IsSignatureOf(key, s, parseBigInt(hSig))

-----------------------------------------------------------------------------
(***************************************************************************)
(* KJUR.jws.JWS.  A token is its three parts; the object keeps what it has *)
(* parsed or generated (parsedJWS).                                        *)
(***************************************************************************)
Dot == 69
SignatureInput(head, payload) == head \o <<Dot>> \o payload

NotParsed == [known |-> {}]

isSafeJSONString(s) == s \in DOMAIN Header /\ Header[s].object

\* Mutant: what was parsed without its signature will do.
parsedAlreadyAnyhow(parsedJWS, sigValNotNeeded) == "si" \in parsedJWS.known

\* A token that is parsed already, whichever it was, is not parsed again.  One whose
\* header is no JSON object is parsed when the exception is thrown.
parsedAlready(parsedJWS, sigValNotNeeded) ==
  parsedJWS.known # {} /\ (sigValNotNeeded \/ "sigvalH" \in parsedJWS.known)

parseJWS(parsedJWS, sJWS, sigValNotNeeded) ==
  LET new == [known |-> {"si", "headS"} \union (IF sigValNotNeeded THEN {} ELSE {"sigvalH"}),
              headB64U |-> sJWS[1], payloadB64U |-> sJWS[2], sigvalB64U |-> sJWS[3],
              si |-> SignatureInput(sJWS[1], sJWS[2]),
              sigvalH |-> IF sigValNotNeeded THEN <<>> ELSE b64utohex(sJWS[3]),
              headS |-> b64utoutf8(sJWS[1]), payloadS |-> b64utoutf8(sJWS[2])]
      Parsed_(to) == [ok |-> isSafeJSONString(to.headS), parsedJWS |-> to]
  IN  IF parsedAlready(parsedJWS, sigValNotNeeded) THEN [ok |-> TRUE, parsedJWS |-> parsedJWS]
      ELSE IF \E i \in 1..3 : sJWS[i] = <<>> THEN [ok |-> FALSE, parsedJWS |-> parsedJWS]
      ELSE Parsed_(new)

\* (The algorithm in the header plays no part, the one in the signature does.)
verifyWithCert(parsedJWS, x509) ==
  verifyString(setPublic(x509.n, x509.e), parsedJWS.si, parsedJWS.sigvalH)
verifyJWSByPemX509Cert(parsedJWS, sPemX509Cert) ==
  verifyWithCert(parsedJWS, readCertPEM(sPemX509Cert))

\* The hash algorithm of a header; "none" for the exception.
getHashAlgFromParsedHead(head) ==
  CASE head.alg \in {"RS256", "PS256"} -> "sha256"
    [] head.alg \in {"RS512", "PS512"} -> "sha512"
    [] OTHER -> "none"

\* By N, E and D or by a PKCS#1 private key; <<>> for an exception.
WithSignature(head, payload, hSigValue) ==
  IF hSigValue = <<>> THEN <<>> ELSE <<head, payload, hextob64u(hSigValue)>>
signedBy(key, alg, head, payload) ==
  IF alg = "none" THEN <<>>
  ELSE WithSignature(head, payload,
                     signWithMessageHash(key, Hash(SignatureInput(head, payload), alg), alg))
generateJWS(sHead, sPayload, key) ==
  IF ~isSafeJSONString(sHead) THEN <<>>
  ELSE signedBy(key, getHashAlgFromParsedHead(Header[sHead]), utf8tob64u(sHead), utf8tob64u(sPayload))

generatedJWS(sJWS) ==
  [known |-> {"headB64U"}, headB64U |-> sJWS[1], payloadB64U |-> sJWS[2],
   sigvalB64U |-> sJWS[3]]
=============================================================================
