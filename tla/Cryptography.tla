----------------------------- MODULE Cryptography -----------------------------
(***************************************************************************)
(* The library under the token manager, as its callers use it.  It has     *)
(* four units without state in common: numbers (BigIntegerCalls), message  *)
(* digests, texts and certificates, and the JWS objects that verify an     *)
(* id_token.  A behaviour exercises one of them.                           *)
(***************************************************************************)
EXTENDS BigIntegerCalls, Digests, IdTokens, FiniteSets

CONSTANTS
  RsaKeys,       \* small keys [p, q, e], as integers
  MaxMessage,    \* bound: octets fed to a message digest
  Pieces,        \* bound: lengths of the pieces it is fed in
  Alphabet,      \* bound: octets of texts
  Letters,       \* bound: characters of texts that are encoded as UTF-8
  MaxText,       \* bound: length of texts
  Fillings,      \* bound: octets that make certificates longer
  Signers,       \* [signer -> its key, as hex strings N, E, D, ...]
  Payloads,      \* what tokens say
  MaxTokens      \* bound: tokens issued

VARIABLES
  unit,          \* the unit this behaviour is about
  md,            \* a message digest
  text,          \* octets to be encoded
  parsedJWS,     \* what the JWS object in use has parsed or generated
  signed,        \* constant: what generateJWS makes of headers, payloads and keys
  tokens,        \* the tokens issued: parts, signer
  answer         \* history: the last verification, what it was about

tokenVars == <<parsedJWS, signed, tokens, answer>>
vars == <<unit, numberVars, md, text, tokenVars>>

NoAnswer == [ok |-> FALSE, token |-> <<>>, certificate |-> ""]

-----------------------------------------------------------------------------
(***************************************************************************)
(* Message digests.  The octets of a message are told apart by position.   *)
(***************************************************************************)
MessageOctet(i) == (37 * i) % 256
Message(from, n) == [i \in 1..n |-> MessageOctet(from + i)]

\* updateString and updateHex.
Feed(n) ==
  /\ unit = "digests" /\ md.nDataBytes + n <= MaxMessage
  /\ md' = update(md, Parse(Message(md.nDataBytes, n)))
  /\ UNCHANGED <<unit, numberVars, text, tokenVars>>

\* The blocks of a padded message: 0x80, zeros as few as fit, the length in bits.
Padded(n, algorithm) ==
  LET zeros == (-(n + 1 + LengthSize[algorithm] * WordBytes)) % BlockBytes(algorithm)
      count == LengthSize[algorithm] * WordBytes
  IN  Message(0, n) \o <<128>> \o Blank(zeros)
        \o [i \in 1..count |->
              IF count - i > 2 THEN 0 ELSE ((8 * n) \div 256^(count - i)) % 256]

BlocksOf(octets, size) ==
  [i \in 1..(Len(octets) \div size) |-> [j \in 1..size |-> octets[(i - 1) * size + j]]]

-----------------------------------------------------------------------------
(***************************************************************************)
(* Texts and certificates                                                  *)
(***************************************************************************)
Type(octet) ==
  /\ unit = "texts" /\ Len(text) < MaxText
  /\ text' = Append(text, octet)
  /\ UNCHANGED <<unit, numberVars, md, tokenVars>>

\* DER, as certificates are written.
LengthOf(n) ==
  IF n < 128 THEN BAtohex(<<n>>)
  ELSE IF n < 256 THEN BAtohex(<<129, n>>)
  ELSE BAtohex(<<130, n \div 256, n % 256>>)
Object(tag, v) == BAtohex(<<tag>>) \o LengthOf(Len(v) \div 2) \o v
PositiveInteger(h) == Object(2, IF h[1] >= 8 THEN <<0, 0>> \o h ELSE h)

RsaEncryption == BAtohex(<<42, 134, 72, 134, 247, 13, 1, 1, 1>>)
Algorithm == Object(48, Object(6, RsaEncryption) \o Object(5, <<>>))
CommonName == Object(6, BAtohex(<<85, 4, 3>>))
Name(h) == Object(48, Object(49, Object(48, CommonName \o Object(12, h))))
Time == Object(23, BAtohex(<<57, 57, 90>>))
PublicKey(n, e) == Object(48, PositiveInteger(n) \o PositiveInteger(e))

Certificate(version3, serial, issuer, subject, n, e) ==
  Object(48,
    Object(48, (IF version3 THEN Object(160, Object(2, <<0, 2>>)) ELSE <<>>)
                 \o Object(2, serial) \o Algorithm \o Name(issuer) \o Object(48, Time \o Time)
                 \o Name(subject)
                 \o Object(48, Algorithm \o Object(3, <<0, 0>> \o PublicKey(n, e))))
      \o Algorithm \o Object(3, <<0, 0>> \o serial))

PrivateKey(k) ==
  Object(48, Object(2, <<0, 0>>) \o PositiveInteger(k.N) \o PositiveInteger(k.E)
               \o PositiveInteger(k.D) \o PositiveInteger(k.P) \o PositiveInteger(k.Q)
               \o PositiveInteger(k.DP) \o PositiveInteger(k.DQ) \o PositiveInteger(k.C))

-----------------------------------------------------------------------------
(***************************************************************************)
(* Tokens.  OidcClient takes a new JWS object for every token it validates *)
(***************************************************************************)
CertificateOf(signer) ==
  hextob64nl(Certificate(TRUE, <<0, 1>>, <<4, 1>>, <<4, 2>>, Signers[signer].N, Signers[signer].E))

\* What generateJWSByNED and, with a PKCS#1 key, generateJWSByP1PrvKey return.
RsaKeyOf(signer) ==
  LET key == Signers[signer]
  IN  IF "P" \in DOMAIN key
        THEN setPrivateEx(readPrivateKeyFromPEMString(hextob64nl(PrivateKey(key))))
        ELSE setPrivate(key.N, key.E, key.D)

SignedTokens ==
  Computed([t \in (DOMAIN Header) \X Payloads \X (DOMAIN Signers) |->
              generateJWS(t[1], t[2], RsaKeyOf(t[3]))])

NewJWS ==
  /\ unit = "tokens" /\ parsedJWS # NotParsed
  /\ parsedJWS' = NotParsed /\ answer' = NoAnswer
  /\ UNCHANGED <<unit, numberVars, md, text, signed, tokens>>

Generate(head, payload, signer) ==
  \E sJWS \in {signed[head, payload, signer]} \ {<<>>} :
    /\ Cardinality(tokens) < MaxTokens
    /\ parsedJWS' = generatedJWS(sJWS)
    /\ tokens' = tokens \union {[parts |-> sJWS, signer |-> signer]}
    /\ answer' = NoAnswer
    /\ UNCHANGED <<unit, numberVars, md, text, signed>>

\* A token as it was issued, or with the payload of another one.
Presented ==
  {t.parts : t \in tokens}
    \union {<<t.parts[1], u.parts[2], t.parts[3]>> : t \in tokens, u \in tokens}

ParseOnly(sJWS) ==
  /\ unit = "tokens" /\ sJWS \in Presented
  /\ parsedJWS' = parseJWS(parsedJWS, sJWS, TRUE).parsedJWS /\ answer' = NoAnswer
  /\ UNCHANGED <<unit, numberVars, md, text, signed, tokens>>

\* verifyJWSByPemX509Cert on an object that has parsed no token with its signature.
Verified(parsed, signer) ==
  parsed.ok /\ verifyJWSByPemX509Cert(parsed.parsedJWS, CertificateOf(signer))
Verify(sJWS, signer) ==
  /\ unit = "tokens" /\ sJWS \in Presented
  /\ "sigvalH" \notin parsedJWS.known
  /\ \E parsed \in {parseJWS(parsedJWS, sJWS, FALSE)} :
       /\ parsedJWS' = parsed.parsedJWS
       /\ answer' = [ok |-> Verified(parsed, signer), token |-> sJWS, certificate |-> signer]
  /\ UNCHANGED <<unit, numberVars, md, text, signed, tokens>>

-----------------------------------------------------------------------------
Init ==
  /\ unit \in {"numbers", "digests", "texts", "tokens"}
  /\ IF unit = "numbers" THEN NumberInit ELSE value = 0 /\ number = Zero
  /\ IF unit = "digests" THEN \E algorithm \in DOMAIN BlockSize : md = reset(algorithm)
     ELSE md = reset(CHOOSE algorithm \in DOMAIN BlockSize : TRUE)
  /\ text = <<>>
  /\ signed = IF unit = "tokens" THEN SignedTokens ELSE <<>>
  /\ parsedJWS = NotParsed /\ tokens = {} /\ answer = NoAnswer

Next ==
  \/ unit = "numbers" /\ CallNumber /\ UNCHANGED <<unit, md, text, tokenVars>>
  \/ \E n \in Pieces : Feed(n)
  \/ \E octet \in Alphabet : Type(octet)
  \/ NewJWS
  \/ /\ unit = "tokens"
     /\ \E head \in DOMAIN Header, payload \in Payloads, signer \in DOMAIN Signers :
          Generate(head, payload, signer)
  \/ \E sJWS \in Presented : ParseOnly(sJWS) \/ \E signer \in DOMAIN Signers : Verify(sJWS, signer)

Spec == Init /\ [][Next]_vars

-----------------------------------------------------------------------------
(***************************************************************************)
(* Properties                                                              *)
(***************************************************************************)
\* What doPublic does, doPrivate undoes, with the primes of the key and without.
RsaInverts ==
  \A key \in RsaKeys :
    value >= 0 /\ value < key.p * key.q =>
      \A withPrimes \in BOOLEAN : \A k \in {generated(Represented(key.p), Represented(key.q), key.e)} :
        LET known == IF withPrimes THEN k ELSE [n |-> k.n, e |-> k.e, d |-> k.d]
        IN  doPrivate(known, doPublic(known, number)) = number

\* Powers are right by whichever reduction modPow and modPowInt choose, inverses are
\* found where there are any, a number is called prime when it is, and with all of
\* this an RSA key of two such primes undoes what its public half has done.
PowersAgree == RaisedRight /\ InversesAgree /\ PrimesAreFound /\ RsaInverts

\* The digits of a number are those of the integer that the same calls give, no
\* superfluous digit is left, on which compareTo, bitLength and the division rely,
\* and what is read from a number or its text, and its powers, are the integer's.
NumbersAgree ==
  unit = "numbers" => Represents /\ QueriesAgree /\ TextReadsBack /\ PowersAgree

\* The words that SHA512 adds up in halves, carry by carry, are the sums of the words
\* although the halves are cut off late or never.
SumsAgree ==
  LET w == X64Word(value \div 2^HalfBits, Cut(value))
      Of(word) == (word.high * 2^HalfBits + Cut(word.low)) % 2^(2 * HalfBits)
      Halves == {0, 1, 2^(HalfBits - 1), 2^HalfBits - 1}
      Words == [high : {0, 2^HalfBits - 1}, low : Halves]
  IN  value >= 0 =>
        /\ Of(w) = value % 2^(2 * HalfBits)
        /\ \A x, y, z \in Words :
             /\ Of(ScheduledWord(w, x, y, z)) = (value + Of(x) + Of(y) + Of(z)) % 2^(2 * HalfBits)
             /\ Of(ScheduledWord(x, y, z, w)) = (value + Of(x) + Of(y) + Of(z)) % 2^(2 * HalfBits)
             /\ Of(RoundSum(x, w, y, z, ScheduledWord(x, y, z, w)))
                  = (2 * (value + Of(x) + Of(y) + Of(z))) % 2^(2 * HalfBits)
             /\ Of(HashSum(HashSum(w, x), y)) = (value + Of(x) + Of(y)) % 2^(2 * HalfBits)

\* In whatever pieces a message came, whether it ends before, in or behind the room
\* for its length: the digest takes in the blocks of the padded message, and the sums
\* of 64-bit words that SHA512 makes of them are right.
DigestIsOfMessage ==
  /\ unit = "digests" =>
       /\ digest(md) = BlocksOf(Padded(md.nDataBytes, md.algorithm), BlockBytes(md.algorithm))
       /\ digest(md) = hashHex(Message(0, md.nDataBytes), md.algorithm)
  /\ unit = "numbers" => SumsAgree

\* Every encoding is undone by its decoder, and base64url needs no padding.
TextsReadBackOctets ==
  LET h == BAtohex(text)
      s == [i \in DOMAIN text |-> IF text[i] \in DOMAIN Letters THEN Letters[text[i]] ELSE text[i]]
  IN  /\ b64tohex(hex2b64(h)) = h /\ Len(hex2b64(h)) % 4 = 0
      /\ b64utohex(hextob64u(h)) = h /\ ~\E i \in DOMAIN hextob64u(h) : hextob64u(h)[i] \in {62, 63, b64pad}
      /\ b64nltohex(hextob64nl(h)) = h /\ pemToHex(hextob64nl(h)) = h
      /\ hextorstr(rstrtohex(text)) = text
      /\ b64utos(stob64u(text)) = text
      /\ b64utoutf8(utf8tob64u(s)) = s

\* The key and the fields of a certificate are found, whatever the lengths of its
\* fields make of the lengths before them.
CertificatesAreRead ==
  Len(text) \in 1..2 =>
    \A version3 \in BOOLEAN, filling \in Fillings :
      LET h == BAtohex(text)
          longer == h \o BAtohex([i \in 1..filling |-> 65])
          hex == Certificate(version3, h, longer, h, longer, h)
          key == readCertPEM(hextob64nl(hex))
          Unsigned(v) == IF v[1] >= 8 THEN <<0, 0>> \o v ELSE v
      IN  /\ key = [n |-> Unsigned(longer), e |-> Unsigned(h), hex |-> hex]
          /\ version3 =>
               /\ getSerialNumberHex(hex) = h
               /\ getIssuerHex(hex) = Name(longer) /\ getSubjectHex(hex) = Name(h)
               /\ getNotBefore(hex) = <<57, 57, 90>> /\ getNotAfter(hex) = <<57, 57, 90>>
               /\ LET info == getPublicKeyInfoPropOfCertPEM(hextob64nl(hex))
                  IN  info = [algoid |-> RsaEncryption, algparam |-> <<>>,
                              keyhex |-> PublicKey(longer, h)]
               /\ LET letters == [i \in 1..(filling + 1) |-> 65]
                  IN  hex2dn(Name(BAtohex(letters))) = <<<<CommonName, letters>>>>
               /\ hextooidstr(RsaEncryption) = <<1, 2, 840, 113549, 1, 1, 1>>

\* A token verifies by the certificate of its signer and by no other, and with no
\* payload but its own.
VerifiedIsSigned ==
  answer # NoAnswer =>
    (answer.ok <=> \E t \in tokens : t.parts = answer.token /\ t.signer = answer.certificate)
=============================================================================
