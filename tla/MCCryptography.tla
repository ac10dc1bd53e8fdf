---------------------------- MODULE MCCryptography ----------------------------
(***************************************************************************)
(* Constants for TLC.  A digit of a BigInteger has 4 bits instead of 28, a *)
(* byte of its toByteArray 3, so that one and two digits, carries and sign *)
(* bits are all reached below Bound.  Blocks have 4 and 8 words instead of *)
(* 16 and 32.  The hash is one octet, and so is what stands before it in a *)
(* signature, with one octet of padding: there is room for it in 48 bits.   *)
(***************************************************************************)
EXTENDS Cryptography
LOCAL INSTANCE SequencesExt
LOCAL INSTANCE TLC

mcWindows == <<2, 5, 150, 200>>
mcLowPrimes == <<2, 3, 5, 7>>
mcOperands == {-257, -17, -16, -3, -1, 0, 1, 2, 7, 15, 16, 31, 240, 255, 256, 4080, 65535}
mcModuli == {1, 3, 6, 15, 16, 17, 97, 240, 255}
mcExponents == {0, 1, 2, 3, 5, 11, 29, 100, 255}
mcRadices == {2, 3, 4, 8, 10, 16}
mcBases == {2, 3, 5, 7}
mcRsaKeys == {[p |-> 7, q |-> 5, e |-> 5], [p |-> 19, q |-> 13, e |-> 5], [p |-> 17, q |-> 3, e |-> 3]}

mcBlockSize == [sha256 |-> 4, sha512 |-> 8]
mcLengthSize == [sha256 |-> 2, sha512 |-> 4]
mcPieces == {1, 2, 3, 4, 7, 8, 16, 17, 33}

mcAlphabet == {0, 1, 65, 127, 128, 251, 255}
mcLetters == [c \in {127, 128, 251, 255} |->
  CASE c = 127 -> 37 [] c = 128 -> 128 [] c = 251 -> 2048 [] c = 255 -> 65535]
mcUnreserved == {65}
mcFillings == {0, 1, 40, 100, 120, 127, 250}

mcHash(s, alg) ==
  LET Add(n, x) == (31 * n + x + 1) % 251
      n == FoldLeft(Add, IF alg = "sha256" THEN 1 ELSE 2, s)
  IN  <<n \div 16, n % 16>>
mcDigestInfoHead == [sha256 |-> <<3, 1>>, sha512 |-> <<3, 3>>]

\* Headers by the one letter that stands for their text.
mcHeader ==
  (<<123, 65, 125>> :> [object |-> TRUE, alg |-> "RS256"])
    @@ (<<123, 66, 125>> :> [object |-> TRUE, alg |-> "RS512"])
    @@ (<<123, 67, 125>> :> [object |-> TRUE, alg |-> "HS256"])
    @@ (<<91, 93>> :> [object |-> FALSE, alg |-> "RS256"])
mcSigners == [
  a |-> [N |-> <<10, 1, 6, 11, 8, 0, 2, 3, 3, 14, 10, 11>>,
        E |-> <<0, 3>>,
        D |-> <<6, 11, 9, 12, 15, 15, 0, 8, 7, 2, 2, 11>>],
  b |-> [N |-> <<1, 0, 2, 14, 10, 5, 0, 3, 9, 3, 9, 8, 9, 9>>,
        E |-> <<1, 1>>,
        D |-> <<15, 3, 10, 15, 5, 9, 14, 10, 10, 11, 15, 1>>,
        P |-> <<0, 9, 3, 13, 14, 14, 15, 9>>,
        Q |-> <<0, 1, 12, 0, 3, 14, 10, 1>>,
        DP |-> <<0, 3, 12, 14, 3, 5, 3, 9>>,
        DQ |-> <<0, 1, 3, 12, 6, 8, 7, 1>>,
        C |-> <<0, 6, 12, 9, 1, 10, 15, 5>>]]
mcPayloads == {<<123, 49, 125>>, <<123, 50, 125>>}
=============================================================================
