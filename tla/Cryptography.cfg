SPECIFICATION Spec
CONSTANTS
  DB = 4
  FP = 7
  HB = 3
  ByteBits = 3
  IntBits = 6
  SmallExponent = 4
  MaxExponent = 255
  Windows <- mcWindows
  LowPrimes <- mcLowPrimes
  Bound = 300
  Operands <- mcOperands
  Moduli <- mcModuli
  Exponents <- mcExponents
  Radices <- mcRadices
  Bases <- mcBases
  RsaKeys <- mcRsaKeys
  BlockSize <- mcBlockSize
  LengthSize <- mcLengthSize
  HalfBits = 4
  MaxMessage = 70
  Pieces <- mcPieces
  LineLength = 64
  Unreserved <- mcUnreserved
  Alphabet <- mcAlphabet
  Letters <- mcLetters
  MaxText = 3
  Fillings <- mcFillings
  Hash <- mcHash
  MinPadding = 8
  DigestInfoHead <- mcDigestInfoHead
  Header <- mcHeader
  Signers <- mcSigners
  Payloads <- mcPayloads
  MaxTokens = 2
INVARIANTS
  NumbersAgree
  DigestIsOfMessage
  TextsReadBackOctets
  CertificatesAreRead
  VerifiedIsSigned
CHECK_DEADLOCK FALSE
