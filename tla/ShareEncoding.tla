--------------------------- MODULE ShareEncoding ---------------------------
(***************************************************************************)
(* How one nonce travels: from the getwork text to the message words that  *)
(* are hashed with it, from the hash to the verdict, and back into the     *)
(* text of the share.  The bitcoin job goes through bytes, 64-bit scalar   *)
(* inputs and slices of the kernel, and its nonce is byte-swapped in the   *)
(* kernel and printed as a number; the scrypt job is decoded into words on *)
(* the host, and its nonce is printed byte by byte.  SHA-256 and scrypt    *)
(* themselves are any function: a hash is any digest.                      *)
(*                                                                         *)
(* A text is a sequence of digits, two to a byte, of a smaller base than   *)
(* 16; words have four bytes as in the source.  Only the second block of   *)
(* the header is followed, from byte 64 on, without its padding: the bytes *)
(* before it are in bitcoin's midstate, and treated alike by scrypt.       *)
(***************************************************************************)
EXTENDS Integers, Sequences

CONSTANTS
  Digit,                              \* the base of the text, 16 in the source
  DataWords,                          \* words before the nonce, 3 in the source
  HashWords,                          \* words of a hash, 8 in the source
  DataTexts, TargetTexts,             \* what a pool may send
  Nonces, Digests                     \* the nonces tried, the digests they may have

\* The powers of a base.
Power(base) == LET power[k \in Nat] == IF k = 0 THEN 1 ELSE base * power[k - 1] IN power

Radix == Digit * Digit                \* the values of a byte
Shift == Power(Radix)                 \* Shift[b]: a one, b bytes up
Byte == 0 .. Radix - 1
Word == 0 .. Shift[4] - 1
NoncePlace == 2 * 4 * DataWords       \* data + 152, counted from byte 64
Text(words) == [0 .. 8 * words - 1 -> 0 .. Digit - 1]

ASSUME EncodingAssumption ==
  /\ Digit \in Nat \ {0, 1} /\ DataWords \in Nat \ {0} /\ HashWords \in Nat \ {0, 1}
  /\ DataTexts \subseteq Text(DataWords + 1)
  /\ TargetTexts \subseteq Text(HashWords)
  /\ Nonces \subseteq Word
  /\ Digests \subseteq [0 .. HashWords - 1 -> Word]

VARIABLES
  pc,                                 \* "text", "parsed", "set", "judged", "sent" or "dropped"
  kind,                               \* the worker: "bc" or "s"
  data_str, target_str,               \* the texts of the getwork reply
  data, target,                       \* work->result: bytes, or words once decoded
  scalars,                            \* the kernel's scalar inputs, "reset" before they are set
  nonce, message, digest,             \* one attempt: what is hashed, and its hash
  found,                              \* the attempt is a share
  sent                                \* the text submitted

vars == <<pc, kind, data_str, target_str, data, target, scalars,
          nonce, message, digest, found, sent>>
job == <<kind, data_str, target_str>>
attempt == <<nonce, message, digest, found>>

-----------------------------------------------------------------------------
\* Bytes and words.

\* The number of n digits of size bytes each, the first one lowest.
Numeral(digits, n, size) ==
  LET sum[k \in Nat] == IF k = 0 THEN 0 ELSE sum[k - 1] + digits[k - 1] * Shift[size * (k - 1)]
  IN sum[n]
LittleEndian(bytes, n) == Numeral(bytes, n, 1)

\* n bytes of x from byte b on, as a number.
Slice(x, b, n) == (x \div Shift[b]) % Shift[n]

\* Two digits of the text make a byte.
HexToBytes(text, size) == [k \in 0 .. size - 1 |-> text[2 * k] * Digit + text[2 * k + 1]]

Le32dec(bytes, w) == LittleEndian([k \in 0 .. 3 |-> bytes[4 * w + k]], 4)
Decoded(bytes, words) == [w \in 0 .. words - 1 |-> Le32dec(bytes, w)]

\* byteSwap32 of the kernel and swab32 of the host.
ByteSwap32(x) == LittleEndian([k \in 0 .. 3 |-> Slice(x, 3 - k, 1)], 4)

\* set_multi_scalar_inputs: eight bytes to a scalar, the last one filled up with
\* zeros; and the raw bits that MultiScalarInputs puts together from them.
NumScalars(len) == (len + 7) \div 8
Scalars(bytes, len) ==
  [w \in 0 .. NumScalars(len) - 1 |->
     LittleEndian([k \in 0 .. 7 |-> IF 8 * w + k < len THEN bytes[8 * w + k] ELSE 0], 8)]
RawBits(words, len) == Numeral(words, NumScalars(len), 8)

\* The kernel's arrays of words; cat puts the last of its arrays first.
Split32(bits, words) == [w \in 1 .. words |-> Slice(bits, 4 * (w - 1), 4)]
Cat(first, second) == second \o first

-----------------------------------------------------------------------------
\* The verdict.

\* a < b, two bytes at a time from the top: a piece that is less decides, one that is
\* equal leaves it to those below.
\* (Mutant: those below decide even if it is greater.)
Piece(x, n) == Slice(x, 2 * n, 2)
LtLoose(a, b, pieces) ==
  LET lt[n \in 1 .. pieces] == Piece(a, n - 1) < Piece(b, n - 1) \/ (n > 1 /\ lt[n - 1])
  IN lt[pieces]
LtPipelined(a, b, pieces) ==
  LET lt[n \in 1 .. pieces] ==
        \/ Piece(a, n - 1) < Piece(b, n - 1)
        \/ n > 1 /\ Piece(a, n - 1) = Piece(b, n - 1) /\ lt[n - 1]
  IN lt[pieces]

\* The digest as a number, its words byte by byte the other way round.
Swapped(h) == [w \in 0 .. HashWords - 1 |-> ByteSwap32(h[w])]
ReorderHash(h) == Numeral(Swapped(h), HashWords, 4)

\* The top word must be zero, all below it less than the target.
CalcMatch(hash2, bits) ==
  LET low == 4 * (HashWords - 1)
  IN /\ LtPipelined(Slice(hash2, 0, low), Slice(bits, 0, low), low \div 2)
     /\ Slice(hash2, low, 4) = 0

\* The host's loop over words from the top to the first that differs; "smaller"
\* stays set if none does.
Smaller(hash, words) ==
  \A w \in 0 .. HashWords - 1 :
    hash[w] # words[w] /\ (\A v \in w + 1 .. HashWords - 1 : hash[v] = words[v])
      => hash[w] < words[w]

-----------------------------------------------------------------------------
\* The share.

\* "%08x", and "%02x" of the nonce's bytes from the lowest on.
Printed(n) == [k \in 0 .. 7 |-> (n \div Power(Digit)[7 - k]) % Digit]
Encoded(n) == [k \in 0 .. 7 |->
  LET p == Slice(n, k \div 2, 1) IN IF k % 2 = 0 THEN p \div Digit ELSE p % Digit]

\* (Mutant: a scrypt nonce is printed like a bitcoin nonce.)
AlwaysPrinted(n) == Printed(n)
NonceText(n) == IF kind = "s" THEN Encoded(n) ELSE Printed(n)

-----------------------------------------------------------------------------
Init ==
  /\ pc = "text" /\ kind \in {"bc", "s"}
  /\ data_str \in DataTexts /\ target_str \in TargetTexts
  /\ data = <<>> /\ target = <<>> /\ scalars = "reset"
  /\ nonce = 0 /\ message = <<>> /\ digest = <<>> /\ found = FALSE
  /\ sent = <<>>

\* parse_json_getwork
ParseGetwork ==
  /\ pc = "text" /\ kind = "bc" /\ pc' = "parsed"
  /\ data' = HexToBytes(data_str, 4 * (DataWords + 1))
  /\ target' = HexToBytes(target_str, 4 * HashWords)
  /\ UNCHANGED <<job, scalars, attempt, sent>>

\* parse_json_getwork_decode
ParseGetworkDecode ==
  /\ pc = "text" /\ kind = "s" /\ pc' = "parsed"
  /\ data' = Decoded(HexToBytes(data_str, 4 * (DataWords + 1)), DataWords + 1)
  /\ target' = Decoded(HexToBytes(target_str, 4 * HashWords), HashWords)
  /\ UNCHANGED <<job, scalars, attempt, sent>>

\* dfe_setup_run_bitcoin
SetScalars ==
  /\ pc = "parsed" /\ kind = "bc" /\ pc' = "set"
  /\ scalars' = [hash1block2 |-> Scalars(data, 4 * DataWords),
                 target |-> Scalars(target, 4 * HashWords)]
  /\ UNCHANGED <<job, data, target, attempt, sent>>

\* One pipe tries one nonce: findMatches.
FindMatches ==
  /\ pc = "set" /\ pc' = "judged"
  /\ \E n \in Nonces, d \in Digests :
       /\ nonce' = n
       /\ message' = Cat(Split32(ByteSwap32(n), 1),
                         Split32(RawBits(scalars.hash1block2, 4 * DataWords), DataWords))
       /\ digest' = d
       /\ found' = CalcMatch(ReorderHash(d), RawBits(scalars.target, 4 * HashWords))
  /\ UNCHANGED <<job, data, target, scalars, sent>>

\* The host prepares the input of one nonce, and compares its output.
Scrypt ==
  /\ pc = "parsed" /\ kind = "s" /\ pc' = "judged"
  /\ \E n \in Nonces, d \in Digests :
       /\ nonce' = n
       /\ message' = [w \in 1 .. DataWords + 1 |-> IF w > DataWords THEN n ELSE data[w - 1]]
       /\ digest' = d
       /\ found' = Smaller(Swapped(d), target)
  /\ UNCHANGED <<job, data, target, scalars, sent>>

\* create_json_getwork_completion and its _encode form.
Submit ==
  /\ pc = "judged" /\ found /\ pc' = "sent"
  /\ sent' = [k \in DOMAIN data_str |->
                IF k - NoncePlace \in 0 .. 7 THEN NonceText(nonce)[k - NoncePlace]
                ELSE data_str[k]]
  /\ UNCHANGED <<job, data, target, scalars, attempt>>

Drop ==
  /\ pc = "judged" /\ ~found /\ pc' = "dropped"
  /\ UNCHANGED <<job, data, target, scalars, attempt, sent>>

Next == ParseGetwork \/ ParseGetworkDecode \/ SetScalars \/ FindMatches \/ Scrypt \/ Submit \/ Drop

Spec == Init /\ [][Next]_vars

-----------------------------------------------------------------------------
\* Properties.

Parsed == pc # "text"
Tried == pc \in {"judged", "sent", "dropped"}

\* Bytes, words and digits stay within their widths.
TypeOK ==
  /\ kind \in {"bc", "s"}
  /\ data_str \in DataTexts /\ target_str \in TargetTexts
  /\ Parsed =>
       IF kind = "s" THEN data \in [0 .. DataWords -> Word] /\ target \in [0 .. HashWords - 1 -> Word]
       ELSE data \in [0 .. 4 * DataWords + 3 -> Byte] /\ target \in [0 .. 4 * HashWords - 1 -> Byte]
  /\ Tried => message \in [1 .. DataWords + 1 -> Word]
  /\ found \in BOOLEAN
  /\ pc = "sent" => sent \in Text(DataWords + 1)

\* The share that is submitted is the header that was hashed: decoding the text
\* (parse_json_getwork_decode) gives the very words that went into SHA-256, for
\* the kernel's way of slicing, joining and swapping as for the host's.
SentIsHashed ==
  pc = "sent" =>
    \A w \in 0 .. DataWords : message[w + 1] = Le32dec(HexToBytes(sent, 4 * (DataWords + 1)), w)

\* The numbers that a digest and a target stand for: their bytes, lowest first.
DigestNumber ==
  LittleEndian([k \in 0 .. 4 * HashWords - 1 |-> Slice(digest[k \div 4], 3 - (k % 4), 1)],
               4 * HashWords)
TargetNumber == LittleEndian(HexToBytes(target_str, 4 * HashWords), 4 * HashWords)

\* Both comparisons order hashes and targets as numbers.  Nothing above the target
\* is submitted, and nothing below it is missed as long as, for the kernel, the
\* target's top word is zero (BitcoinMinerKernel.maxj:231); only a hash equal to
\* the target is judged differently by the two.
FoundIsBelow ==
  Tried =>
    /\ found => DigestNumber <= TargetNumber
    /\ DigestNumber < TargetNumber /\ (kind = "bc" => TargetNumber < Shift[4 * (HashWords - 1)])
         => found

=============================================================================
