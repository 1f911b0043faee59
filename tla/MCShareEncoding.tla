-------------------------- MODULE MCShareEncoding --------------------------
\* Binary digits for ShareEncoding: bytes of two bits, words of eight.
EXTENDS ShareEncoding

\* Texts in which neighbouring words, bytes and digits differ.
MCDataTexts ==
  {[k \in 0 .. 31 |-> IF k % p \in {0, 3} THEN 1 ELSE 0] : p \in {5, 7, 11}}

\* Words with one byte set, with all bytes different, and the extreme ones.
SomeWords == {0, 1, 64, 27, 228, 255}
MCNonces == SomeWords
MCDigests == [0 .. 2 -> SomeWords]

\* Targets among and between the digests: with the top word zero, and without.
\* (Word by word, each from its lowest byte on, the higher digit of a byte first.)
TextOf(words) ==
  LET byte(k) == (words[k \div 8 + 1] \div 4 ^ ((k % 8) \div 2)) % 4
  IN [k \in 0 .. 23 |-> IF k % 2 = 0 THEN byte(k) \div 2 ELSE byte(k) % 2]
MCTargetTexts ==
  {TextOf(words) : words \in {<<0, 0, 0>>, <<0, 27, 0>>, <<64, 27, 0>>, <<228, 255, 0>>,
                              <<255, 1, 0>>, <<16, 0, 1>>, <<27, 228, 64>>}}
=============================================================================
