---------------------------- MODULE SalsaKernel ----------------------------
(***************************************************************************)
(* The scrypt kernel's xor_salsa8 (ScryptKernel.maxj), as its loops unroll *)
(* into hardware.  The statements come in groups of four: four sums are    *)
(* rotated at once, and four words take them in.                           *)
(***************************************************************************)
EXTENDS Sha256Words

CONSTANTS
  Rotl(_, _),                         \* a word turned left by some bits
  Halves                              \* what B and Bx may hold: sixteen words each

VARIABLES
  half, other,                        \* B and Bx
  x,                                  \* the working words, unset before they are copied
  group                               \* groups done; -1 before, 33 after the end

Column == 0 .. 15

\* Four times "word takes in the sum of two words", and the rotation.
Group(by, a, b, c, d) == [by |-> by, quads |-> <<a, b, c, d>>]
Groups ==
  <<Group( 7, << 4,  0, 12>>, << 9,  5,  1>>, <<14, 10,  6>>, << 3, 15, 11>>),
    Group( 9, << 8,  4,  0>>, <<13,  9,  5>>, << 2, 14, 10>>, << 7,  3, 15>>),
    Group(13, <<12,  8,  4>>, << 1, 13,  9>>, << 6,  2, 14>>, <<11,  7,  3>>),
    Group(18, << 0, 12,  8>>, << 5,  1, 13>>, <<10,  6,  2>>, <<15, 11,  7>>),
    Group( 7, << 1,  0,  3>>, << 6,  5,  4>>, <<11, 10,  9>>, <<12, 15, 14>>),
    Group( 9, << 2,  1,  0>>, << 7,  6,  5>>, << 8, 11, 10>>, <<13, 12, 15>>),
    Group(13, << 3,  2,  1>>, << 4,  7,  6>>, << 9,  8, 11>>, <<14, 13, 12>>),
    Group(18, << 0,  3,  2>>, << 5,  4,  7>>, <<10,  9,  8>>, <<15, 14, 13>>)>>

\* t[q]
Rotated(words, g, q) ==
  Rotl(Plus(words[g.quads[q][2]], words[g.quads[q][3]]), g.by)

\* x after the group g.
AfterGroup(words, g) ==
  [c \in Column |->
     IF \E q \in 1 .. 4 : g.quads[q][1] = c
     THEN Xor(words[c], Rotated(words, g, CHOOSE q \in 1 .. 4 : g.quads[q][1] = c))
     ELSE words[c]]

Init ==
  /\ half \in Halves /\ other \in Halves
  /\ x = half
  /\ group = -1

\* x[i] = (B[i] ^= Bx[i])
Load ==
  /\ group = -1
  /\ half' = [c \in Column |-> Xor(half[c], other[c])]
  /\ x' = half'
  /\ group' = 0
  /\ UNCHANGED other

\* Four double rounds of eight groups.
MixGroup ==
  /\ group \in 0 .. 31
  /\ x' = AfterGroup(x, Groups[(group % 8) + 1])
  /\ group' = group + 1
  /\ UNCHANGED <<half, other>>

\* B[i] += x[i]
Add ==
  /\ group = 32
  /\ half' = [c \in Column |-> Plus(half[c], x[c])]
  /\ group' = 33
  /\ UNCHANGED <<other, x>>

Next == Load \/ MixGroup \/ Add

Spec == Init /\ [][Next]_<<half, other, x, group>>

=============================================================================
