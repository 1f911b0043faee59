----------------------------- MODULE SalsaHost -----------------------------
(***************************************************************************)
(* The host's xor_salsa8 (scrypt.c), with which the self test computes     *)
(* scrypt on the CPU.  Its statements are written out one after another, a *)
(* double round in 32 of them.  The refinement says that it computes what  *)
(* the kernel's xor_salsa8 computes: no statement reads what an earlier one*)
(* of its group of four has written.                                       *)
(***************************************************************************)
EXTENDS Sha256Words

CONSTANTS
  Rotl(_, _),                         \* the macro ROTL
  Halves                              \* what B and Bx may hold: sixteen words each

VARIABLES
  B, Bx,                              \* the arguments; B takes the result
  x,                                  \* x00 .. x15, unset before they are copied
  stmt                                \* statements done; -1 before, 129 after the end

salsaVars == <<B, Bx, x, stmt>>

Column == 0 .. 15

ASSUME SalsaAssumption ==
  /\ Halves \subseteq [Column -> Word]
  /\ \A w \in Word : \A by \in {7, 9, 13, 18} : Rotl(w, by) \in Word

\* <<d, a, b, by>> stands for xd ^= ROTL(xa + xb, by).
Columns ==
  << << 4,  0, 12,  7>>, << 9,  5,  1,  7>>, <<14, 10,  6,  7>>, << 3, 15, 11,  7>>,
     << 8,  4,  0,  9>>, <<13,  9,  5,  9>>, << 2, 14, 10,  9>>, << 7,  3, 15,  9>>,
     <<12,  8,  4, 13>>, << 1, 13,  9, 13>>, << 6,  2, 14, 13>>, <<11,  7,  3, 13>>,
     << 0, 12,  8, 18>>, << 5,  1, 13, 18>>, <<10,  6,  2, 18>>, <<15, 11,  7, 18>> >>
Rows ==
  << << 1,  0,  3,  7>>, << 6,  5,  4,  7>>, <<11, 10,  9,  7>>, <<12, 15, 14,  7>>,
     << 2,  1,  0,  9>>, << 7,  6,  5,  9>>, << 8, 11, 10,  9>>, <<13, 12, 15,  9>>,
     << 3,  2,  1, 13>>, << 4,  7,  6, 13>>, << 9,  8, 11, 13>>, <<14, 13, 12, 13>>,
     << 0,  3,  2, 18>>, << 5,  4,  7, 18>>, <<10,  9,  8, 18>>, <<15, 14, 13, 18>> >>

\* Mutant: the rows are walked like columns.
ColumnsOnly(n) == Columns[(n % 16) + 1]

\* The statement that follows n of them.
Statement(n) ==
  IF n % 32 < 16 THEN Columns[(n % 32) + 1] ELSE Rows[(n % 32) - 15]

SalsaInit ==
  /\ B \in Halves /\ Bx \in Halves
  /\ x = B
  /\ stmt = -1

\* x00 = (B[0] ^= Bx[0]) and so on
XorInto ==
  /\ stmt = -1
  /\ B' = [c \in Column |-> Xor(B[c], Bx[c])]
  /\ x' = B'
  /\ stmt' = 0
  /\ UNCHANGED Bx

\* x after the statement d.
AfterStatement(words, d) ==
  [words EXCEPT ![d[1]] = Xor(@, Rotl(Plus(words[d[2]], words[d[3]]), d[4]))]

Operate ==
  /\ stmt \in 0 .. 127
  /\ x' = AfterStatement(x, Statement(stmt))
  /\ stmt' = stmt + 1
  /\ UNCHANGED <<B, Bx>>

\* B[0] += x00 and so on
AddBack ==
  /\ stmt = 128
  /\ B' = [c \in Column |-> Plus(B[c], x[c])]
  /\ stmt' = 129
  /\ UNCHANGED <<Bx, x>>

SalsaNext == XorInto \/ Operate \/ AddBack

SalsaSpec == SalsaInit /\ [][SalsaNext]_salsaVars

-----------------------------------------------------------------------------
\* The words as they are when the statements that are left of the group are done
\* too: the kernel does the group with its first statement.
Left == IF stmt \in 0 .. 127 THEN (4 - (stmt % 4)) % 4 ELSE 0
Completed ==
  LET one == AfterStatement(x, Statement(stmt))
      two == AfterStatement(one, Statement(stmt + 1))
      three == AfterStatement(two, Statement(stmt + 2))
  IN CASE Left = 0 -> x [] Left = 1 -> one [] Left = 2 -> two [] Left = 3 -> three

SalsaOnKernel == INSTANCE SalsaKernel WITH
  half <- B, other <- Bx, x <- Completed,
  group <- CASE stmt = -1 -> -1 [] stmt = 129 -> 33 [] OTHER -> (stmt + 3) \div 4

\* The host and the kernel compute the same salsa20/8: each statement of
\* xor_salsa8 is the kernel's group of four or finishes one the kernel has done.
SalsaAsKernel == SalsaOnKernel!Spec

=============================================================================
