--------------------------- MODULE MCCycleBudget ---------------------------
\* Builds of CycleBudget for TLC.
EXTENDS CycleBudget

Build(p, r, bf, s, c, sf) ==
  [numPipes |-> p, numRecordsPerPipe |-> r, bFreq |-> bf, NumPipes |-> s, Cslow |-> c, sFreq |-> sf]

\* Both kernels, in sizes and clocks around those the parameters declare; the
\* committed bitstream, which has no scrypt; scrypt only.
MCBuilds ==
  {Build(p, r, bf, s, c, sf) : p \in {1, 4, 7, 8}, r \in {4, 8}, bf \in {135, 150, 210},
                               s \in {1, 3, 7}, c \in {4, 10}, sf \in {20, 23, 45}}
  \cup {Build(7, 8, 210, 0, 10, 0), Build(0, 0, 0, 1, 4, 20), Build(0, 0, 0, 3, 10, 45)}

=============================================================================
