------------------------- MODULE PoolSessionProofs -------------------------
(***************************************************************************)
(* Proofs about PoolSession, for any jobs, results, bounds, replies: the   *)
(* session invariant is inductive, and from it no match is forgotten, no   *)
(* result is handed in twice and the worker's books are the pool's, as     *)
(* long as every answer has a body; and "none" counts what it counts.      *)
(***************************************************************************)
EXTENDS PoolSession, FiniteSetTheorems, TLAPS

Share == [job : Jobs, nonce : Nonces, ok : BOOLEAN]

-----------------------------------------------------------------------------
\* Texts and replies.

\* What the buffer holds after a reply is a text, and the reply itself if it has a body.
LEMMA TextsLemma ==
  ASSUME buf \in Texts, NEW body \in Odd \cup {Work(j) : j \in Jobs} \cup {Verdict(ok) : ok \in BOOLEAN}
  PROVE  /\ Junk \in Texts
         /\ TextAfter(body) \in Texts
         /\ body # Empty => TextAfter(body) = body
BY DEF Texts, Odd, TextAfter, Empty, Junk, NullResult, Error, Foreign, Work, Verdict

\* A text says what it is.
LEMMA KindsLemma ==
  ASSUME NEW text \in Texts
  PROVE  /\ text.kind = "work" => text.job \in Jobs /\ text = Work(text.job)
         /\ text.kind = "verdict" => text.ok \in BOOLEAN /\ text = Verdict(text.ok)
         /\ text \in Odd => text.kind \in {"null", "error", "foreign", "junk"}
BY DEF Texts, Odd, Empty, Junk, NullResult, Error, Foreign, Work, Verdict

-----------------------------------------------------------------------------
\* The pool's record of the shares it has received.

\* One share more, at the end.
LEMMA AppendLemma ==
  ASSUME received \in Seq(Share), NEW share \in Share, received' = Append(received, share)
  PROVE  /\ received' \in Seq(Share)
         /\ Len(received') = Len(received) + 1
         /\ \A n \in 1 .. Len(received) : received'[n] = received[n]
         /\ received'[Len(received) + 1] = share
         /\ Shares' = Shares \cup {share}
<1>1. /\ received' \in Seq(Share)
      /\ Len(received') = Len(received) + 1
      /\ \A n \in 1 .. Len(received) : received'[n] = received[n]
      /\ received'[Len(received) + 1] = share
  OBVIOUS
<1>2. Len(received) \in Nat /\ 1 .. Len(received') = 1 .. Len(received) \cup {Len(received) + 1}
  BY <1>1
<1>3. Shares' = Shares \cup {share}
  BY <1>1, <1>2 DEF Shares
<1> QED BY <1>1, <1>3

\* The receptions of some shares, counted, with one share more.
NumberIn(S) == Cardinality({n \in 1 .. Len(received) : received[n] \in S})

LEMMA ReceptionsLemma ==
  ASSUME received \in Seq(Share), NEW share \in Share, received' = Append(received, share),
         NEW S
  PROVE  /\ NumberIn(S) \in Nat
         /\ NumberIn(S)' = NumberIn(S) + (IF share \in S THEN 1 ELSE 0)
<1> DEFINE before == {n \in 1 .. Len(received) : received[n] \in S}
           after == {n \in 1 .. Len(received') : received'[n] \in S}
<1>1. Len(received) \in Nat /\ IsFiniteSet(1 .. Len(received))
  BY FS_Interval
<1>2. IsFiniteSet(before) /\ Cardinality(before) \in Nat
  BY <1>1, FS_Subset, FS_CardinalityType
<1>3. Len(received) + 1 \notin before
  BY <1>1
<1>4. Cardinality(before \cup {Len(received) + 1}) = Cardinality(before) + 1
  BY <1>2, <1>3, FS_AddElement
<1>5. 1 .. Len(received') = 1 .. Len(received) \cup {Len(received) + 1}
  BY <1>1, AppendLemma
<1>6. after = IF share \in S THEN before \cup {Len(received) + 1} ELSE before
  BY <1>5, AppendLemma
<1>7. NumberIn(S) = Cardinality(before) /\ NumberIn(S)' = Cardinality(after)
  BY DEF NumberIn
<1> HIDE DEF before, after
<1> QED BY <1>2, <1>4, <1>6, <1>7

\* The shares with one verdict, counted, with one share more.
LEMMA JudgedLemma ==
  ASSUME received \in Seq(Share), NEW share \in Share, received' = Append(received, share),
         NEW ok \in BOOLEAN
  PROVE  /\ Judged(ok) \in Nat
         /\ Judged(ok)' = IF share.ok = ok THEN Judged(ok) + 1 ELSE Judged(ok)
<1>1. PICK S : S = {s \in Share : s.ok = ok}
  OBVIOUS
<1>2. received' \in Seq(Share) /\ (share \in S <=> share.ok = ok)
  BY <1>1, AppendLemma
<1>3. Judged(ok) = NumberIn(S)
  <2>1. {n \in 1 .. Len(received) : received[n] \in S}
           = {n \in 1 .. Len(received) : received[n].ok = ok}
    BY <1>1
  <2> QED BY <2>1 DEF NumberIn, Judged
<1>4. Judged(ok)' = NumberIn(S)'
  <2>1. {n \in 1 .. Len(received') : received'[n] \in S}
           = {n \in 1 .. Len(received') : received'[n].ok = ok}
    BY <1>1, <1>2
  <2> QED BY <2>1 DEF NumberIn, Judged
<1>5. NumberIn(S) \in Nat /\ NumberIn(S)' = NumberIn(S) + (IF share \in S THEN 1 ELSE 0)
  BY ReceptionsLemma
<1> QED BY <1>2, <1>3, <1>4, <1>5

\* The receptions of one share, whatever the verdicts, with one share more.
LEMMA TimesLemma ==
  ASSUME received \in Seq(Share), NEW share \in Share, received' = Append(received, share),
         NEW j, NEW x
  PROVE  /\ TimesReceived(j, x) \in Nat
         /\ TimesReceived(j, x)' = TimesReceived(j, x) + (IF share.job = j /\ share.nonce = x THEN 1 ELSE 0)
<1>1. PICK S : S = {s \in Share : s.job = j /\ s.nonce = x}
  OBVIOUS
<1>2. received' \in Seq(Share) /\ (share \in S <=> share.job = j /\ share.nonce = x)
  BY <1>1, AppendLemma
<1>3. TimesReceived(j, x) = NumberIn(S)
  <2>1. {n \in 1 .. Len(received) : received[n] \in S}
           = {n \in 1 .. Len(received) : received[n].job = j /\ received[n].nonce = x}
    BY <1>1
  <2> QED BY <2>1 DEF NumberIn, TimesReceived
<1>4. TimesReceived(j, x)' = NumberIn(S)'
  <2>1. {n \in 1 .. Len(received') : received'[n] \in S}
           = {n \in 1 .. Len(received') : received'[n].job = j /\ received'[n].nonce = x}
    BY <1>1, <1>2
  <2> QED BY <2>1 DEF NumberIn, TimesReceived
<1>5. NumberIn(S) \in Nat /\ NumberIn(S)' = NumberIn(S) + (IF share \in S THEN 1 ELSE 0)
  BY ReceptionsLemma
<1> QED BY <1>2, <1>3, <1>4, <1>5

-----------------------------------------------------------------------------
\* What the two requests come to.

\* A getwork ends in a job, in another try or in the end of the process; a job the
\* pool has issued before, only if an answer had no body.
LEMMA GetworkCases ==
  ASSUME TypeOK, Getwork
  PROVE  /\ pc = "getwork" /\ UNCHANGED <<kind, found, stats, received>>
         /\ buf' \in Texts
         /\ issued \subseteq issued' /\ issued' \subseteq Jobs
         /\ silent' \in BOOLEAN /\ (silent => silent')
         /\ \/ RetryOrExit
            \/ Exit
            \/ StartWork(NoJob)
            \/ \E j \in Jobs : StartWork(j) /\ (~silent' => j \in issued' \ issued)
<1>0. /\ pc = "getwork" /\ UNCHANGED <<kind, found, stats, received>>
      /\ buf \in Texts /\ issued \subseteq Jobs /\ silent \in BOOLEAN
  BY DEF Getwork, TypeOK
<1>1. ASSUME buf' \in {buf, Junk}, RetryOrExit, UNCHANGED <<issued, silent>>
      PROVE  buf' \in Texts /\ issued' \subseteq Jobs /\ issued \subseteq issued'
             /\ silent' \in BOOLEAN /\ (silent => silent')
  BY <1>0, <1>1 DEF Texts, Odd, Junk, Empty
<1>2. ASSUME NEW body \in Odd \cup {Work(j) : j \in Jobs \ issued},
             Hear(body),
             issued' = IF body.kind = "work" THEN issued \cup {body.job} ELSE issued,
             ParseGetwork(TextAfter(body))
      PROVE  /\ buf' \in Texts
             /\ issued \subseteq issued' /\ issued' \subseteq Jobs
             /\ silent' \in BOOLEAN /\ (silent => silent')
             /\ \/ RetryOrExit
                \/ Exit
                \/ StartWork(NoJob)
                \/ \E j \in Jobs : StartWork(j) /\ (~silent' => j \in issued' \ issued)
  <2>1. /\ TextAfter(body) \in Texts
        /\ body # Empty => TextAfter(body) = body
    BY <1>0, TextsLemma
  <2>2. body.kind = "work" => \E j \in Jobs \ issued : body = Work(j) /\ body.job = j
    BY DEF Odd, Empty, Junk, NullResult, Error, Foreign, Work
  <2>3. /\ buf' = TextAfter(body)
        /\ silent' \in BOOLEAN /\ (silent => silent') /\ (~silent' => body # Empty)
    BY <1>0, <1>2 DEF Hear
  <2>4. issued \subseteq issued' /\ issued' \subseteq Jobs
    BY <1>0, <1>2, <2>2
  <2>5. CASE TextAfter(body).kind = "work" /\ StartWork(TextAfter(body).job)
    <3>1. TextAfter(body).job \in Jobs
      BY <2>1, <2>5, KindsLemma
    <3>2. ~silent' => TextAfter(body).job \in issued' \ issued
      BY <1>2, <2>1, <2>2, <2>3, <2>5
    <3> QED BY <2>1, <2>3, <2>4, <2>5, <3>1, <3>2
  <2> QED BY <1>2, <2>1, <2>3, <2>4, <2>5 DEF ParseGetwork
<1> QED BY <1>0, <1>1, <1>2 DEF Getwork

\* The matching results of a job are results, and each has a nonce: a scrypt result
\* its index.
LEMMA FoundLemma ==
  ASSUME TypeOK, NEW j \in Jobs \cup {NoJob}
  PROVE  /\ Hits(j) \subseteq Results /\ IsFiniteSet(Hits(j))
         /\ \A k \in Hits(j) : found[j][k] \in Nonces /\ (kind = "s" => found[j][k] = k)
<1>1. CASE j = NoJob
  BY <1>1, FS_EmptySet DEF Hits
<1>2. CASE j # NoJob
  <2>1. /\ j \in Jobs /\ Hits(j) = DOMAIN found[j]
        /\ found[j] \in Findings /\ (kind = "s" => found[j] \in ScryptFindings)
    BY <1>2 DEF Hits, TypeOK, ScryptFindings
  <2>2. PICK matching \in SUBSET Results : found[j] \in [matching -> Nonces]
    BY <2>1 DEF Findings
  <2>3. IsFiniteSet(Results)
    BY NumbersAssumption, FS_Interval DEF Results
  <2>4. kind = "s" => \A k \in Hits(j) : found[j][k] = k
    BY <2>1 DEF ScryptFindings
  <2> QED BY <2>1, <2>2, <2>3, <2>4, FS_Subset
<1> QED BY <1>1, <1>2

\* A submission ends in a count or in the end of the process; the count is of the
\* pool's own verdict on this share, unless an answer had no body.
LEMMA SubmitCases ==
  ASSUME TypeOK, Submit
  PROVE  /\ pc = "scan" /\ i \in Results /\ i \in Matching /\ work \in Jobs
         /\ found[work][i] \in Nonces /\ (kind = "s" => found[work][i] = i)
         /\ UNCHANGED <<kind, found, issued>>
         /\ buf' \in Texts
         /\ silent' \in BOOLEAN /\ (silent => silent')
         /\ received' = received \/ \E ok \in BOOLEAN : Judge(ok)
         /\ \/ Exit /\ UNCHANGED stats
            \/ silent' /\ \E ok \in BOOLEAN : Count(ok)
            \/ \E ok \in BOOLEAN : Judge(ok) /\ Count(ok)
<1>0. /\ pc = "scan" /\ i < NumResults /\ i \in Matching /\ UNCHANGED <<kind, found, issued>>
      /\ i \in 0 .. NumResults /\ NumResults \in Nat /\ work \in Jobs \cup {NoJob}
      /\ buf \in Texts /\ silent \in BOOLEAN
  BY NumbersAssumption DEF Submit, TypeOK
<1>1. /\ i \in Results /\ work \in Jobs
      /\ found[work][i] \in Nonces /\ (kind = "s" => found[work][i] = i)
  <2>1. i \in Results /\ work \in Jobs
    BY <1>0 DEF Results, Matching, Hits
  <2> QED BY <1>0, <2>1, FoundLemma DEF Matching
<1>2. ASSUME NEW body \in Odd \cup {Verdict(ok) : ok \in BOOLEAN}, Hear(body),
             ParseCompletion(TextAfter(body))
      PROVE  /\ buf' \in Texts /\ silent' \in BOOLEAN /\ (silent => silent')
             /\ \/ Exit /\ UNCHANGED stats
                \/ silent' /\ \E ok \in BOOLEAN : Count(ok)
                \/ body.kind = "verdict" /\ Count(body.ok)
  <2>1. /\ TextAfter(body) \in Texts
        /\ body # Empty => TextAfter(body) = body
    BY <1>0, TextsLemma
  <2>2. /\ buf' = TextAfter(body)
        /\ silent' \in BOOLEAN /\ (silent => silent') /\ (~silent' => body # Empty)
    BY <1>0, <1>2 DEF Hear
  <2>3. body.kind # "work"
    BY DEF Odd, Empty, Junk, NullResult, Error, Foreign, Verdict
  <2>4. TextAfter(body).kind = "verdict" => TextAfter(body).ok \in BOOLEAN
    BY <2>1, KindsLemma
  <2> QED BY <1>2, <2>1, <2>2, <2>3, <2>4 DEF ParseCompletion
<1>3. CASE /\ (\E ok \in BOOLEAN : Judge(ok)) \/ UNCHANGED received
           /\ \/ buf' \in {buf, Junk} /\ Exit /\ UNCHANGED <<stats, silent>>
              \/ \E body \in Odd : Hear(body) /\ ParseCompletion(TextAfter(body))
  <2>1. CASE buf' \in {buf, Junk} /\ Exit /\ UNCHANGED <<stats, silent>>
    BY <1>0, <1>1, <1>3, <2>1, TextsLemma DEF stats, Texts, Odd, Junk, Empty
  <2>2. ASSUME NEW body \in Odd, Hear(body), ParseCompletion(TextAfter(body))
        PROVE  /\ buf' \in Texts /\ silent' \in BOOLEAN /\ (silent => silent')
               /\ \/ Exit /\ UNCHANGED stats
                  \/ silent' /\ \E ok \in BOOLEAN : Count(ok)
    <3>1. body.kind # "verdict"
      BY DEF Odd, Empty, Junk, NullResult, Error, Foreign
    <3> QED BY <1>2, <2>2, <3>1
  <2> QED BY <1>0, <1>1, <1>3, <2>1, <2>2
<1>4. ASSUME NEW ok \in BOOLEAN, Judge(ok), Hear(Verdict(ok)), ParseCompletion(TextAfter(Verdict(ok)))
      PROVE  /\ buf' \in Texts /\ silent' \in BOOLEAN /\ (silent => silent')
             /\ \/ Exit /\ UNCHANGED stats
                \/ silent' /\ \E v \in BOOLEAN : Count(v)
                \/ Judge(ok) /\ Count(ok)
  <2>1. Verdict(ok).kind = "verdict" /\ Verdict(ok).ok = ok
    BY DEF Verdict
  <2> QED BY <1>2, <1>4, <2>1
<1> QED BY <1>0, <1>1, <1>3, <1>4 DEF Submit

-----------------------------------------------------------------------------
\* Types.

\* A retry, the end of the process, a new job and a count keep their types.
LEMMA OutcomeTypes ==
  ASSUME TypeOK
  PROVE  /\ Exit /\ UNCHANGED kind =>
              /\ pc' = "exited" /\ work' = work /\ i' = i /\ mined' = mined
              /\ tries' \in 0 .. MaxTries /\ (kind' = "bc" => tries' = 0)
         /\ RetryOrExit /\ UNCHANGED kind =>
              /\ pc' \in {pc, "exited"} /\ work' = work /\ i' = i /\ mined' = mined
              /\ tries' \in 0 .. MaxTries /\ (kind' = "bc" => tries' = 0)
         /\ \A j \in Jobs \cup {NoJob} : StartWork(j) /\ UNCHANGED kind =>
              /\ pc' = "scan" /\ work' = j /\ i' = 0 /\ mined' \in Seq(Jobs \cup {NoJob})
              /\ tries' \in 0 .. MaxTries /\ (kind' = "bc" => tries' = 0)
<1> USE NumbersAssumption DEF TypeOK
<1>1. ASSUME Exit, UNCHANGED kind
      PROVE  /\ pc' = "exited" /\ work' = work /\ i' = i /\ mined' = mined
             /\ tries' \in 0 .. MaxTries /\ (kind' = "bc" => tries' = 0)
  BY <1>1 DEF Exit
<1>2. ASSUME RetryOrExit, UNCHANGED kind
      PROVE  /\ pc' \in {pc, "exited"} /\ work' = work /\ i' = i /\ mined' = mined
             /\ tries' \in 0 .. MaxTries /\ (kind' = "bc" => tries' = 0)
  BY <1>2 DEF RetryOrExit, Exit
<1>3. ASSUME NEW j \in Jobs \cup {NoJob}, StartWork(j), UNCHANGED kind
      PROVE  /\ pc' = "scan" /\ work' = j /\ i' = 0 /\ mined' \in Seq(Jobs \cup {NoJob})
             /\ tries' \in 0 .. MaxTries /\ (kind' = "bc" => tries' = 0)
  BY <1>3 DEF StartWork
<1> QED BY <1>1, <1>2, <1>3

\* Where a count leaves the walk.
LEMMA CountLemma ==
  ASSUME TypeOK, i \in Results, NEW ok \in BOOLEAN, Count(ok)
  PROVE  /\ matches' = (IF ok THEN matches + 1 ELSE matches) /\ matches' \in Nat
         /\ reject' = (IF ok THEN reject ELSE reject + 1) /\ reject' \in Nat
         /\ i' \in 0 .. NumResults /\ i < i'
         /\ kind = "bc" \/ ok => i' = i + 1
         /\ UNCHANGED <<none, pc, tries, work, mined>>
BY NumbersAssumption DEF TypeOK, Count, NextIndex, Results

\* Every step keeps the types.
LEMMA TypeStep == TypeOK /\ [Next]_vars => TypeOK'
<1> SUFFICES ASSUME TypeOK, [Next]_vars PROVE TypeOK'
  OBVIOUS
<1>1. CASE Getwork
  <2>1. /\ UNCHANGED <<kind, found, matches, reject, none, received>>
        /\ buf' \in Texts /\ issued' \subseteq Jobs /\ silent' \in BOOLEAN
    BY <1>1, GetworkCases DEF stats
  <2>2. /\ pc' \in {"getwork", "scan", "exited"} /\ i' \in 0 .. NumResults
        /\ work' \in Jobs \cup {NoJob} /\ mined' \in Seq(Jobs \cup {NoJob})
        /\ tries' \in 0 .. MaxTries /\ (kind' = "bc" => tries' = 0)
    BY <1>1, <2>1, GetworkCases, OutcomeTypes, NumbersAssumption DEF TypeOK
  <2> QED BY <2>1, <2>2 DEF TypeOK
<1>2. CASE Submit
  <2>1. /\ pc = "scan" /\ i \in Results /\ work \in Jobs /\ found[work][i] \in Nonces
        /\ UNCHANGED <<kind, found, issued>> /\ buf' \in Texts /\ silent' \in BOOLEAN
    BY <1>2, SubmitCases
  <2>2. received' \in Seq(Share)
    <3>1. \A ok \in BOOLEAN : [job |-> work, nonce |-> found[work][i], ok |-> ok] \in Share
      BY <2>1 DEF Share
    <3>2. received \in Seq(Share)
      BY DEF TypeOK, Share
    <3>3. ASSUME NEW ok \in BOOLEAN, Judge(ok) PROVE received' \in Seq(Share)
      BY <3>1, <3>2, <3>3, AppendLemma DEF Judge
    <3> QED BY <1>2, <3>2, <3>3, SubmitCases
  <2>3. CASE Exit /\ UNCHANGED stats
    BY <2>1, <2>2, <2>3, OutcomeTypes DEF TypeOK, stats, Share
  <2>4. ASSUME NEW ok \in BOOLEAN, Count(ok) PROVE TypeOK'
    BY <2>1, <2>2, <2>4, CountLemma DEF TypeOK, Share
  <2> QED BY <1>2, <2>3, <2>4, SubmitCases
<1>3. CASE SkipResult
  BY <1>3, NumbersAssumption DEF SkipResult, TypeOK, stats, pool
<1>4. CASE EndScan
  BY <1>4, NumbersAssumption DEF EndScan, TypeOK, pool
<1>5. CASE Exited \/ UNCHANGED vars
  BY <1>5 DEF Exited, vars, TypeOK, stats, pool
<1> QED BY <1>1, <1>2, <1>3, <1>4, <1>5 DEF Next

-----------------------------------------------------------------------------
\* The session.

\* A share of the job that the pool receives: it is one of the shares from then on,
\* with the nonce that its result holds.
LEMMA JudgeLemma ==
  ASSUME TypeOK, found[work][i] \in Nonces, work \in Jobs, NEW ok \in BOOLEAN, Judge(ok)
  PROVE  LET share == [job |-> work, nonce |-> found[work][i], ok |-> ok]
         IN  /\ share \in Share /\ received' = Append(received, share)
             /\ received \in Seq(Share)
             /\ Shares' = Shares \cup {share}
<1> DEFINE share == [job |-> work, nonce |-> found[work][i], ok |-> ok]
<1>1. share \in Share /\ received \in Seq(Share) /\ received' = Append(received, share)
  BY DEF Share, TypeOK, Judge
<1> QED BY <1>1, AppendLemma

\* The shares are the pool's record.
LEMMA SharesType ==
  ASSUME TypeOK
  PROVE  \A share \in Shares : share.job \in Jobs /\ share.nonce \in Nonces
<1>1. received \in Seq(Share) /\ Len(received) \in Nat
  BY DEF TypeOK, Share
<1>2. \A n \in 1 .. Len(received) : received[n] \in Share
  BY <1>1
<1>3. Shares \subseteq Share
  BY <1>2 DEF Shares
<1> QED BY <1>3 DEF Share

\* What is covered stays covered while the job is the same.
LEMMA CoveredLemma ==
  ASSUME Shares \subseteq Shares', UNCHANGED <<kind, work, found>>, NEW k, Covered(k)
  PROVE  Covered(k)'
BY DEF Covered

\* The pool only gains shares.
LEMMA SharesGrow ==
  ASSUME TypeOK, Submit
  PROVE  Shares \subseteq Shares'
<1>1. found[work][i] \in Nonces /\ work \in Jobs
  BY SubmitCases
<1>2. ASSUME received' = received PROVE Shares' = Shares
  BY <1>2 DEF Shares
<1> QED BY <1>1, <1>2, SubmitCases, JudgeLemma

\* Receptions and passed results are numbers; no share has been received of a job
\* that the pool has had none of.
LEMMA TimesType ==
  ASSUME TypeOK, NEW j \in Jobs, NEW x
  PROVE  /\ TimesReceived(j, x) \in Nat
         /\ (\A share \in Shares : share.job # j) => TimesReceived(j, x) = 0
         /\ IsFiniteSet(Passed(j, x)) /\ Cardinality(Passed(j, x)) \in Nat
<1> DEFINE of == {n \in 1 .. Len(received) : received[n].job = j /\ received[n].nonce = x}
<1>1. Len(received) \in Nat
  BY DEF TypeOK
<1>2. IsFiniteSet(of) /\ Cardinality(of) \in Nat
  <2>1. IsFiniteSet(1 .. Len(received)) /\ of \subseteq 1 .. Len(received)
    BY <1>1, FS_Interval
  <2> HIDE DEF of
  <2> QED BY <2>1, FS_Subset, FS_CardinalityType
<1>3. (\A share \in Shares : share.job # j) => of = {}
  BY DEF Shares
<1>4. Passed(j, x) \subseteq Hits(j) /\ IsFiniteSet(Hits(j))
  BY FoundLemma DEF Passed, Carriers
<1> HIDE DEF of
<1> QED BY <1>2, <1>3, <1>4, FS_EmptySet, FS_Subset, FS_CardinalityType DEF TimesReceived, of

\* When no share is received and the results passed are still passed, no share has been
\* received too often.
LEMMA PassedGrows ==
  ASSUME TypeOK, UNCHANGED found, NEW j \in Jobs, NEW x,
         TimesReceived(j, x) <= Cardinality(Passed(j, x)),
         received' = received, Passed(j, x) \subseteq Passed(j, x)'
  PROVE  TimesReceived(j, x)' <= Cardinality(Passed(j, x)')
<1>1. TimesReceived(j, x)' = TimesReceived(j, x) /\ TimesReceived(j, x) \in Nat
  BY TimesType DEF TimesReceived
<1>2. IsFiniteSet(Passed(j, x)) /\ Cardinality(Passed(j, x)) \in Nat
  BY TimesType
<1>3. IsFiniteSet(Passed(j, x)') /\ Cardinality(Passed(j, x)') \in Nat
  <2>1. Passed(j, x)' \subseteq Hits(j) /\ IsFiniteSet(Hits(j))
    BY FoundLemma DEF Passed, Carriers, Hits
  <2> QED BY <2>1, FS_Subset, FS_CardinalityType
<1>4. Cardinality(Passed(j, x)) <= Cardinality(Passed(j, x)')
  BY <1>3, FS_Subset
<1> QED BY <1>1, <1>2, <1>3, <1>4

\* A step hands in a share at most once for a result that it passes.
LEMMA TimesStep ==
  ASSUME SessionInv, [Next]_vars, ~silent', NEW j \in Jobs, NEW x \in Nonces
  PROVE  TimesReceived(j, x)' <= Cardinality(Passed(j, x)')
<1>0. /\ TypeOK /\ i \in 0 .. NumResults /\ NumResults \in Nat /\ silent \in BOOLEAN
      /\ Hits(j) \subseteq Results /\ IsFiniteSet(Hits(j))
  BY FoundLemma, NumbersAssumption DEF SessionInv, TypeOK
<1>1. ASSUME silent => silent', UNCHANGED found, received' = received,
             Passed(j, x) \subseteq Passed(j, x)'
      PROVE  TimesReceived(j, x)' <= Cardinality(Passed(j, x)')
  BY <1>0, <1>1, PassedGrows DEF SessionInv, OncePassed
\* The walk goes on or breaks off, with the same job.
<1>2. ASSUME UNCHANGED <<found, work>>, pc' = "exited" \/ (pc # "exited" /\ i' \in Nat /\ i <= i')
      PROVE  Passed(j, x) \subseteq Passed(j, x)'
  BY <1>0, <1>2 DEF Passed, Carriers, Hits, Results
<1>3. CASE Submit
  <2>1. /\ pc = "scan" /\ i \in Results /\ i \in Matching /\ work \in Jobs
        /\ found[work][i] \in Nonces /\ UNCHANGED found /\ (silent => silent')
    BY <1>0, <1>3, SubmitCases
  <2>2. /\ work' = work
        /\ pc' = "exited" \/ (pc' = pc /\ i' \in Nat /\ i < i')
    <3>1. ASSUME NEW ok \in BOOLEAN, Count(ok) PROVE work' = work /\ pc' = pc /\ i' \in Nat /\ i < i'
      BY <1>0, <2>1, <3>1, CountLemma
    <3> QED BY <1>0, <1>3, <3>1, SubmitCases DEF Exit
  <2>3. Passed(j, x) \subseteq Passed(j, x)'
    BY <1>0, <1>2, <2>1, <2>2
  <2>4. ASSUME NEW ok \in BOOLEAN, Judge(ok)
        PROVE  TimesReceived(j, x)' <= Cardinality(Passed(j, x)')
    <3> DEFINE new == [job |-> work, nonce |-> found[work][i], ok |-> ok]
               mine == work = j /\ found[work][i] = x
               before == Passed(j, x)
               after == Passed(j, x)'
    <3>1. /\ new \in Share /\ received \in Seq(Share) /\ received' = Append(received, new)
          /\ new.job = work /\ new.nonce = found[work][i]
      BY <1>0, <2>1, <2>4, JudgeLemma
    <3> HIDE DEF new
    <3>2. TimesReceived(j, x)' = TimesReceived(j, x) + (IF mine THEN 1 ELSE 0)
      BY <3>1, TimesLemma
    <3>3. TimesReceived(j, x) \in Nat /\ IsFiniteSet(before) /\ Cardinality(before) \in Nat
      BY <1>0, TimesType
    <3>4. TimesReceived(j, x) <= Cardinality(before)
      BY <2>1 DEF SessionInv, OncePassed
    <3>5. after \subseteq Hits(j) /\ IsFiniteSet(after) /\ Cardinality(after) \in Nat
      <4>1. after \subseteq Hits(j)
        BY <2>1 DEF Passed, Carriers, Hits
      <4> QED BY <1>0, <4>1, FS_Subset, FS_CardinalityType
    <3>6. mine => i \notin before /\ i \in after
      BY <1>0, <2>1, <2>2 DEF Passed, Carriers, Hits, Matching
    <3> HIDE DEF before, after, mine
    <3>7. CASE mine
      <4>1. Cardinality(before \cup {i}) = Cardinality(before) + 1 /\ IsFiniteSet(before \cup {i})
        BY <3>3, <3>6, <3>7, FS_AddElement
      <4>2. before \cup {i} \subseteq after
        BY <2>3, <3>6, <3>7 DEF before, after
      <4>3. Cardinality(before \cup {i}) <= Cardinality(after)
        BY <3>5, <4>2, FS_Subset
      <4>4. TimesReceived(j, x)' <= Cardinality(after)
        BY <3>2, <3>3, <3>4, <3>5, <3>7, <4>1, <4>3
      <4> QED BY <4>4 DEF after
    <3>8. CASE ~mine
      <4>1. Cardinality(before) <= Cardinality(after)
        BY <2>3, <3>5, FS_Subset DEF before, after
      <4>2. TimesReceived(j, x)' <= Cardinality(after)
        BY <3>2, <3>3, <3>4, <3>5, <3>8, <4>1
      <4> QED BY <4>2 DEF after
    <3> QED BY <3>7, <3>8
  <2> QED BY <1>0, <1>1, <1>3, <2>1, <2>3, <2>4, SubmitCases
<1>4. CASE Getwork
  <2>1. /\ pc = "getwork" /\ UNCHANGED <<found, received>> /\ (silent => silent')
    BY <1>0, <1>4, GetworkCases
  <2>2. ASSUME RetryOrExit \/ Exit PROVE TimesReceived(j, x)' <= Cardinality(Passed(j, x)')
    <3>1. work' = work /\ i' = i /\ pc' \in {pc, "exited"}
      BY <2>2 DEF RetryOrExit, Exit
    <3>2. Passed(j, x) \subseteq Passed(j, x)'
      BY <1>0, <1>2, <2>1, <3>1
    <3> QED BY <1>1, <2>1, <3>2
  <2>3. ASSUME NEW new \in Jobs \cup {NoJob}, StartWork(new), new # j
        PROVE  TimesReceived(j, x)' <= Cardinality(Passed(j, x)')
    <3>1. Passed(j, x) \subseteq Passed(j, x)'
      BY <2>1, <2>3 DEF Passed, Carriers, Hits, StartWork
    <3> QED BY <1>1, <2>1, <3>1
  <2>4. ASSUME j \in issued' \ issued
        PROVE  TimesReceived(j, x)' <= Cardinality(Passed(j, x)')
    <3>1. \A share \in Shares : share.job # j
      BY <2>1, <2>4 DEF SessionInv
    <3>2. TimesReceived(j, x)' = 0
      <4>1. TimesReceived(j, x) = 0
        BY <1>0, <3>1, TimesType
      <4>2. TimesReceived(j, x)' = TimesReceived(j, x)
        BY <2>1 DEF TimesReceived
      <4> QED BY <4>1, <4>2
    <3>3. Passed(j, x)' \subseteq Hits(j)
      BY <2>1 DEF Passed, Carriers, Hits
    <3>4. Cardinality(Passed(j, x)') \in Nat
      BY <1>0, <3>3, FS_Subset, FS_CardinalityType
    <3> QED BY <3>2, <3>4
  <2> QED BY <1>0, <1>4, <2>2, <2>3, <2>4, GetworkCases, JobsAssumption
<1>5. CASE SkipResult
  <2>1. /\ pc = "scan" /\ i' = i + 1 /\ UNCHANGED <<found, pc, work, received, silent>>
    BY <1>5 DEF SkipResult, pool
  <2>2. Passed(j, x) \subseteq Passed(j, x)'
    BY <1>0, <1>2, <2>1
  <2> QED BY <1>1, <2>1, <2>2
<1>6. CASE EndScan \/ Exited \/ UNCHANGED vars
  <2>1. /\ UNCHANGED <<found, work, i, received, silent>>
        /\ pc = "exited" => pc' = "exited"
    BY <1>6 DEF EndScan, Exited, vars, pool
  <2>2. Passed(j, x) \subseteq Passed(j, x)'
    BY <1>0, <1>2, <2>1
  <2> QED BY <1>1, <2>1, <2>2
<1> QED BY <1>3, <1>4, <1>5, <1>6 DEF Next

\* Every step keeps the count of receptions below that of the results passed.
LEMMA OnceStep == SessionInv /\ [Next]_vars /\ ~silent' => OncePassed'
<1> SUFFICES ASSUME SessionInv, [Next]_vars, ~silent', NEW j \in Jobs, NEW x \in Nonces
             PROVE  TimesReceived(j, x)' <= Cardinality(Passed(j, x)')
  BY DEF OncePassed
<1> QED BY TimesStep

\* Every step keeps the session invariant.
LEMMA SessionStep == SessionInv /\ [Next]_vars => SessionInv'
<1> SUFFICES ASSUME SessionInv, [Next]_vars PROVE SessionInv'
  OBVIOUS
<1>0. TypeOK /\ TypeOK' /\ (~silent' => OncePassed')
  BY TypeStep, OnceStep DEF SessionInv
<1>1. CASE Getwork
  <2>1. /\ pc = "getwork" /\ UNCHANGED <<kind, found, received>>
        /\ issued \subseteq issued' /\ (silent => silent')
    BY <1>0, <1>1, GetworkCases
  <2>2. Shares' = Shares /\ \A share \in Shares : share.job \in Jobs
    BY <1>0, <2>1, SharesType DEF Shares
  <2>3. CASE /\ pc' \in {pc, "exited"} /\ work' = work /\ i' = i
    <3>1. Matching' = Matching /\ \A k : Covered(k)' <=> Covered(k)
      BY <2>1, <2>2, <2>3 DEF Matching, Hits, Covered
    <3> QED BY <1>0, <2>1, <2>2, <2>3, <3>1 DEF SessionInv
  <2>4. ASSUME NEW j \in Jobs \cup {NoJob}, StartWork(j),
               j = NoJob \/ (~silent' => j \in issued' \ issued)
        PROVE  SessionInv'
    <3>1. pc' = "scan" /\ work' = j /\ i' = 0
      BY <2>4 DEF StartWork
    <3>2. \A k \in Matching' : ~(k < 0)
      <4>1. Matching' \subseteq Results
        BY <1>0, <2>1, <3>1, FoundLemma DEF Matching, Hits
      <4> QED BY <4>1, NumbersAssumption DEF Results
    <3>3. ~silent' => \A share \in Shares : share.job \in issued /\ share.job # j
      BY <2>1, <2>2, <2>4, JobsAssumption DEF SessionInv
    <3> QED BY <1>0, <2>1, <2>2, <2>4, <3>1, <3>2, <3>3 DEF SessionInv
  <2> QED BY <1>0, <1>1, <2>1, <2>3, <2>4, GetworkCases, OutcomeTypes
<1>2. CASE Submit
  <2>1. /\ pc = "scan" /\ i \in Results /\ i \in Matching /\ work \in Jobs
        /\ found[work][i] \in Nonces /\ (kind = "s" => found[work][i] = i)
        /\ UNCHANGED <<kind, found, issued>> /\ (silent => silent')
    BY <1>0, <1>2, SubmitCases
  <2>2. Shares \subseteq Shares'
    BY <1>0, <1>2, SharesGrow
  <2>3. ASSUME ~silent' PROVE \A share \in Shares' : share.job \in issued'
    <3>1. /\ ~silent /\ work \in issued /\ issued' = issued
          /\ \A share \in Shares : share.job \in issued
      BY <2>1, <2>3, JobsAssumption DEF SessionInv
    <3>2. received' = received => Shares' = Shares
      BY DEF Shares
    <3>3. ASSUME NEW ok \in BOOLEAN, Judge(ok) PROVE \A share \in Shares' : share.job \in issued'
      <4> DEFINE new == [job |-> work, nonce |-> found[work][i], ok |-> ok]
      <4>1. Shares' = Shares \cup {new} /\ new.job = work
        BY <1>0, <2>1, <3>3, JudgeLemma
      <4> QED BY <3>1, <4>1
    <3> QED BY <1>0, <1>2, <3>1, <3>2, <3>3, SubmitCases
  <2>4. CASE Exit
    BY <1>0, <2>1, <2>3, <2>4 DEF Exit, SessionInv
  <2>5. ASSUME silent', NEW ok \in BOOLEAN, Count(ok) PROVE SessionInv'
    BY <1>0, <2>1, <2>5, CountLemma DEF SessionInv
  <2>6. ASSUME NEW ok \in BOOLEAN, Judge(ok), Count(ok) PROVE SessionInv'
    <3>1. /\ i' \in 0 .. NumResults /\ i < i' /\ (kind = "bc" \/ ok => i' = i + 1)
          /\ UNCHANGED <<pc, work>>
      BY <1>0, <2>1, <2>6, CountLemma
    <3> DEFINE new == [job |-> work, nonce |-> found[work][i], ok |-> ok]
    <3>2. /\ Shares' = Shares \cup {new}
          /\ new \in Shares' /\ new.job = work' /\ new.nonce = found[work][i] /\ new.ok = ok
      BY <1>0, <2>1, <2>6, <3>1, JudgeLemma
    <3> HIDE DEF new
    <3>3. ASSUME ~silent', NEW k \in Matching', k < i' PROVE Covered(k)'
      <4>1. k \in Matching /\ k \in Results
        BY <1>0, <2>1, <3>1, <3>3, FoundLemma DEF Matching, Hits
      <4>2. CASE k < i
        BY <2>1, <2>2, <3>1, <3>3, <4>1, <4>2, CoveredLemma DEF SessionInv
      <4>3. CASE k = i
        BY <2>1, <3>1, <3>2, <4>3 DEF Covered
      <4>4. CASE i < k
        <5>1. kind = "s" /\ ~ok
          BY <1>0, <2>1, <3>1, <3>3, <4>1, <4>4, NumbersAssumption DEF TypeOK, Results
        <5> QED BY <2>1, <3>1, <3>2, <4>4, <5>1 DEF Covered
      <4> QED BY <2>1, <4>1, <4>2, <4>3, <4>4, NumbersAssumption DEF Results
    <3> QED BY <1>0, <2>1, <2>3, <3>1, <3>3 DEF SessionInv
  <2> QED BY <1>0, <1>2, <2>4, <2>5, <2>6, SubmitCases
<1>3. CASE SkipResult
  <2>1. /\ i \in 0 .. NumResults /\ i \notin Matching /\ i' = i + 1 /\ pc = "scan"
        /\ UNCHANGED <<kind, found, pc, work, issued, received, silent>>
    BY <1>0, <1>3 DEF SkipResult, pool, TypeOK
  <2>2. /\ Matching' = Matching /\ Shares' = Shares /\ \A k : Covered(k)' <=> Covered(k)
    BY <2>1 DEF Matching, Hits, Shares, Covered
  <2>3. Matching \subseteq Results
    BY <1>0, FoundLemma DEF TypeOK, Matching
  <2>4. ASSUME NEW k \in Results PROVE k < i' /\ k # i => k < i
    BY <2>1, NumbersAssumption DEF Results
  <2> QED BY <1>0, <2>1, <2>2, <2>3, <2>4 DEF SessionInv
<1>4. CASE EndScan
  <2>1. /\ pc = "scan" /\ i = NumResults /\ pc' = "getwork"
        /\ UNCHANGED <<kind, found, work, i, issued, received, silent>>
    BY <1>4 DEF EndScan, pool
  <2>2. /\ Matching' = Matching /\ Shares' = Shares /\ \A k : Covered(k)' <=> Covered(k)
    BY <2>1 DEF Matching, Hits, Shares, Covered
  <2> QED BY <1>0, <2>1, <2>2 DEF SessionInv
<1>5. CASE Exited \/ UNCHANGED vars
  <2>1. UNCHANGED <<kind, found, pc, work, i, issued, received, silent>>
    BY <1>5 DEF Exited, vars, pool
  <2>2. /\ Matching' = Matching /\ Shares' = Shares /\ \A k : Covered(k)' <=> Covered(k)
    BY <2>1 DEF Matching, Hits, Shares, Covered
  <2> QED BY <1>0, <2>1, <2>2 DEF SessionInv
<1> QED BY <1>1, <1>2, <1>3, <1>4, <1>5 DEF Next

\* A session starts with nothing issued, received or passed.
LEMMA SessionInit == Init => SessionInv
<1> SUFFICES ASSUME Init PROVE SessionInv
  OBVIOUS
<1>1. TypeOK
  <2>1. buf \in Texts
    BY DEF Init, Texts, Odd, Junk, Empty
  <2>2. received \in Seq([job : Jobs, nonce : Nonces, ok : BOOLEAN]) /\ mined \in Seq(Jobs \cup {NoJob})
    BY DEF Init
  <2>3. /\ kind \in {"bc", "s"} /\ found \in [Jobs -> IF kind = "s" THEN ScryptFindings ELSE Findings]
        /\ pc = "getwork"
        /\ work = NoJob /\ issued = {} /\ silent = FALSE
    BY DEF Init
  <2>4. /\ tries \in 0 .. MaxTries /\ tries = 0 /\ i \in 0 .. NumResults
        /\ matches \in Nat /\ reject \in Nat /\ none \in Nat
    BY NumbersAssumption DEF Init
  <2> QED BY <2>1, <2>2, <2>3, <2>4 DEF TypeOK
<1>2. Shares = {} /\ Matching = {}
  BY DEF Init, Shares, Matching, Hits
<1>3. OncePassed
  <2> SUFFICES ASSUME NEW j \in Jobs, NEW x \in Nonces
               PROVE  TimesReceived(j, x) <= Cardinality(Passed(j, x))
    BY DEF OncePassed
  <2>1. TimesReceived(j, x) = 0 /\ Cardinality(Passed(j, x)) \in Nat
    BY <1>1, <1>2, TimesType
  <2> QED BY <2>1
<1> QED BY <1>1, <1>2, <1>3 DEF Init, SessionInv

\* Job, walk and the pool's shares fit together in every reachable state.
THEOREM SessionInvHolds == Spec => []SessionInv
BY SessionInit, SessionStep, PTL DEF Spec

-----------------------------------------------------------------------------
\* What follows for the pool and for the worker's books.

\* When a job is done the pool has had every match of it, or a scrypt worker broke off
\* at a rejected share (process_result_and_send_work of both coins).
THEOREM MatchesAreSent == Spec => []NoMatchForgotten
<1>1. SessionInv => NoMatchForgotten
  <2> SUFFICES ASSUME SessionInv, ~silent, pc = "getwork", NEW k \in Matching PROVE Covered(k)
    BY DEF NoMatchForgotten
  <2>1. k \in Results
    BY FoundLemma DEF SessionInv, TypeOK, Matching
  <2>2. i = NumResults
    BY DEF SessionInv, Matching, Hits
  <2> QED BY <2>1, <2>2, NumbersAssumption DEF SessionInv, Results
<1> QED BY <1>1, SessionInvHolds, PTL

\* As long as every answer has had a body, the pool has received no share more often
\* than there are results of its job with it: the walk has passed the results it has
\* handed in, and a new job is one that no share has been for.
THEOREM ResultsSentOnce == Spec => []SentOncePerResult
<1>1. SessionInv => SentOncePerResult
  <2> SUFFICES ASSUME SessionInv, ~silent, NEW j \in Jobs, NEW x \in Nonces
               PROVE  TimesReceived(j, x) <= Cardinality(Carriers(j, x))
    BY DEF SentOncePerResult
  <2>1. /\ TimesReceived(j, x) <= Cardinality(Passed(j, x))
        /\ TimesReceived(j, x) \in Nat /\ Cardinality(Passed(j, x)) \in Nat
    BY TimesType DEF SessionInv, OncePassed
  <2>2. /\ Passed(j, x) \subseteq Carriers(j, x)
        /\ Carriers(j, x) \subseteq Hits(j) /\ IsFiniteSet(Hits(j))
    BY FoundLemma DEF Passed, Carriers, SessionInv
  <2>3. /\ Cardinality(Passed(j, x)) <= Cardinality(Carriers(j, x))
        /\ Cardinality(Carriers(j, x)) \in Nat
    BY <2>2, FS_Subset, FS_CardinalityType
  <2> QED BY <2>1, <2>3
<1> QED BY <1>1, SessionInvHolds, PTL

\* What a worker counts as matched or rejected the pool has accepted or rejected.
THEOREM BooksHold == Spec => []BooksAgree
<1>1. Init => BooksAgree
  <2> SUFFICES ASSUME Init PROVE matches = Judged(TRUE) /\ reject = Judged(FALSE)
    BY DEF BooksAgree
  <2>1. \A ok \in BOOLEAN : {n \in 1 .. Len(received) : received[n].ok = ok} = {}
    BY DEF Init
  <2>2. Judged(TRUE) = 0 /\ Judged(FALSE) = 0
    BY <2>1, FS_EmptySet DEF Judged
  <2> QED BY <2>2 DEF Init
<1>2. SessionInv /\ BooksAgree /\ [Next]_vars => BooksAgree'
  <2> SUFFICES ASSUME SessionInv, BooksAgree, [Next]_vars PROVE BooksAgree'
    OBVIOUS
  <2>0. TypeOK
    BY DEF SessionInv
  <2>1. ASSUME received' = received PROVE Judged(TRUE)' = Judged(TRUE) /\ Judged(FALSE)' = Judged(FALSE)
    BY <2>1 DEF Judged
  <2>2. CASE Submit
    <3>1. /\ pc = "scan" /\ i \in Results /\ work \in Jobs /\ found[work][i] \in Nonces
          /\ (silent => silent')
      BY <2>0, <2>2, SubmitCases
    <3>2. ASSUME NEW ok \in BOOLEAN, Judge(ok), Count(ok) PROVE BooksAgree'
      <4> DEFINE new == [job |-> work, nonce |-> found[work][i], ok |-> ok]
      <4>1. new \in Share /\ received \in Seq(Share) /\ received' = Append(received, new) /\ new.ok = ok
        BY <2>0, <3>1, <3>2, JudgeLemma
      <4> HIDE DEF new
      <4>2. /\ Judged(TRUE)' = IF ok THEN Judged(TRUE) + 1 ELSE Judged(TRUE)
            /\ Judged(FALSE)' = IF ok THEN Judged(FALSE) ELSE Judged(FALSE) + 1
        BY <4>1, JudgedLemma
      <4>3. /\ matches' = (IF ok THEN matches + 1 ELSE matches)
            /\ reject' = (IF ok THEN reject ELSE reject + 1)
        BY <2>0, <3>1, <3>2, CountLemma
      <4> QED BY <3>1, <4>2, <4>3 DEF BooksAgree
    <3>3. CASE Exit
      BY <3>3 DEF Exit, BooksAgree
    <3>4. CASE silent'
      BY <3>4 DEF BooksAgree
    <3> QED BY <2>0, <2>2, <3>2, <3>3, <3>4, SubmitCases
  <2>3. CASE Getwork
    <3>1. UNCHANGED <<received, matches, reject>> /\ pc = "getwork" /\ (silent => silent')
      BY <2>0, <2>3, GetworkCases DEF stats
    <3> QED BY <2>1, <3>1 DEF BooksAgree
  <2>4. CASE SkipResult \/ EndScan \/ Exited \/ UNCHANGED vars
    <3>1. UNCHANGED <<received, matches, reject, silent>> /\ (pc' # "exited" => pc # "exited")
      BY <2>4 DEF SkipResult, EndScan, Exited, vars, pool, stats
    <3> QED BY <2>1, <3>1 DEF BooksAgree
  <2> QED BY <2>2, <2>3, <2>4 DEF Next
<1> QED BY <1>1, <1>2, SessionInvHolds, PTL DEF Spec

-----------------------------------------------------------------------------
\* What "none" counts.

\* A round is barren whose job has no match.  The rounds that count: all of them
\* for bitcoin, those before the first match for scrypt.
Fruit(n) == Hits(mined[n]) = {}
Counting == IF kind = "s" THEN {n \in Barren : 1 .. n \subseteq Barren} ELSE Barren

\* The job at work is the last one mined, and a scrypt worker has no shares in its
\* books as long as it has passed no match.
RoundInv ==
  /\ pc = "scan" => Len(mined) > 0 /\ mined[Len(mined)] = work
  /\ pc # "exited" /\ kind = "s" =>
       (matches + reject = 0 <=> /\ \A n \in Ended : n \in Barren
                                 /\ pc = "scan" => \A n \in Matching : n >= i)
  /\ NoneCounts

LEMMA BarrenLemma ==
  ASSUME TypeOK
  PROVE  /\ Len(mined) \in Nat /\ Ended \subseteq 1 .. Len(mined)
         /\ \A n \in Ended : n \in Barren <=> Fruit(n)
         /\ Barren \subseteq Ended /\ Counting \subseteq Barren
         /\ IsFiniteSet(Barren) /\ IsFiniteSet(Counting)
<1>1. Len(mined) \in Nat /\ Ended \subseteq 1 .. Len(mined)
  BY DEF TypeOK, Ended
<1>2. Barren \subseteq Ended /\ Counting \subseteq Barren /\ \A n \in Ended : n \in Barren <=> Fruit(n)
  BY DEF Barren, Counting, Fruit
<1>3. IsFiniteSet(1 .. Len(mined))
  BY <1>1, FS_Interval
<1>4. IsFiniteSet(Barren) /\ IsFiniteSet(Counting)
  BY <1>1, <1>2, <1>3, FS_Subset
<1> QED BY <1>1, <1>2, <1>4

\* Until a round ends, the books of "none" stand still.
LEMMA SameRounds ==
  ASSUME TypeOK, RoundInv, pc # "exited",
         Ended' = Ended, \A n \in Ended : mined'[n] = mined[n],
         UNCHANGED <<found, kind, none>>
  PROVE  Barren' = Barren /\ NoneCounts'
<1>1. Barren' = Barren
  BY DEF Barren, Hits
<1> QED BY <1>1 DEF RoundInv, NoneCounts

LEMMA RoundStep == SessionInv /\ RoundInv /\ [Next]_vars => RoundInv'
<1> SUFFICES ASSUME SessionInv, RoundInv, [Next]_vars PROVE RoundInv'
  OBVIOUS
<1>0. /\ TypeOK /\ Len(mined) \in Nat /\ mined \in Seq(Jobs \cup {NoJob}) /\ i \in 0 .. NumResults
      /\ matches \in Nat /\ reject \in Nat /\ none \in Nat /\ NumResults \in Nat
      /\ Matching \subseteq 0 .. NumResults - 1
  BY NumbersAssumption, FoundLemma DEF SessionInv, TypeOK, Matching, Results
<1>1. ASSUME pc' = "exited" PROVE RoundInv'
  BY <1>1 DEF RoundInv, NoneCounts
\* Nothing that RoundInv is about changes.
<1>2. ASSUME UNCHANGED <<pc, mined, found, kind, none, matches, reject, work, i>> PROVE RoundInv'
  <2>1. Ended' = Ended /\ Matching' = Matching
    BY <1>2 DEF Ended, Matching, Hits
  <2>2. Barren' = Barren
    BY <1>2, <2>1 DEF Barren, Hits
  <2> QED BY <1>2, <2>1, <2>2 DEF RoundInv, NoneCounts
<1>3. CASE Getwork
  <2>1. pc = "getwork" /\ UNCHANGED <<kind, found, matches, reject, none>>
    BY <1>0, <1>3, GetworkCases DEF stats
  <2>2. CASE RetryOrExit \/ Exit
    <3>1. pc' = "exited" \/ UNCHANGED <<pc, mined, work, i>>
      BY <2>2 DEF RetryOrExit, Exit
    <3> QED BY <1>1, <1>2, <2>1, <3>1
  <2>3. ASSUME NEW j \in Jobs \cup {NoJob}, StartWork(j) PROVE RoundInv'
    <3>1. /\ pc' = "scan" /\ i' = 0 /\ work' = j /\ mined' = Append(mined, j)
      BY <2>3 DEF StartWork
    <3>2. /\ Len(mined') = Len(mined) + 1 /\ mined'[Len(mined) + 1] = j
          /\ \A n \in 1 .. Len(mined) : mined'[n] = mined[n]
      BY <1>0, <2>3, <3>1
    <3>3. Ended = 1 .. Len(mined) /\ Ended' = Ended
      BY <1>0, <2>1, <3>1, <3>2 DEF Ended
    <3>4. Barren' = Barren /\ NoneCounts'
      BY <1>0, <2>1, <3>2, <3>3, SameRounds
    <3>5. \A n \in Matching' : n >= i'
      <4>1. Matching' \subseteq Results
        BY <1>0, <2>1, <2>3, <3>1, FoundLemma DEF Matching, Hits
      <4> QED BY <1>0, <3>1, <4>1 DEF Results
    <3> QED BY <1>0, <2>1, <3>1, <3>2, <3>3, <3>4, <3>5 DEF RoundInv
  <2> QED BY <1>0, <1>3, <2>2, <2>3, GetworkCases
<1>4. CASE Submit
  <2>1. pc = "scan" /\ i \in Results /\ i \in Matching /\ UNCHANGED <<kind, found>>
    BY <1>0, <1>4, SubmitCases
  <2>2. ASSUME NEW ok \in BOOLEAN, Count(ok) PROVE RoundInv'
    <3>1. UNCHANGED <<none, pc, work, mined>> /\ i < i' /\ matches' + reject' = matches + reject + 1
          /\ i' \in 0 .. NumResults
      BY <1>0, <2>1, <2>2, CountLemma
    <3>2. Ended' = Ended /\ Matching' = Matching
      BY <2>1, <3>1 DEF Ended, Matching, Hits
    <3>3. Barren' = Barren /\ NoneCounts'
      BY <1>0, <2>1, <3>1, <3>2, SameRounds
    <3>4. ~(\A n \in Matching' : n >= i')
      BY <1>0, <2>1, <3>1, <3>2
    <3>5. matches' + reject' # 0
      BY <1>0, <3>1
    <3>6. pc' = "scan"
      BY <2>1, <3>1
    <3>7. Len(mined') > 0 /\ mined'[Len(mined')] = work'
      BY <2>1, <3>1 DEF RoundInv
    <3> QED BY <3>3, <3>4, <3>5, <3>6, <3>7 DEF RoundInv
  <2> QED BY <1>0, <1>1, <1>4, <2>2, SubmitCases DEF Exit
<1>5. CASE SkipResult
  <2>1. /\ pc = "scan" /\ i \notin Matching /\ i' = i + 1
        /\ UNCHANGED <<kind, found, pc, work, matches, reject, none, mined>>
    BY <1>5 DEF SkipResult, stats
  <2>2. Ended' = Ended /\ Matching' = Matching
    BY <2>1 DEF Ended, Matching, Hits
  <2>3. Barren' = Barren /\ NoneCounts'
    BY <1>0, <2>1, <2>2, SameRounds
  <2>4. \A n \in Matching : n >= i' <=> n >= i
    BY <1>0, <2>1
  <2>5. (\A n \in Matching' : n >= i') <=> (\A n \in Matching : n >= i)
    BY <2>2, <2>4
  <2>6. Len(mined') > 0 /\ mined'[Len(mined')] = work'
    BY <2>1 DEF RoundInv
  <2>7. (\A n \in Ended' : n \in Barren') <=> (\A n \in Ended : n \in Barren)
    BY <2>2, <2>3
  <2> QED BY <2>1, <2>3, <2>5, <2>6, <2>7 DEF RoundInv
<1>6. CASE EndScan
  <2> DEFINE l == Len(mined)
  <2>1. /\ pc = "scan" /\ i = NumResults /\ pc' = "getwork"
        /\ none' = IF Fruitless THEN none + 1 ELSE none
        /\ UNCHANGED <<kind, found, work, i, matches, reject, mined>>
    BY <1>6 DEF EndScan
  <2>2. l \in Nat /\ l > 0 /\ mined[l] = work /\ Ended = 1 .. l - 1 /\ Ended' = 1 .. l
    BY <1>0, <2>1 DEF RoundInv, Ended
  <2>3. Fruit(l) <=> Matching = {}
    BY <2>2 DEF Fruit, Matching
  <2>4. Barren' = {n \in 1 .. l : Fruit(n)} /\ Barren = {n \in 1 .. l - 1 : Fruit(n)}
    BY <2>1, <2>2 DEF Barren, Fruit, Hits
  <2> HIDE DEF l
  <2>5. /\ Matching = {} => Barren' = Barren \cup {l}
        /\ Matching # {} => Barren' = Barren
        /\ l \notin Barren /\ Barren \subseteq 1 .. l - 1
    BY <2>2, <2>3, <2>4
  <2>6. IsFiniteSet(Barren) /\ IsFiniteSet(Counting) /\ Counting \subseteq Barren
    BY <1>0, BarrenLemma
  <2>7. none = Cardinality(Counting)
    BY <2>1 DEF RoundInv, NoneCounts, Counting
  <2>8. NoneCounts' <=> none' = Cardinality(Counting')
    BY <2>1 DEF NoneCounts, Counting
  <2>9. ASSUME Counting' = IF Fruitless THEN Counting \cup {l} ELSE Counting
        PROVE  NoneCounts'
    <3>1. l \notin Counting
      BY <2>5, <2>6
    <3>2. Cardinality(Counting \cup {l}) = Cardinality(Counting) + 1
      BY <2>6, <3>1, FS_AddElement
    <3> QED BY <2>1, <2>7, <2>8, <2>9, <3>2
  <2>10. kind = "s" => (matches + reject = 0 <=> (\A n \in 1 .. l : n \in Barren'))
    <3>1. Matching = {} <=> \A n \in Matching : n >= i
      BY <1>0, <2>1
    <3>2. (\A n \in 1 .. l : n \in Barren') <=> (\A n \in 1 .. l - 1 : n \in Barren) /\ Matching = {}
      BY <2>2, <2>3, <2>4
    <3>3. kind = "s" => (matches + reject = 0 <=> (\A n \in Ended : n \in Barren) /\ (\A n \in Matching : n >= i))
      BY <2>1 DEF RoundInv
    <3> QED BY <2>2, <3>1, <3>2, <3>3
  <2>11. NoneCounts'
    <3>1. CASE kind = "s"
      <4>1. Counting = {n \in Barren : 1 .. n \subseteq Barren}
            /\ Counting' = {n \in Barren' : 1 .. n \subseteq Barren'}
        BY <2>1, <3>1 DEF Counting
      <4>2. Fruitless <=> \A n \in 1 .. l : n \in Barren'
        BY <2>10, <3>1 DEF Fruitless
      <4>3. \A n \in 1 .. l - 1 : n \in Barren' <=> n \in Barren
        BY <2>2, <2>4
      <4>4. \A n \in 1 .. l - 1 : n \in Counting' <=> n \in Counting
        BY <2>2, <4>1, <4>3
      <4>5. l \in Counting' <=> Fruitless
        BY <2>2, <2>4, <4>1, <4>2
      <4>6. Counting' \subseteq 1 .. l /\ Counting \subseteq 1 .. l - 1
        BY <2>4, <2>5, <4>1
      <4>7. \A n \in 1 .. l : n \in 1 .. l - 1 \/ n = l
        BY <2>2
      <4>8. Fruitless => Counting' = Counting \cup {l}
        BY <2>2, <4>4, <4>5, <4>6, <4>7
      <4>9. ~Fruitless => Counting' = Counting
        BY <2>2, <4>4, <4>5, <4>6, <4>7
      <4> QED BY <2>9, <4>8, <4>9
    <3>2. CASE kind # "s"
      <4>1. Counting = Barren /\ Counting' = Barren'
        BY <2>1, <3>2 DEF Counting
      <4>2. Fruitless <=> Matching = {}
        BY <3>2 DEF Fruitless
      <4> QED BY <2>5, <2>9, <4>1, <4>2
    <3> QED BY <3>1, <3>2
  <2> QED BY <2>1, <2>2, <2>10, <2>11 DEF RoundInv
<1>7. CASE Exited \/ UNCHANGED vars
  BY <1>2, <1>7 DEF Exited, vars, stats
<1> QED BY <1>3, <1>4, <1>5, <1>6, <1>7 DEF Next

\* A bitcoin worker's "none" counts the jobs without a match, a scrypt worker's those
\* before the first match of the session.
THEOREM NoneIsCounted == Spec => []NoneCounts
<1>1. Init => RoundInv
  <2> SUFFICES ASSUME Init PROVE RoundInv
    OBVIOUS
  <2>1. Len(mined) = 0 /\ Ended = {}
    BY DEF Init, Ended
  <2>2. Barren = {} /\ {n \in Barren : 1 .. n \subseteq Barren} = {}
    BY <2>1 DEF Barren
  <2> QED BY <2>1, <2>2, FS_EmptySet DEF Init, RoundInv, NoneCounts
<1>2. RoundInv => NoneCounts
  BY DEF RoundInv
<1> QED BY <1>1, <1>2, RoundStep, SessionInvHolds, PTL DEF Spec

=============================================================================
