---------------------------- MODULE PoolSession -----------------------------
(***************************************************************************)
(* One mining thread's session with its pool: bitcoin_send_getwork or      *)
(* scrypt_send_getwork, then the walk over the matches of the job with a   *)
(* send_getwork_completion for each, over one curl handle and one growable *)
(* buffer (gbuf) for what the pool sends.                                  *)
(*                                                                         *)
(* curl calls write_cb only when a reply has a body, and gbuf_reset leaves *)
(* the bytes where they are, so an answer without a body is parsed as the  *)
(* text that came before it.  A request may fail after the pool has acted  *)
(* on it.  Mining in between is LiveMiner's and BitcoinRun's matter: here  *)
(* a job simply has its results, some of which match.                      *)
(*                                                                         *)
(* The walk goes by results, the pool by nonces.  A scrypt result is that  *)
(* of the nonce which is its index.  A bitcoin result is a record, whose   *)
(* nonce is data: two records of a job hold the same one when the rounded  *)
(* length takes the sweep past it twice (BitcoinRun).                      *)
(***************************************************************************)
EXTENDS Integers, Sequences, FiniteSets

CONSTANTS
  Jobs,             \* the work the pool has to give
  NoJob,            \* the work of zeros that parse_json_getwork makes of a null result
  NumResults,       \* results of a job: num_records, num_scrypt
  NumNonces,        \* 2^32, the number of nonces
  MaxTries,         \* 5, the bound on "tries" in scrypt_send_getwork
  MaxRounds         \* bound: jobs mined in one session

ASSUME JobsAssumption == NoJob \notin Jobs
ASSUME NumbersAssumption == NumResults \in Nat /\ MaxTries \in Nat /\ MaxRounds \in Nat
ASSUME NoncesAssumption == NumNonces \in Nat /\ NumResults <= NumNonces

Nonces == 0 .. NumNonces - 1
Results == 0 .. NumResults - 1

\* What a job may come to: the results that match, each with its nonce.
Findings == UNION {[matching -> Nonces] : matching \in SUBSET Results}
ScryptFindings == {f \in Findings : \A k \in DOMAIN f : f[k] = k}

VARIABLES
  kind,             \* "bc" or "s": a bitcoin or a scrypt worker
  found,            \* per job, what mining it comes to
  pc,               \* "getwork", "scan" or "exited"
  tries,            \* as in scrypt_send_getwork
  buf,              \* the text gbuf.data starts with
  work, i,          \* the job, and the index of the walk over its results
  matches, reject, none,    \* worker->state.stats
  \* The pool's side, and the history of the session:
  issued,           \* jobs handed out
  received,         \* shares received, with the verdict on each
  mined,            \* jobs mined
  silent            \* some answer had no body

stats == <<matches, reject, none>>
pool == <<issued, received>>
vars == <<kind, found, pc, tries, buf, work, i, stats, pool, mined, silent>>

-----------------------------------------------------------------------------
\* What the pool may send.  "foreign" is JSON with another id or without a field
\* that the parser insists on; "junk" is not JSON; Empty is an answer with no body.
Work(j) == [kind |-> "work", job |-> j]
Verdict(ok) == [kind |-> "verdict", ok |-> ok]
NullResult == [kind |-> "null"]
Error == [kind |-> "error"]
Foreign == [kind |-> "foreign"]
Junk == [kind |-> "junk"]
Empty == [kind |-> "empty"]

Odd == {NullResult, Error, Foreign, Junk, Empty}
Texts == {Work(j) : j \in Jobs} \cup {Verdict(ok) : ok \in BOOLEAN} \cup (Odd \ {Empty})

\* gbuf_reset, then write_cb with the body, if there is one.
NoReset(body) == IF body = Empty \/ buf # Junk THEN buf ELSE body   \* (Mutant.)
TextAfter(body) == IF body = Empty THEN buf ELSE body

Hear(body) ==
  /\ buf' = TextAfter(body)
  /\ silent' = (silent \/ body = Empty)

Init ==
  /\ kind \in {"bc", "s"}
  /\ found \in [Jobs -> IF kind = "s" THEN ScryptFindings ELSE Findings]
  /\ pc = "getwork"
  /\ tries = 0
  /\ buf = Junk                 \* malloc'd and not written to
  /\ work = NoJob /\ i = 0
  /\ matches = 0 /\ reject = 0 /\ none = 0
  /\ issued = {} /\ received = <<>>
  /\ mined = <<>>
  /\ silent = FALSE

\* LOG_FATAL.
Exit == pc' = "exited" /\ UNCHANGED <<tries, work, i, mined>>

\* (Mutant: the count of tries is forgotten.)
RetryForever ==
  IF kind = "s"
    THEN UNCHANGED <<pc, tries, work, i, mined>>
    ELSE Exit

\* (Mutant: one retry too many.)
RetryOnceMore ==
  IF kind = "s" /\ tries <= MaxTries
    THEN tries' = tries + 1 /\ UNCHANGED <<pc, work, i, mined>>
    ELSE Exit

\* A bitcoin worker gives up at once, a scrypt worker tries again after 30 s.
RetryOrExit ==
  IF kind = "s" /\ tries < MaxTries
    THEN tries' = tries + 1 /\ UNCHANGED <<pc, work, i, mined>>
    ELSE Exit

\* parse_json_getwork returns: the work is ready to be mined.
StartWork(j) ==
  /\ Len(mined) < MaxRounds
  /\ work' = j
  /\ mined' = Append(mined, j)
  /\ pc' = "scan" /\ i' = 0
  /\ UNCHANGED tries

\* parse_json_getwork and parse_json_getwork_decode on what the buffer now holds.
ParseGetwork(text) ==
  \/ text.kind = "work" /\ StartWork(text.job)
  \/ text.kind = "null" /\ StartWork(NoJob)
  \/ text.kind \in {"error", "junk"} /\ RetryOrExit
  \/ text.kind \in {"foreign", "verdict"} /\ Exit

\* One request of bitcoin_send_getwork or scrypt_send_getwork.
Getwork ==
  /\ pc = "getwork"
  /\ UNCHANGED <<kind, found, stats, received>>
  /\ \/ /\ buf' \in {buf, Junk}          \* curl_easy_perform fails
        /\ RetryOrExit
        /\ UNCHANGED <<issued, silent>>
     \/ \E body \in Odd \cup {Work(j) : j \in Jobs \ issued} :
          /\ Hear(body)
          /\ issued' = IF body.kind = "work" THEN issued \cup {body.job} ELSE issued
          /\ ParseGetwork(TextAfter(body))

Hits(j) == IF j = NoJob THEN {} ELSE DOMAIN found[j]
Matching == Hits(work)

\* The result the scan goes on with after a share was accepted or rejected.
BreakAlways(ok) == IF ok THEN i + 1 ELSE NumResults      \* (Mutant.)
NextIndex(ok) == IF kind = "s" /\ ~ok THEN NumResults ELSE i + 1

\* process_result_and_send_work: the pool's answer is counted.
Count(ok) ==
  /\ IF ok THEN matches' = matches + 1 /\ UNCHANGED reject
           ELSE reject' = reject + 1 /\ UNCHANGED matches
  /\ i' = NextIndex(ok)
  /\ UNCHANGED <<none, pc, tries, work, mined>>

\* parse_json_getwork_completion: an object, as a number, is zero.
ParseCompletion(text) ==
  \/ text.kind = "verdict" /\ Count(text.ok)
  \/ text.kind = "work" /\ Count(FALSE)
  \/ text.kind \in {"null", "error", "foreign", "junk"} /\ Exit /\ UNCHANGED stats

\* The pool receives a share, a nonce for a job, which it accepts only once.
Judge(ok) ==
  LET share == [job |-> work, nonce |-> found[work][i], ok |-> ok]
  IN  /\ ok => share \notin {received[n] : n \in 1 .. Len(received)}
      /\ received' = Append(received, share)

\* send_getwork_completion for the match at i.  Whatever the pool answers, or
\* nothing at all, it may have judged the share.
Submit ==
  /\ pc = "scan" /\ i < NumResults /\ i \in Matching
  /\ UNCHANGED <<kind, found, issued>>
  /\ \/ /\ (\E ok \in BOOLEAN : Judge(ok)) \/ UNCHANGED received
        /\ \/ /\ buf' \in {buf, Junk}    \* curl_easy_perform fails
              /\ Exit
              /\ UNCHANGED <<stats, silent>>
           \/ \E body \in Odd : Hear(body) /\ ParseCompletion(TextAfter(body))
     \/ \E ok \in BOOLEAN :
          /\ Judge(ok)
          /\ Hear(Verdict(ok))
          /\ ParseCompletion(TextAfter(Verdict(ok)))

SkipResult ==
  /\ pc = "scan" /\ i < NumResults /\ i \notin Matching
  /\ i' = i + 1
  /\ UNCHANGED <<kind, found, pc, tries, buf, work, stats, pool, mined, silent>>

\* "none" counts the jobs without a match; the scrypt worker looks at the totals.
TotalsOnly == matches + reject = 0              \* (Mutant.)
Fruitless == IF kind = "s" THEN matches + reject = 0 ELSE Matching = {}

\* The walk is over, and the next call of send_getwork starts with no tries.
EndScan ==
  /\ pc = "scan" /\ i = NumResults
  /\ none' = IF Fruitless THEN none + 1 ELSE none
  /\ pc' = "getwork" /\ tries' = 0
  /\ UNCHANGED <<kind, found, buf, work, i, matches, reject, pool, mined, silent>>

Exited == pc = "exited" /\ UNCHANGED vars

Next == Getwork \/ Submit \/ SkipResult \/ EndScan \/ Exited

Spec == Init /\ [][Next]_vars

\* curl_easy_perform returns, and the thread is scheduled.
FairSpec == Spec /\ WF_vars(Getwork) /\ WF_vars(Submit) /\ WF_vars(SkipResult) /\ WF_vars(EndScan)

-----------------------------------------------------------------------------
\* Properties.

Shares == {received[n] : n \in 1 .. Len(received)}
Judged(ok) == Cardinality({n \in 1 .. Len(received) : received[n].ok = ok})

\* How often the pool has received a share, the results that carry it, and those of
\* them that the walk has passed: all of them once the worker has another job.
TimesReceived(j, x) ==
  Cardinality({n \in 1 .. Len(received) : received[n].job = j /\ received[n].nonce = x})
Carriers(j, x) == {k \in Hits(j) : found[j][k] = x}
Passed(j, x) == {k \in Carriers(j, x) : j = work /\ pc # "exited" => k < i}

TypeOK ==
  /\ kind \in {"bc", "s"}
  /\ found \in [Jobs -> IF kind = "s" THEN ScryptFindings ELSE Findings]
  /\ pc \in {"getwork", "scan", "exited"}
  /\ tries \in 0 .. MaxTries /\ (kind = "bc" => tries = 0)
  /\ buf \in Texts
  /\ work \in Jobs \cup {NoJob}
  /\ i \in 0 .. NumResults
  /\ matches \in Nat /\ reject \in Nat /\ none \in Nat
  /\ issued \subseteq Jobs
  /\ received \in Seq([job : Jobs, nonce : Nonces, ok : BOOLEAN])
  /\ mined \in Seq(Jobs \cup {NoJob})
  /\ silent \in BOOLEAN

\* The pool has received each share at most once for each such result.
OncePassed ==
  \A j \in Jobs, x \in Nonces : TimesReceived(j, x) <= Cardinality(Passed(j, x))

\* A match of the job has reached the pool, or a scrypt worker has broken off before
\* it, at a share that was rejected.
Covered(k) ==
  \/ \E share \in Shares : share.job = work /\ share.nonce = found[work][k]
  \/ /\ kind = "s"
     /\ \E share \in Shares : share.job = work /\ share.nonce < k /\ ~share.ok

\* The inductive invariant: as long as every answer has had a body, the worker mines
\* a job that the pool has issued, the pool has had shares of issued jobs only, each
\* at most once for each result that the walk has passed, and the walk has passed no
\* match without handing it in.
SessionInv ==
  /\ TypeOK
  /\ pc = "getwork" => work = NoJob \/ i = NumResults
  /\ ~silent =>
       /\ work \in issued \cup {NoJob}
       /\ \A share \in Shares : share.job \in issued
       /\ OncePassed
       /\ pc # "exited" => \A k \in Matching : k < i => Covered(k)

\* As long as every answer has had a body, the worker's books are the pool's: each
\* share counted as a match was accepted, each counted as rejected was rejected.
BooksAgree ==
  ~silent /\ pc # "exited" => matches = Judged(TRUE) /\ reject = Judged(FALSE)

\* As long as every answer has had a body, each result is handed in at most once: the
\* pool has received no share more often than there are results of its job with it.
\* That is once, except for a nonce that two records of a bitcoin job hold, which
\* BitcoinRun's SubmittedOnce allows where the rounded sweep passes it twice.
SentOncePerResult ==
  ~silent =>
    \A j \in Jobs, x \in Nonces : TimesReceived(j, x) <= Cardinality(Carriers(j, x))

\* When a job is done, the pool has had every match of it, unless a scrypt worker
\* broke off: then a match before the missing one was rejected.
NoMatchForgotten ==
  ~silent /\ pc = "getwork" =>
    \A k \in Matching : Covered(k)

\* The rounds that have come to an end, and those of them that found nothing.
Ended == IF pc = "scan" THEN 1 .. Len(mined) - 1 ELSE 1 .. Len(mined)
Barren == {n \in Ended : Hits(mined[n]) = {}}

\* A bitcoin worker's "none" counts the rounds without a match.  A scrypt worker's
\* counts those before the first match of the session, and stands still after it.
NoneCounts ==
  pc # "exited" =>
    none = Cardinality(IF kind = "s" THEN {n \in Barren : 1 .. n \subseteq Barren} ELSE Barren)

\* The retries of a getwork come to an end: in work, or in the end of the process.
FetchEnds == pc = "getwork" ~> pc # "getwork"

\* "\param work_comp   Bitcoin response": what is counted as accepted is the pool's
\* response to this share, so that no more are counted than the pool accepted.
CountedIsResponse == matches <= Judged(TRUE)
=============================================================================
