--------------------------- MODULE BatchCollection ---------------------------
(***************************************************************************)
(* The background collection of all pages of the public API: pages are     *)
(* taken in chunks, the pages of a chunk concurrently under a semaphore,   *)
(* and what they report is added up (batch_service.py of announcements and *)
(* of businesses).  An action is the code between two awaits.              *)
(***************************************************************************)
EXTENDS Naturals, FiniteSets

CONSTANTS
    EstimatedTotal, BatchSize, MaxPages,    \* MaxPages = 0: no limit
    ChunkSize,
    MaxConcurrent,
    PageSizes           \* how many items a page of the API may hold

ASSUME BatchAssumption ==
    /\ EstimatedTotal \in Nat /\ MaxPages \in Nat
    /\ {BatchSize, ChunkSize, MaxConcurrent} \subseteq Nat \ {0}
    /\ PageSizes \subseteq Nat

VARIABLES
    step,       \* "first", "chunks", "done" or "failed"
    current,    \* first page of the chunk
    waiting,    \* pages of the chunk waiting for the semaphore
    asking,     \* pages requested, holding it
    results,    \* outcomes of the other pages of the chunk
    requests,   \* how often each page was requested
    report,
    stored,     \* documents inserted
    unconfirmed \* of these, the ones whose insertion was answered as failed
batchVars ==
    <<step, current, waiting, asking, results, requests, report, stored, unconfirmed>>

Lesser(m, n) == IF m < n THEN m ELSE n
EstimatedPages == EstimatedTotal \div BatchSize + 1
TotalPages == IF MaxPages = 0 THEN EstimatedPages ELSE Lesser(EstimatedPages, MaxPages)
AllPages == 1 .. TotalPages
ChunkEndShort == Lesser(current + ChunkSize, TotalPages)   \* as if range() included it
ChunkEnd == Lesser(current + ChunkSize, TotalPages + 1)
ChunkAndNext == current .. ChunkEnd   \* as if range() included its end
Chunk == current .. ChunkEnd - 1

BatchInit ==
    /\ step = "first" /\ current = 1
    /\ waiting = {} /\ asking = {} /\ results = <<>>
    /\ requests = [p \in AllPages |-> 0]
    /\ report = [processed |-> 0, new |-> 0, errors |-> 0]
    /\ stored = 0 /\ unconfirmed = 0

\* Without an answer to the first request the number of pages is unbound
\* when the report is built: the task ends without one.
FirstRequest(success) ==
    /\ step = "first"
    /\ step' = IF success THEN "chunks" ELSE "failed"
    /\ waiting' = IF success THEN Chunk ELSE {}
    /\ UNCHANGED <<current, asking, results, requests, report, stored, unconfirmed>>

RequestPage(p) ==
    /\ p \in waiting /\ Cardinality(asking) < MaxConcurrent
    /\ waiting' = waiting \ {p} /\ asking' = asking \cup {p}
    /\ requests' = [requests EXCEPT ![p] = @ + 1]
    /\ UNCHANGED <<step, current, results, report, stored, unconfirmed>>

Record(p, outcome) ==
    /\ p \in asking
    /\ asking' = asking \ {p}
    /\ results' = [q \in DOMAIN results \cup {p} |->
                     IF q = p THEN outcome ELSE results[q]]
    /\ UNCHANGED <<step, current, waiting, requests, report>>

PageFails(p) ==
    Record(p, [processed |-> 0, new |-> 0, errors |-> 1])
    /\ UNCHANGED <<stored, unconfirmed>>

\* Some of the insertions fail and are skipped; of these some were carried
\* out all the same, or could not be read back.
PageAnswers(p, items, inserted, confirmed) ==
    /\ confirmed <= inserted /\ inserted <= items
    /\ Record(p, [processed |-> items, new |-> confirmed, errors |-> 0])
    /\ stored' = stored + inserted
    /\ unconfirmed' = unconfirmed + (inserted - confirmed)

Plus(r, s) == [processed |-> r.processed + s.processed, new |-> r.new + s.new,
               errors |-> r.errors + s.errors]
\* gather returns the outcomes in the order of the pages.
ReportUpTo[n \in Nat] ==
    IF n = 0 THEN report
    ELSE IF n \in DOMAIN results THEN Plus(ReportUpTo[n - 1], results[n]) ELSE ReportUpTo[n - 1]

FinishChunk ==
    /\ step = "chunks" /\ waiting = {} /\ asking = {}
    /\ report' = ReportUpTo[ChunkEnd - 1]
    /\ results' = <<>>
    /\ current' = ChunkEnd
    /\ IF current' <= TotalPages
       THEN waiting' = Chunk' /\ UNCHANGED step
       ELSE step' = "done" /\ UNCHANGED waiting
    /\ UNCHANGED <<asking, requests, stored, unconfirmed>>

BatchNext ==
    \/ \E success \in BOOLEAN : FirstRequest(success)
    \/ \E p \in AllPages :
         \/ RequestPage(p) \/ PageFails(p)
         \/ \E items, inserted, confirmed \in PageSizes :
              PageAnswers(p, items, inserted, confirmed)
    \/ FinishChunk
BatchSpec == BatchInit /\ [][BatchNext]_batchVars

\* Every request ends, with an answer or a time-out of the client.
BatchFairness == WF_batchVars(BatchNext)

-----------------------------------------------------------------------------
BatchTypeOK ==
    /\ step \in {"first", "chunks", "done", "failed"}
    /\ current \in 1 .. TotalPages + 1
    /\ waiting \subseteq AllPages /\ asking \subseteq AllPages
    /\ DOMAIN results \subseteq AllPages
    /\ requests \in [AllPages -> Nat]
    /\ report \in [processed : Nat, new : Nat, errors : Nat]
    /\ stored \in Nat /\ unconfirmed \in Nat

\* When the batch reports, it has asked for every page exactly once: the
\* chunks neither overlap nor leave a page out, the last one included.
EveryPageOnce ==
    /\ \A p \in AllPages : requests[p] <= 1
    /\ step = "done" => \A p \in AllPages : requests[p] = 1

\* The report is true although pages finish in any order and some fail: it
\* covers every page, and counts as many new items as documents were inserted
\* but for those whose insertion was answered as failed.
BatchReportTrue ==
    EveryPageOnce /\ (step = "done" => report.new + unconfirmed = stored)

\* The batch ends, however its pages queue for the semaphore.
BatchEnds == <>(step \in {"done", "failed"})
=============================================================================
