----------------------------- MODULE ApiClient -----------------------------
(***************************************************************************)
(* One KStartupAPIClient object used by several coroutines, as the batch   *)
(* collectors and get_all_data_batch use it, and its retries.  A call puts *)
(* a fresh httpx client into self.client, remembers the one it found, and  *)
(* puts that one back when it leaves; every attempt reads self.client      *)
(* again.  The first attempt starts before the coroutine can be suspended; *)
(* a later one follows a sleep.  The response is parsed according to       *)
(* self._current_endpoint, which every call overwrites.                    *)
(*                                                                         *)
(* The synchronous path retries twice: request() runs, under a             *)
(* RetryExecutor, an operation that runs another one.                      *)
(***************************************************************************)
EXTENDS Naturals, FiniteSets

CONSTANTS
  Calls,          \* coroutines, each making one call at a time
  Clients,        \* httpx.AsyncClient objects
  NoClient,       \* self.client = None
  Endpoints,      \* API operations, each with its own response type
  MaxAttempts     \* strategy.max_attempts

ApiAssumption ==
  /\ NoClient \notin Clients
  /\ MaxAttempts \in Nat \ {0}

VARIABLES
  client,         \* self.client
  endpoint,       \* self._current_endpoint
  open,           \* clients that are open
  call,           \* what each coroutine is doing
  sync            \* the call of the synchronous path: attempts of both loops

apiVars == <<client, endpoint, open, call, sync>>

CallRecord ==
  [at: {"idle", "calling", "sleeping", "closing"},
   mine: Clients \cup {NoClient},       \* the client it entered
   found: Clients \cup {NoClient},      \* old_client
   using: Clients \cup {NoClient},      \* the client of the running attempt
   asked: Endpoints,
   attempt: 0 .. MaxAttempts,
   alone: BOOLEAN,                      \* no other call was under way during it
   outcome: {"none", "answered", "misread", "failed", "lost"}]

ApiTypeOK ==
  /\ client \in Clients \cup {NoClient}
  /\ endpoint \in Endpoints
  /\ open \subseteq Clients
  /\ call \in [Calls -> CallRecord]
  /\ sync \in [outer: 0 .. MaxAttempts, inner: 0 .. MaxAttempts,
               sent: 0 .. MaxAttempts * MaxAttempts, ended: BOOLEAN]

NoCall == [outer |-> 1, inner |-> 1, sent |-> 0, ended |-> FALSE]

ApiInit ==
  /\ client = NoClient
  /\ open = {}
  /\ endpoint \in Endpoints
  /\ call = [t \in Calls |->
               [at |-> "idle", mine |-> NoClient, found |-> NoClient, using |-> NoClient,
                asked |-> endpoint, attempt |-> 0, alone |-> TRUE, outcome |-> "none"]]
  /\ sync = NoCall

Busy == {t \in Calls : call[t].at # "idle"}

(* What httpx.AsyncClient() returns: a client no one holds a reference to.  *)
Held(c) == c = client \/ \E t \in Busy : c \in {call[t].mine, call[t].found, call[t].using}
NewClient == CHOOSE c \in Clients : ~Held(c)

(* async_get_...: sets the endpoint, enters async_client, and makes the    *)
(* first attempt in the same step.                                         *)
EnterClient(t, e) ==
  /\ call[t].at = "idle"
  /\ \E c \in Clients : ~Held(c)
  /\ endpoint' = e
  /\ client' = NewClient
  /\ open' = open \cup {NewClient}
  /\ call' = [u \in Calls |->
       IF u = t
       THEN [at |-> "calling", mine |-> NewClient, found |-> client, using |-> NewClient, asked |-> e,
             attempt |-> 1, alone |-> Busy = {}, outcome |-> "none"]
       ELSE [call[u] EXCEPT !.alone = @ /\ u \notin Busy]]
  /\ UNCHANGED sync

(* The end of a call, whatever its outcome: the client found on entry goes *)
(* back into self.client, then the call closes its own.                    *)
Leave(t, outcome) ==
  /\ client' = call[t].found
  /\ call' = [call EXCEPT ![t].at = "closing", ![t].outcome = outcome]
  /\ UNCHANGED <<endpoint, open, sync>>

Answered(t) ==
  /\ call[t].at = "calling"
  /\ call[t].using \in open
  /\ Leave(t, IF endpoint = call[t].asked THEN "answered" ELSE "misread")

(* As if an attempt, not the call, entered and left the client.            *)
FailsAndRestores(t) ==
  /\ call[t].at = "calling"
  /\ IF call[t].attempt < MaxAttempts
     THEN /\ client' = call[t].found
          /\ call' = [call EXCEPT ![t].at = "sleeping"]
          /\ UNCHANGED <<endpoint, open, sync>>
     ELSE Leave(t, "failed")

(* A retryable failure, upstream or because another call closed the client *)
(* the attempt was using.                                                  *)
FailsForNow(t) ==
  /\ call[t].at = "calling"
  /\ IF call[t].attempt < MaxAttempts
     THEN /\ call' = [call EXCEPT ![t].at = "sleeping"]
          /\ UNCHANGED <<client, endpoint, open, sync>>
     ELSE Leave(t, "failed")

(* A failure should_retry refuses; "lost" when only a closed client made   *)
(* it so.                                                                  *)
FailsForGood(t) ==
  /\ call[t].at = "calling"
  /\ Leave(t, IF call[t].using \in open THEN "failed" ELSE "lost")

(* The next attempt.  Without a client, or with a closed one, it raises an *)
(* error that is not retried.                                              *)
Retry(t) ==
  /\ call[t].at = "sleeping"
  /\ IF client \in open
     THEN /\ call' = [call EXCEPT ![t].at = "calling", ![t].using = client,
                                  ![t].attempt = @ + 1]
          /\ UNCHANGED <<client, endpoint, open, sync>>
     ELSE Leave(t, "lost")

Close(t) ==
  /\ call[t].at = "closing"
  /\ open' = open \ {call[t].mine}
  /\ call' = [call EXCEPT ![t].at = "idle", ![t].mine = NoClient,
                          ![t].found = NoClient, ![t].using = NoClient]
  /\ UNCHANGED <<client, endpoint, sync>>

(* One HTTP request of the synchronous path and what the two loops make of *)
(* its result: success and refused failures end both, a retryable failure  *)
(* is retried by the inner loop and, when that gives up, by the outer.     *)
SyncAttempt(retryable) ==
  /\ ~sync.ended
  /\ sync' = [sync EXCEPT
       !.sent = @ + 1,
       !.inner = IF retryable /\ @ < MaxAttempts THEN @ + 1 ELSE 1,
       !.outer = IF retryable /\ sync.inner = MaxAttempts /\ @ < MaxAttempts THEN @ + 1 ELSE @,
       !.ended = ~retryable \/ (sync.inner = MaxAttempts /\ sync.outer = MaxAttempts)]
  /\ UNCHANGED <<client, endpoint, open, call>>

SyncStart == sync.ended /\ sync' = NoCall /\ UNCHANGED <<client, endpoint, open, call>>

(* The calls of either kind touch nothing of the other.                    *)
AsyncNext ==
  \/ \E t \in Calls, e \in Endpoints : EnterClient(t, e)
  \/ \E t \in Calls : Answered(t)
  \/ \E t \in Calls : FailsForNow(t)
  \/ \E t \in Calls : FailsForGood(t)
  \/ \E t \in Calls : Retry(t)
  \/ \E t \in Calls : Close(t)
SyncNext ==
  \/ \E retryable \in BOOLEAN : SyncAttempt(retryable)
  \/ SyncStart
ApiNext == AsyncNext \/ SyncNext

ApiSpec == ApiInit /\ [][ApiNext]_apiVars

-----------------------------------------------------------------------------
(* A call that no other call overlapped is never lost to a missing or      *)
(* closed client and never parsed as another endpoint's response, whatever *)
(* state earlier, overlapping calls left self.client in.                   *)
AloneKept ==
  \A t \in Calls : call[t].alone => call[t].outcome \notin {"lost", "misread"}

(* The synchronous path sends at most MaxAttempts requests for each of     *)
(* MaxAttempts outer attempts: the nested executors multiply.              *)
SyncCallsBounded == sync.sent <= MaxAttempts * MaxAttempts

(* What calls may rely on, in either kind.                                 *)
ClientCallsKept == AloneKept /\ SyncCallsBounded

(* base_api_client.py:143, "Ensure we restore the previous client          *)
(* reference": between calls self.client is what it was before them, None. *)
ClientRestored == Busy = {} => client = NoClient
=============================================================================
