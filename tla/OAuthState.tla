----------------------------- MODULE OAuthState -----------------------------
(***************************************************************************)
(* The state parameter of a Google log-in: stored when the authorization   *)
(* URL is built, read and deleted by the callback (core/security.py).  It  *)
(* lives in Redis, or, when Redis does not answer, in the memory of the    *)
(* process that stored it; in both, if Redis stored it and its answer did  *)
(* not come in time.  Redis is asked twice, to get and to delete.          *)
(***************************************************************************)
EXTENDS Naturals, FiniteSets

CONSTANTS Processes, States

ASSUME OAuthAssumption == IsFiniteSet(Processes)

VARIABLES
    stored,     \* states handed out so far; they are random, never repeated
    inRedis,
    inMemory,   \* per process
    twice,      \* states that were stored in Redis and in memory (history)
    redisAnswers,
    spent,      \* states some callback was answered with
    uses,       \* how many callbacks each state was answered to
    callback    \* per process, the callback in progress
oauthVars == <<stored, inRedis, inMemory, twice, redisAnswers, spent, uses, callback>>

NoCallback == [step |-> "none"]

OAuthInit ==
    /\ stored = {} /\ inRedis = {} /\ twice = {} /\ spent = {}
    /\ inMemory = [p \in Processes |-> {}]
    /\ redisAnswers = TRUE
    /\ uses = [s \in States |-> 0]
    /\ callback = [p \in Processes |-> NoCallback]

\* setex fails: the state goes to memory, and may be in Redis all the same.
StoreState(p, s) ==
    IF redisAnswers
    THEN inRedis' = inRedis \cup {s} /\ UNCHANGED <<inMemory, twice>>
    ELSE /\ inMemory' = [inMemory EXCEPT ![p] = @ \cup {s}]
         /\ \/ UNCHANGED <<inRedis, twice>>
            \/ inRedis' = inRedis \cup {s} /\ twice' = twice \cup {s}

\* A random state, new every time.
AuthorizationUrl(p, s) ==
    /\ s \notin stored
    /\ stored' = stored \cup {s}
    /\ StoreState(p, s)

GoogleLogin(p, s) ==
    /\ callback[p] = NoCallback
    /\ AuthorizationUrl(p, s)
    /\ UNCHANGED <<redisAnswers, spent, uses, callback>>

\* The state is good: the code is exchanged.
Accepts(p, s) ==
    /\ callback' = [callback EXCEPT ![p] = NoCallback]
    /\ uses' = [uses EXCEPT ![s] = @ + 1]
    /\ spent' = spent \cup {s}

FromMemoryKept(p, s) ==   \* as if the entry were read and not popped
    /\ UNCHANGED inMemory
    /\ IF s \in inMemory[p]
       THEN Accepts(p, s)
       ELSE callback' = [callback EXCEPT ![p] = NoCallback] /\ UNCHANGED <<uses, spent>>

\* The fallback, also taken when Redis has no such key: pop from the memory
\* of this process.
FromMemory(p, s) ==
    /\ inMemory' = [inMemory EXCEPT ![p] = @ \ {s}]
    /\ IF s \in inMemory[p]
       THEN Accepts(p, s)
       ELSE callback' = [callback EXCEPT ![p] = NoCallback] /\ UNCHANGED <<uses, spent>>

\* late: the callback began after another was answered with the same state.
GetState(p, s) ==
    /\ callback[p] = NoCallback
    /\ IF redisAnswers /\ s \in inRedis
       THEN /\ callback' = [callback EXCEPT ![p] =
                               [step |-> "delete", state |-> s, late |-> s \in spent]]
            /\ UNCHANGED <<inMemory, spent, uses>>
       ELSE FromMemory(p, s)
    /\ UNCHANGED <<stored, inRedis, twice, redisAnswers>>

DeleteNothing(p) ==   \* as if the state were left to expire
    /\ callback[p].step = "delete"
    /\ Accepts(p, callback[p].state)
    /\ UNCHANGED <<stored, inRedis, inMemory, twice, redisAnswers>>

\* A deletion that fails may have been carried out.
DeleteState(p) ==
    /\ callback[p].step = "delete"
    /\ LET s == callback[p].state IN
       IF redisAnswers
       THEN inRedis' = inRedis \ {s} /\ Accepts(p, s) /\ UNCHANGED inMemory
       ELSE FromMemory(p, s) /\ inRedis' \in {inRedis, inRedis \ {s}}
    /\ UNCHANGED <<stored, twice, redisAnswers>>

\* Redis forgets a key after ten minutes; a process finds its entry expired,
\* or sweeps it with the others.
ExpireState(s) ==
    /\ \/ inRedis' = inRedis \ {s} /\ UNCHANGED inMemory
       \/ \E p \in Processes :
            inMemory' = [inMemory EXCEPT ![p] = @ \ {s}] /\ UNCHANGED inRedis
    /\ UNCHANGED <<stored, twice, redisAnswers, spent, uses, callback>>

RedisToggles ==
    /\ redisAnswers' = ~redisAnswers
    /\ UNCHANGED <<stored, inRedis, inMemory, twice, spent, uses, callback>>

\* A process dies and is started again by its master.
Restart(p) ==
    /\ callback' = [callback EXCEPT ![p] = NoCallback]
    /\ inMemory' = [inMemory EXCEPT ![p] = {}]
    /\ UNCHANGED <<stored, inRedis, twice, redisAnswers, spent, uses>>

OAuthNext ==
    \/ \E p \in Processes, s \in States : GoogleLogin(p, s) \/ GetState(p, s)
    \/ \E p \in Processes : DeleteState(p) \/ Restart(p)
    \/ \E s \in States : ExpireState(s)
    \/ RedisToggles
OAuthSpec == OAuthInit /\ [][OAuthNext]_oauthVars

-----------------------------------------------------------------------------
OAuthTypeOK ==
    /\ stored \subseteq States
    /\ inRedis \subseteq stored /\ spent \subseteq stored /\ twice \subseteq stored
    /\ inMemory \in [Processes -> SUBSET stored]
    /\ redisAnswers \in BOOLEAN
    /\ uses \in [States -> Nat]
    /\ callback \in [Processes ->
          {NoCallback} \cup [step : {"delete"}, state : stored, late : BOOLEAN]]

\* "Use once only", however Redis comes and goes: of a state some callback
\* was answered with nothing is left, and no callback that began later holds
\* it.  Only if storing it failed after Redis had stored it is one copy left,
\* and a later callback is answered once more.
NoLateUse ==
    /\ \A s \in spent, p \in Processes :
         /\ s \in inRedis => s \in twice /\ s \notin inMemory[p]
         /\ s \in inMemory[p] => s \in twice
    /\ \A p \in Processes :
         callback[p] # NoCallback /\ callback[p].late => callback[p].state \in twice

\* Overlapping callbacks may all read the state before one deletes it, yet
\* it opens at most as many log-ins as there are processes, and one more if
\* it was stored twice.
UsesBounded ==
    \A s \in States :
        uses[s] <= Cardinality(Processes) + (IF s \in twice THEN 1 ELSE 0)
=============================================================================
