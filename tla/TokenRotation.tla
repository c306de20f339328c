---------------------------- MODULE TokenRotation ----------------------------
(***************************************************************************)
(* The tokens of one account: issued in pairs, exchanged, used and revoked *)
(* (core/security.py, users/service.py).  The blacklist lives in Redis,    *)
(* which may not answer.  Time is counted in fractions of a second (a      *)
(* millionth in the code), because JWT expiries are whole seconds and a    *)
(* blacklist entry lives for the truncated remainder.                      *)
(***************************************************************************)
EXTENDS Naturals, FiniteSets, Sequences

CONSTANTS
    Servers,        \* server processes
    Second,         \* how many fractions a second has
    AccessLife, RefreshLife,    \* in fractions
    RedisMayFail,
    FailClosed,     \* settings.fail_close_on_blacklist_error
    MaxSignIns, MaxPairs, MaxLogouts, MaxTime   \* bounds

TokenAssumption ==
    /\ IsFiniteSet(Servers)
    /\ Second \in Nat \ {0}
    /\ AccessLife \in Nat \ {0} /\ RefreshLife \in Nat \ {0}
    /\ FailClosed \in BOOLEAN /\ RedisMayFail \in BOOLEAN
    /\ {MaxSignIns, MaxPairs, MaxLogouts, MaxTime} \subseteq Nat

VARIABLES
    now,
    pairs,          \* pairs issued, in order: when, from which pair, how verified
    blacklist,      \* Redis: token -> when its entry expires
    redisUp,
    redisFailed,    \* Redis did not answer at some time
    session         \* per process, the call in progress or the last answer
tokenVars == <<now, pairs, blacklist, redisUp, redisFailed, session>>

Kinds == {"access", "refresh"}
Tokens == (DOMAIN pairs) \X Kinds
Life(kind) == IF kind = "access" THEN AccessLife ELSE RefreshLife
\* The exp claim: a whole second.
Expiry(t) == (pairs[t[1]].at + Life(t[2])) \div Second
\* jwt.decode refuses a token once the current second is past its exp.
Expired(t) == Expiry(t) < now \div Second
NoParent == 0

TokensInit ==
    /\ now = 0 /\ pairs = <<>> /\ blacklist = <<>>
    /\ redisUp = TRUE /\ redisFailed = FALSE
    /\ session = [p \in Servers |-> [step |-> "idle"]]

Free(p) == session[p].step = "idle"
Goes(p, s) == session' = [session EXCEPT ![p] = s]
Ends(p) == Goes(p, [step |-> "idle"])

Blacklisted(t) == t \in DOMAIN blacklist /\ now < blacklist[t]
VerifyTokenUnlisted(t, kind) ==   \* as if only access tokens were looked up
    /\ t[2] = kind /\ ~Expired(t)
    /\ kind = "access" => ~Blacklisted(t)

\* is_token_blacklisted, then jwt.decode: an unreachable Redis lets the token
\* pass unless configured otherwise.
VerifyToken(t, kind) ==
    /\ t[2] = kind /\ ~Expired(t)
    /\ IF redisUp THEN ~Blacklisted(t) ELSE ~FailClosed

SecondsLeftButOne(t) ==   \* as if the entry lived a second too short
    IF Second * Expiry(t) > now + Second
    THEN (Second * Expiry(t) - now) \div Second - 1 ELSE 0

\* setex with the seconds left, truncated.  Redis refuses a TTL of zero, and
\* blacklist_token catches that as it catches a Redis that does not answer,
\* whether it has stored the entry or not.
SecondsLeft(t) ==
    IF Second * Expiry(t) > now THEN (Second * Expiry(t) - now) \div Second ELSE 0
Listed(t) ==
    [u \in DOMAIN blacklist \cup {t} |->
        IF u = t THEN now + Second * SecondsLeft(t) ELSE blacklist[u]]
BlacklistToken(t) ==
    IF Expired(t) \/ SecondsLeft(t) = 0 THEN UNCHANGED blacklist
    ELSE \/ blacklist' = Listed(t)
         \/ ~redisUp /\ UNCHANGED blacklist

CreateTokenPair(parent, checked) ==
    /\ Len(pairs) < MaxPairs
    /\ pairs' = Append(pairs, [at |-> now, parent |-> parent, checked |-> checked])

SignIn(p) ==
    /\ Free(p)
    /\ Cardinality({n \in DOMAIN pairs : pairs[n].parent = NoParent}) < MaxSignIns
    /\ CreateTokenPair(NoParent, TRUE)
    /\ UNCHANGED <<now, blacklist, redisUp, redisFailed, session>>

\* The second before the whole second of its exp claim has begun: its
\* blacklist entry may be gone, or may never be written, while the token is
\* accepted for up to two seconds more.
AlmostExpired(t) == now + Second > Second * Expiry(t)

RefreshToken(p, t) ==
    /\ Free(p)
    /\ VerifyToken(t, "refresh")
    /\ Goes(p, [step |-> "refresh", token |-> t, checked |-> redisUp /\ ~AlmostExpired(t)])
    /\ UNCHANGED <<now, pairs, blacklist, redisUp, redisFailed>>

\* get_by_id, then the new pair is created in memory; the account may have
\* been deleted.
RefreshIssues(p) ==
    /\ session[p].step = "refresh"
    /\ \/ /\ CreateTokenPair(session[p].token[1], session[p].checked)
          /\ Goes(p, [session[p] EXCEPT !.step = "rotate"])
       \/ Ends(p) /\ UNCHANGED pairs
    /\ UNCHANGED <<now, blacklist, redisUp, redisFailed>>

\* The old token is revoked last and the result is ignored.
RefreshRevokes(p) ==
    /\ session[p].step = "rotate"
    /\ BlacklistToken(session[p].token)
    /\ Ends(p)
    /\ UNCHANGED <<now, pairs, redisUp, redisFailed>>

\* The refresh token is optional.
Logout(p, n, withRefresh) ==
    /\ Free(p)
    /\ Cardinality({t \in DOMAIN blacklist : t[2] = "access"}) < MaxLogouts
    /\ BlacklistToken(<<n, "access">>)
    /\ IF withRefresh THEN Goes(p, [step |-> "logout", token |-> <<n, "refresh">>])
                      ELSE Ends(p)
    /\ UNCHANGED <<now, pairs, redisUp, redisFailed>>

LogoutRevokesRefresh(p) ==
    /\ session[p].step = "logout"
    /\ BlacklistToken(session[p].token)
    /\ Goes(p, [step |-> "idle", loggedOut |-> session[p].token[1]])
    /\ UNCHANGED <<now, pairs, redisUp, redisFailed>>

\* get_current_user: the token, then the account.
Use(p, t) ==
    /\ Free(p)
    /\ VerifyToken(t, "access")
    /\ Goes(p, [step |-> "use", token |-> t])
    /\ UNCHANGED <<now, pairs, blacklist, redisUp, redisFailed>>

UseFindsUser(p) ==
    /\ session[p].step = "use"
    /\ Ends(p)
    /\ UNCHANGED <<now, pairs, blacklist, redisUp, redisFailed>>

RedisFails ==
    /\ RedisMayFail
    /\ redisUp' = ~redisUp /\ redisFailed' = TRUE
    /\ UNCHANGED <<now, pairs, blacklist, session>>

Tick ==
    /\ now < MaxTime /\ now' = now + 1
    /\ UNCHANGED <<pairs, blacklist, redisUp, redisFailed, session>>

TokensNext ==
    \/ \E p \in Servers :
         \/ SignIn(p) \/ RefreshIssues(p) \/ RefreshRevokes(p)
         \/ LogoutRevokesRefresh(p) \/ UseFindsUser(p)
         \/ \E t \in Tokens : RefreshToken(p, t) \/ Use(p, t)
         \/ \E n \in DOMAIN pairs, r \in BOOLEAN : Logout(p, n, r)
    \/ RedisFails \/ Tick
TokensSpec == TokensInit /\ [][TokensNext]_tokenVars

-----------------------------------------------------------------------------
TokensTypeOK ==
    /\ now \in 0 .. MaxTime
    /\ pairs \in Seq([at : 0 .. MaxTime, parent : 0 .. MaxPairs, checked : BOOLEAN])
    /\ DOMAIN blacklist \subseteq Tokens
    /\ redisUp \in BOOLEAN /\ redisFailed \in BOOLEAN
    /\ DOMAIN session = Servers

\* However rotations overlap, a refresh token that was verified against a
\* working Redis before the end of its life is exchanged at most once per
\* server process, as long as Redis stays up to record the revocation.
ExchangesBounded ==
    ~redisFailed => \A n \in DOMAIN pairs :
        Cardinality({m \in DOMAIN pairs : pairs[m].parent = n /\ pairs[m].checked})
            <= Cardinality(Servers)

\* A token whose revocation was stored is not let through while Redis
\* answers, except in its almost expired last moments.
Passes(p, t) ==
    Free(p) /\ session'[p].step \in {"refresh", "use"} /\ session'[p].token = t
NoRevokedPasses ==
    \A p \in Servers : \A t \in DOMAIN blacklist :
        redisUp /\ Passes(p, t) => AlmostExpired(t)

\* A logout that answered success has revoked both tokens, although the
\* results of the two revocations are ignored.
LogoutRevokesBoth ==
    \A p \in Servers : "loggedOut" \in DOMAIN session[p] =>
        \A kind \in Kinds :
            LET t == <<session[p].loggedOut, kind>> IN
            t \in DOMAIN blacklist \/ AlmostExpired(t)

\* A revocation that was answered is stored, if Redis never failed, and one
\* that is stored counts.
RevocationHolds ==
    [][(~redisFailed => LogoutRevokesBoth)' /\ NoRevokedPasses]_tokenVars
=============================================================================
