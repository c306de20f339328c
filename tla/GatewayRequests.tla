--------------------------- MODULE GatewayRequests --------------------------
(***************************************************************************)
(* The requests of the gateway (core/api_integration/gateway.py): the      *)
(* response cache, the transformation of the query, routing, and the       *)
(* statistics.  The rate limiter never refuses here: check_limit answers   *)
(* with an object, which is true.  Everything between two awaits is one    *)
(* step.  A request that names its method is turned into one whose method  *)
(* is a string, and fails where the gateway asks for the method's value.   *)
(***************************************************************************)
EXTENDS Naturals, FiniteSets, SequencesExt

CONSTANTS
    Senders,        \* requests in progress at a time
    Requests,       \* [path, query, named (its method), cacheable (cache_enabled)]
    Mapped,         \* what the request transformer makes of a query
    Patterns,       \* paths of routes, those with parameters included
    Matches(_, _),  \* _path_matches
    ResponseTtl, MaxInstant, MaxRequests

Paths == {r.path : r \in Requests}
Queries == {r.query : r \in Requests} \cup {Mapped[q] : q \in DOMAIN Mapped}

GatewayAssumption ==
    /\ IsFiniteSet(Senders)
    /\ Requests \subseteq [path : Paths, query : Queries, named : BOOLEAN, cacheable : BOOLEAN]
    /\ ResponseTtl \in Nat \ {0} /\ {MaxInstant, MaxRequests} \subseteq Nat
    /\ \A r \in Requests : r.query \in DOMAIN Mapped

VARIABLES
    instant,
    routes,         \* paths registered for GET, in order
    responses,      \* _response_cache: key -> response
    stats,          \* _stats
    underway        \* per caller, the request and how far it is
gatewayVars == <<instant, routes, responses, stats, underway>>

Key(path, query) == <<path, query>>
\* A response: when its handler made it, for which query, and how it went.
Free == [step |-> "free"]

\* Every path of the default routes is its own; they add nothing here.
GatewayInit ==
    /\ instant = 0 /\ routes = <<>>
    /\ responses = <<>>   \* no keys
    /\ stats = [total |-> 0, successful |-> 0, failed |-> 0, cached |-> 0]
    /\ underway = [c \in Senders |-> Free]

Proceeds(c, h) == underway' = [underway EXCEPT ![c] = h]
Count(field) == stats' = [stats EXCEPT ![field] = @ + 1]
Fails(c) == Proceeds(c, Free) /\ Count("failed") /\ UNCHANGED responses
Stands == UNCHANGED <<instant, routes>>

-----------------------------------------------------------------------------
\* process_request counts the request and asks the limiter.
Arrive(c, r) ==
    /\ underway[c].step \in {"free", "served"} /\ stats.total < MaxRequests
    /\ Count("total")
    /\ Proceeds(c, [step |-> "limited", request |-> r])
    /\ Stands /\ UNCHANGED responses

StillValid(response) == instant < response.made + ResponseTtl
YoungOrOld(response) == TRUE   \* as if the age were not looked at

\* _check_cache, and the transformation when it has no answer.
CheckCache(c) ==
    LET r == underway[c].request
        key == Key(r.path, r.query)
        Transforms == Proceeds(c, [step |-> "routed", request |-> [r EXCEPT !.query = Mapped[@]]])
    IN  /\ underway[c].step = "limited"
        /\ \/ r.cacheable /\ r.named /\ Fails(c)
           \/ /\ r.cacheable /\ ~r.named
              /\ key \in DOMAIN responses /\ StillValid(responses[key])
              /\ Count("cached")
              /\ Proceeds(c, [step |-> "served", request |-> r, response |-> responses[key], at |-> instant])
              /\ UNCHANGED responses
           \/ /\ r.cacheable /\ ~r.named
              /\ key \in DOMAIN responses /\ ~StillValid(responses[key])
              /\ responses' = [k \in DOMAIN responses \ {key} |-> responses[k]]
              /\ UNCHANGED stats /\ Transforms
           \/ /\ ~r.cacheable \/ (~r.named /\ key \notin DOMAIN responses)
              /\ UNCHANGED <<stats, responses>> /\ Transforms
        /\ Stands

\* The transformer or a middleware raises, before or after the routing.
Interrupted(c) == underway[c].step \in {"routed", "answered"} /\ Fails(c) /\ Stands

\* The route of this very path, else the first whose pattern matches.
HandlerOf(path) ==
    IF path \in ToSet(routes) THEN path
    ELSE LET found == SelectSeq(routes, LAMBDA p : Matches(p, path)) IN
         IF found = <<>> THEN "none" ELSE Head(found)

\* _route_request: without a handler 404; a handler that raises answers 500.
RouteRequest(c, succeeds) ==
    LET r == underway[c].request IN
    /\ underway[c].step = "routed"
    /\ \/ r.named /\ Fails(c)
       \/ /\ ~r.named
          /\ Proceeds(c, [step |-> "answered", request |-> r, response |->
                [made |-> instant, query |-> r.query, path |-> r.path,
                 ok |-> succeeds /\ HandlerOf(r.path) # "none"]])
          /\ UNCHANGED <<responses, stats>>
    /\ Stands

CacheUnder(r, response, key) ==
    responses' = IF r.cacheable /\ response.ok
                 THEN [k \in DOMAIN responses \cup {key} |->
                         IF k = key THEN response ELSE responses[k]]
                 ELSE responses
CacheByPath(r, response) ==   \* as if the key left the query out
    CacheUnder(r, response, Key(r.path, CHOOSE q \in Queries : q \in DOMAIN Mapped))

\* _cache_response, of the transformed request.
CacheResponse(r, response) == CacheUnder(r, response, Key(r.path, r.query))

\* The response has passed its transformer and the middleware.
Respond(c) ==
    LET h == underway[c] IN
    /\ h.step = "answered"
    /\ CacheResponse(h.request, h.response)
    /\ Count(IF h.response.ok THEN "successful" ELSE "failed")
    /\ Proceeds(c, Free)
    /\ Stands

\* register_route, directly or for a data source.
RegisterRoute(p) ==
    /\ p \notin ToSet(routes)
    /\ routes' = Append(routes, p)
    /\ UNCHANGED <<instant, responses, stats, underway>>

ClearResponses == responses' = <<>> /\ UNCHANGED <<instant, routes, stats, underway>>

InstantPasses ==
    /\ instant < MaxInstant /\ instant' = instant + 1
    /\ UNCHANGED <<routes, responses, stats, underway>>

GatewayNext ==
    \/ \E c \in Senders, r \in Requests : Arrive(c, r)
    \/ \E c \in Senders : CheckCache(c) \/ Interrupted(c) \/ Respond(c)
    \/ \E c \in Senders, succeeds \in BOOLEAN : RouteRequest(c, succeeds)
    \/ \E p \in Patterns : RegisterRoute(p)
    \/ ClearResponses \/ InstantPasses
GatewaySpec == GatewayInit /\ [][GatewayNext]_gatewayVars

-----------------------------------------------------------------------------
GatewayTypeOK ==
    /\ instant \in 0 .. MaxInstant
    /\ ToSet(routes) \subseteq Patterns
    /\ DOMAIN responses \subseteq Paths \X Queries
    /\ stats \in [{"total", "successful", "failed", "cached"} -> 0 .. MaxRequests]
    /\ \A c \in Senders : underway[c].step \in {"free", "limited", "routed", "answered", "served"}

\* Although an answer is looked up by the query as it was sent and kept by
\* the query as it was transformed, an answer of the cache is one that a
\* handler gave, within the life time, to this path and query; and the
\* statistics tell how every request ended that is no longer in progress.
CachedAnswersFit ==
    /\ \A c \in Senders : underway[c].step = "served" =>
         LET h == underway[c] IN
         /\ h.response.ok /\ h.at < h.response.made + ResponseTtl
         /\ <<h.response.path, h.response.query>> = <<h.request.path, h.request.query>>
    /\ stats.total = stats.successful + stats.failed + stats.cached
         + Cardinality({c \in Senders : underway[c].step \notin {"free", "served"}})
=============================================================================
