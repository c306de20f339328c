----------------------------- MODULE Pipeline -----------------------------
(***************************************************************************)
(* The middleware pipeline of the API gateway (core/api_integration):      *)
(* requests run through the middleware of each request phase, are routed,  *)
(* and the responses run through those of each response phase.  A phase    *)
(* iterates over the manager's list itself and suspends in every           *)
(* middleware, while others are registered and unregistered.               *)
(***************************************************************************)
EXTENDS Naturals, FiniteSets, SequencesExt

CONSTANTS
    Passing,        \* requests being processed at the same time
    Layers,
    Order,          \* MiddlewareOrder of each
    PhasesOf,       \* get_phases of each
    RequestPhases, ResponsePhases,
    MaxChanges      \* bound of the exploration: (un)registrations

Phases == Range(RequestPhases) \cup Range(ResponsePhases)
PipelineAssumption ==
    /\ Order \in [Layers -> Nat] /\ PhasesOf \in [Layers -> SUBSET Phases]
    /\ {RequestPhases, ResponsePhases} \subseteq Seq(Phases) \ {<<>>}
    /\ IsInjective(RequestPhases \o ResponsePhases) /\ MaxChanges \in Nat

VARIABLES
    line,           \* _middleware_by_phase: the list of each phase
    pass,           \* per request, where it is
    changes
pipelineVars == <<line, pass, changes>>

\* side is the pipeline, at the number of the phase in it, next the index of
\* the list's iterator; ran, due, joined and left are the history of the
\* phase: who ran, who was registered at its start, who came and went since.
NewPhase(side, at, due) ==
    [side |-> side, at |-> at, next |-> 1, ran |-> <<>>, due |-> due,
     joined |-> FALSE, left |-> FALSE]
Away == NewPhase("away", 1, {})
Phase(p) == IF p.side = "request" THEN RequestPhases[p.at] ELSE ResponsePhases[p.at]
IsLast(p) == p.at = Len(IF p.side = "request" THEN RequestPhases ELSE ResponsePhases)
Inside(r) == pass[r].side \in {"request", "response"}

PipelineInit ==
    /\ line = [f \in Phases |-> <<>>]
    /\ pass = [r \in Passing |-> Away]
    /\ changes = 0

InLine == {m \in Layers : \E f \in Phases : m \in Range(line[f])}
PlacedLast(m, list) ==   \* as if the order were not looked at
    IF m \in Range(list) THEN list ELSE Append(list, m)

\* Before the first of higher order.
Placed(m, list) ==
    IF m \in Range(list) THEN list
    ELSE InsertAt(list, Cardinality({i \in DOMAIN list : Order[list[i]] <= Order[m]}) + 1, m)

\* A list holds a middleware once.
Cleared(m, list) ==
    IF m \in Range(list) THEN RemoveAt(list, CHOOSE i \in DOMAIN list : list[i] = m) ELSE list

Changed(field) ==
    /\ changes < MaxChanges /\ changes' = changes + 1
    /\ pass' = [r \in Passing |->
         IF Inside(r) /\ line'[Phase(pass[r])] # line[Phase(pass[r])]
         THEN [pass[r] EXCEPT ![field] = TRUE] ELSE pass[r]]

RegisterMiddleware(m) ==
    /\ line' = [f \in Phases |-> IF f \in PhasesOf[m] THEN Placed(m, line[f]) ELSE line[f]]
    /\ Changed("joined")

UnregisterMiddleware(m) ==
    /\ m \in InLine
    /\ line' = [f \in Phases |-> Cleared(m, line[f])]
    /\ Changed("left")

PassBecomes(r, p) == pass' = [pass EXCEPT ![r] = p] /\ UNCHANGED <<line, changes>>
Enters(r, side, at) ==
    LET f == IF side = "request" THEN RequestPhases[at] ELSE ResponsePhases[at]
    IN  PassBecomes(r, NewPhase(side, at, Range(line[f])))

ProcessRequest(r) == pass[r].side = "away" /\ Enters(r, "request", 1)
ProcessResponse(r) == pass[r].side = "routing" /\ Enters(r, "response", 1)

\* The middleware does its work; an error it handles without a response of
\* its own is logged, and the phase goes on.
RunMiddleware(r) ==
    LET p == pass[r] IN
    /\ Inside(r) /\ p.next <= Len(line[Phase(p)])
    /\ PassBecomes(r, [p EXCEPT !.next = @ + 1, !.ran = Append(@, line[Phase(p)][p.next])])

NextPhase(r) ==
    LET p == pass[r] IN
    IF IsLast(p) THEN PassBecomes(r, NewPhase(IF p.side = "request" THEN "routing" ELSE "away", 1, {}))
               ELSE Enters(r, p.side, p.at + 1)
Complete(r) == Inside(r) /\ pass[r].next > Len(line[Phase(pass[r])])
EndPhase(r) == Complete(r) /\ NextPhase(r)

\* A middleware answers an error with a response: a request is over, of the
\* response pipeline this phase only.  A cache hit ends the request phases.
BreakOff(r) ==
    LET p == pass[r] IN
    /\ Inside(r) /\ p.ran # <<>>
    /\ \/ p.side = "request" /\ PassBecomes(r, Away)
       \/ p.side = "request" /\ PassBecomes(r, NewPhase("routing", 1, {}))
       \/ p.side = "response" /\ NextPhase(r)

PipelineNext ==
    \/ \E m \in Layers : RegisterMiddleware(m) \/ UnregisterMiddleware(m)
    \/ \E r \in Passing :
         ProcessRequest(r) \/ ProcessResponse(r) \/ RunMiddleware(r) \/ EndPhase(r) \/ BreakOff(r)
PipelineSpec == PipelineInit /\ [][PipelineNext]_pipelineVars

-----------------------------------------------------------------------------
PipelineTypeOK ==
    /\ \A f \in Phases : line[f] \in Seq(Layers) /\ IsInjective(line[f])
    /\ DOMAIN pass = Passing
    /\ changes \in 0 .. MaxChanges

\* A phase that runs to its end has run every middleware registered when it
\* began, unless one was unregistered meanwhile: the iterator then skips
\* another one.  They ran in their order, none twice, unless one was
\* registered meanwhile: the iterator then goes back.
PhaseRunsAll ==
    \A r \in Passing : Inside(r) =>
        LET p == pass[r] IN
        /\ Complete(r) /\ ~p.left => p.due \subseteq Range(p.ran)
        /\ ~p.joined => /\ IsInjective(p.ran)
                       /\ \A i, j \in DOMAIN p.ran : i < j => Order[p.ran[i]] <= Order[p.ran[j]]
=============================================================================
