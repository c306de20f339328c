---------------------------- MODULE DataRequests ----------------------------
(***************************************************************************)
(* The data-request board: citizens ask for public data, edit and delete   *)
(* their own requests, vote on requests, and an administrator moves a      *)
(* request through its statuses.                                           *)
(*                                                                         *)
(* Every handler of service.py is an async function that calls a           *)
(* synchronous MongoDB driver, so one server process never interleaves two *)
(* handlers; several processes (gunicorn -w 4) interleave between any two  *)
(* database round trips.  A worker is such a process, and an action below  *)
(* is the code from one round trip to the next.  A deployment of one       *)
(* worker (uvicorn) is the instance with a single worker.                  *)
(***************************************************************************)
EXTENDS Integers, Sequences, FiniteSets

CONSTANTS
    Workers,      \* the server processes
    Users,        \* user ids the handlers are called with
    Requests,     \* ids of data requests, used or still unused
    Titles,       \* well-formed contents of a request (title, description, ...)
    NullTitle,    \* content DataRequestData refuses to parse: a required field is null
    Edits,        \* contents a PUT body may carry
    Statuses,     \* statuses an administrator may set
    Categories,   \* ids of the stored categories
    CategoryIds,  \* category ids a body may carry, stored or not
    Calls,        \* the operations clients use
    MaxVoteDocs,  \* bound: documents of the votes collection
    MaxFaults,    \* bound: database errors and killed workers
    NoDoc, NoReply

VoteTypes == {"like", "dislike"}
Ballots == VoteTypes \cup {"none"}  \* user_vote_type of a VoteResponse
Operations == {"create", "edit", "delete", "status", "vote", "cancel"}

-----------------------------------------------------------------------------
(* Documents, handlers and replies.                                        *)

Counts == [likes : Nat, dislikes : Nat]
ZeroCounts == [likes |-> 0, dislikes |-> 0]

\* DataRequest: vote_count is always written together with, and as the sum
\* of, likes_count and dislikes_count, so the pair stands for the three.
RequestDocs == [is_active : BOOLEAN, user_id : Users, title : Titles \cup {NullTitle},
                status : Statuses, counts : Counts]

VoteDocs == [request_id : Requests, user_id : Users, vote_type : VoteTypes,
             is_active : BOOLEAN]

Call == [op : Operations, user : Users, request : Requests]
VoteCall == [op : {"vote", "cancel"}, user : Users, request : Requests,
             vote_type : VoteTypes]

\* A handler between two round trips: the next step and the local variables
\* that survive until it.
Idle == [pc |-> "idle"]
Handlers ==
    {Idle}
    \cup [pc : {"find_vote", "create_vote", "withdraw_vote"}, call : VoteCall]
    \cup [pc : {"switch_vote"}, call : VoteCall, vote_id : Nat]
    \cup [pc : {"count_votes"}, call : VoteCall, voted : Ballots]
    \cup [pc : {"write_counts"}, call : VoteCall, voted : Ballots, counts : Counts]
    \cup [pc : {"write_edit"}, call : Call, doc : RequestDocs]
    \cup [pc : {"write_status"}, call : Call, status : Statuses]
    \cup [pc : {"write_delete", "reread_edit", "reread_status"}, call : Call]

\* What the client is told: ok is the success of the response, voted the
\* pair user_voted / user_vote_type of a VoteResponse.
Replies == [op : Operations, user : Users, request : Requests, ok : BOOLEAN,
            voted : Ballots]

ASSUME DataRequestsAssumption ==
    /\ IsFiniteSet(Workers)
    /\ NullTitle \notin Titles
    /\ Edits \subseteq Titles \cup {NullTitle}
    /\ "pending" \in Statuses
    /\ Categories \subseteq CategoryIds
    /\ Calls \subseteq Operations
    /\ MaxVoteDocs \in Nat
    /\ MaxFaults \in Nat
    /\ NoDoc \notin RequestDocs

VARIABLES
    requests,  \* collection data_requests: id -> document, or NoDoc
    votes,     \* collection votes, in insertion order
    handler,   \* worker -> the handler it is running and where it stands
    reply,     \* worker -> the last reply it sent, NoReply while it is busy
    faults     \* database errors and killed workers so far

vars == <<requests, votes, handler, reply, faults>>

TypeOK ==
    /\ requests \in [Requests -> RequestDocs \cup {NoDoc}]
    /\ votes \in Seq(VoteDocs)
    /\ handler \in [Workers -> Handlers]
    /\ reply \in [Workers -> Replies \cup {NoReply}]
    /\ faults \in 0..MaxFaults

-----------------------------------------------------------------------------
(* Repository queries.                                                     *)

Stored(r) == requests[r] # NoDoc

\* DataRequestRepository.find_by_id: only active documents, and a document
\* the model cannot parse is reported as missing.
Found(r) == Stored(r) /\ requests[r].is_active /\ requests[r].title # NullTitle

\* VoteRepository.find_by_request_and_user sees these documents and returns
\* the first of them in insertion order.
ActiveVotes(r, u) ==
    {i \in DOMAIN votes : /\ votes[i].request_id = r
                          /\ votes[i].user_id = u
                          /\ votes[i].is_active}

\* VoteRepository.delete_by_request_and_user matches these, active or not.
AllVotes(r, u) ==
    {i \in DOMAIN votes : votes[i].request_id = r /\ votes[i].user_id = u}

\* VoteRepository.get_vote_counts.
VotesOfType(r, t) ==
    {i \in DOMAIN votes : /\ votes[i].request_id = r
                          /\ votes[i].vote_type = t
                          /\ votes[i].is_active}
Tally(r) == [likes |-> Cardinality(VotesOfType(r, "like")),
             dislikes |-> Cardinality(VotesOfType(r, "dislike"))]

-----------------------------------------------------------------------------
(* Steps of a handler.                                                     *)

Ready(w, op) == handler[w] = Idle /\ op \in Calls
At(w, pc) == handler[w].pc = pc

Continue(w, h) == handler' = [handler EXCEPT ![w] = h]

Accept(w, h) == Continue(w, h) /\ reply' = [reply EXCEPT ![w] = NoReply]

Answer(w, c, ok, voted) ==
    /\ Continue(w, Idle)
    /\ reply' = [reply EXCEPT ![w] = [op |-> c.op, user |-> c.user,
                                      request |-> c.request, ok |-> ok,
                                      voted |-> voted]]

\* A database call that raises; every other call leaves faults alone.
Fault == faults < MaxFaults /\ faults' = faults + 1
Try(raised) == IF raised THEN Fault ELSE UNCHANGED faults

\* find_by_id catches every exception and reports the document as missing.
Finds(r, found) ==
    \/ found = Found(r) /\ UNCHANGED faults
    \/ ~found /\ Fault

\* A write whose repository method catches the exception: when the call
\* raises, MongoDB may or may not have applied it.
SetRequest(r, doc, raised) ==
    /\ Try(raised)
    /\ \/ requests' = [requests EXCEPT ![r] = doc]
       \/ raised /\ UNCHANGED requests

First(i, S) == i \in S /\ \A j \in S : i <= j

-----------------------------------------------------------------------------
(* POST /data-requests: create_data_request.  The category check and the   *)
(* insertion are one step because categories never change.                 *)

\* Mutant: a new request starts in a status that is not in the enumeration.
NewRequestOpen(u, t) == [is_active |-> TRUE, user_id |-> u, title |-> t,
                         status |-> "open", counts |-> ZeroCounts]

NewRequest(u, t) == [is_active |-> TRUE, user_id |-> u, title |-> t,
                     status |-> "pending", counts |-> ZeroCounts]

CreateRequest(w, u, r, t, c) ==
    LET call == [op |-> "create", user |-> u, request |-> r]
    IN  /\ Ready(w, "create")
        /\ ~Stored(r)
        /\ \/ /\ c \notin Categories
              /\ Answer(w, call, FALSE, "none")
              /\ UNCHANGED <<requests, faults>>
           \/ /\ c \in Categories
              /\ \E raised \in BOOLEAN :
                    /\ SetRequest(r, NewRequest(u, t), raised)
                    /\ Answer(w, call, ~raised, "none")
        /\ UNCHANGED votes

-----------------------------------------------------------------------------
(* POST and DELETE /data-requests/{id}/vote: vote_data_request.            *)

\* cancel_vote calls the same service method with a "temporary" like.
VoteTypesOf(op) == IF op = "cancel" THEN {"like"} ELSE VoteTypes

\* Calls that may still insert a document of votes.
Inserting == {w \in Workers : handler[w].pc \in {"find_vote", "create_vote"}}

VoteFindRequest(w, op, u, r, t) ==
    LET call == [op |-> op, user |-> u, request |-> r, vote_type |-> t]
    IN  /\ Ready(w, op)
        /\ Len(votes) + Cardinality(Inserting) < MaxVoteDocs
        /\ \E found \in BOOLEAN :
              /\ Finds(r, found)
              /\ IF found THEN Accept(w, [pc |-> "find_vote", call |-> call])
                          ELSE Answer(w, call, FALSE, "none")
        /\ UNCHANGED <<requests, votes>>

\* Mutant: a vote of the other type is inserted beside the existing one.
FindVoteByType(w) ==
    LET c == handler[w].call
        same == {i \in ActiveVotes(c.request, c.user) : votes[i].vote_type = c.vote_type}
    IN  /\ At(w, "find_vote")
        /\ Continue(w, [pc |-> IF same = {} THEN "create_vote" ELSE "withdraw_vote",
                        call |-> c])
        /\ UNCHANGED <<requests, votes, reply, faults>>

\* The first active vote decides: none, one of the same type, one of the
\* other type, of which the handler keeps the whole document.
FindVote(w) ==
    LET c == handler[w].call
        active == ActiveVotes(c.request, c.user)
    IN  /\ At(w, "find_vote")
        /\ \/ /\ active = {}
              /\ Continue(w, [pc |-> "create_vote", call |-> c])
           \/ \E i \in DOMAIN votes :
                /\ First(i, active)
                /\ IF votes[i].vote_type = c.vote_type
                   THEN Continue(w, [pc |-> "withdraw_vote", call |-> c])
                   ELSE Continue(w, [pc |-> "switch_vote", call |-> c, vote_id |-> i])
        /\ UNCHANGED <<requests, votes, reply, faults>>

CountNext(w, voted) ==
    Continue(w, [pc |-> "count_votes", call |-> handler[w].call, voted |-> voted])

CreateVote(w) ==
    LET c == handler[w].call
    IN  /\ At(w, "create_vote")
        /\ votes' = Append(votes, [request_id |-> c.request, user_id |-> c.user,
                                   vote_type |-> c.vote_type, is_active |-> TRUE])
        /\ CountNext(w, c.vote_type)
        /\ UNCHANGED <<requests, reply, faults>>

\* update_one on (request_id, user_id) without is_active: the oldest
\* document of the user is deactivated, whether or not it is the active one.
Withdrawn(r, u) ==
    [i \in DOMAIN votes |-> [votes[i] EXCEPT !.is_active = @ /\ ~First(i, AllVotes(r, u))]]

\* Mutant: a withdrawal answers at once, without a recount.
WithdrawVoteUncounted(w) ==
    LET c == handler[w].call
    IN  /\ At(w, "withdraw_vote")
        /\ votes' = Withdrawn(c.request, c.user)
        /\ Answer(w, c, TRUE, "none")
        /\ UNCHANGED <<requests, faults>>

WithdrawVote(w) ==
    LET c == handler[w].call
    IN  /\ At(w, "withdraw_vote")
        /\ \E raised \in BOOLEAN :
              /\ Try(raised)
              /\ \/ votes' = Withdrawn(c.request, c.user)
                 \/ raised /\ UNCHANGED votes
        /\ CountNext(w, "none")
        /\ UNCHANGED <<requests, reply>>

\* Mutant: the document is written back with its old type.
SwitchVoteUnchanged(w) ==
    /\ At(w, "switch_vote")
    /\ CountNext(w, handler[w].call.vote_type)
    /\ UNCHANGED <<requests, votes, reply, faults>>

\* The document FindVote read is written back whole, is_active included.
SwitchVote(w) ==
    LET c == handler[w].call
    IN  /\ At(w, "switch_vote")
        /\ votes' = [votes EXCEPT ![handler[w].vote_id] =
                        [request_id |-> c.request, user_id |-> c.user,
                         vote_type |-> c.vote_type, is_active |-> TRUE]]
        /\ CountNext(w, c.vote_type)
        /\ UNCHANGED <<requests, reply, faults>>

\* Mutant: the stored counts are incremented instead of recounted.
CountVotesByOne(w) ==
    LET c == handler[w].call
        old == requests[c.request].counts
        one(t) == IF handler[w].voted = t THEN 1 ELSE 0
    IN  /\ At(w, "count_votes")
        /\ Continue(w, [pc |-> "write_counts", call |-> c, voted |-> handler[w].voted,
                        counts |-> [likes |-> old.likes + one("like"),
                                    dislikes |-> old.dislikes + one("dislike")]])
        /\ UNCHANGED <<requests, votes, reply, faults>>

CountVotes(w) ==
    /\ At(w, "count_votes")
    /\ Continue(w, [pc |-> "write_counts", call |-> handler[w].call,
                    voted |-> handler[w].voted,
                    counts |-> Tally(handler[w].call.request)])
    /\ UNCHANGED <<requests, votes, reply, faults>>

\* The result of update_vote_count is not looked at.
WriteCounts(w) ==
    LET c == handler[w].call
    IN  /\ At(w, "write_counts")
        /\ \E raised \in BOOLEAN :
              SetRequest(c.request,
                         [requests[c.request] EXCEPT !.counts = handler[w].counts], raised)
        /\ Answer(w, c, TRUE, handler[w].voted)
        /\ UNCHANGED votes

-----------------------------------------------------------------------------
(* PUT /data-requests/{id}: update_data_request, for a body that sets the   *)
(* content to t and names category c, or an empty body.                     *)

\* Mutant: no comparison of the caller with the owner.
EditFindRequestOfAnyone(w, u, r, t, c) ==
    LET call == [op |-> "edit", user |-> u, request |-> r]
        doc == [requests[r] EXCEPT !.title = t]
    IN  /\ Ready(w, "edit")
        /\ Found(r)
        /\ c \in Categories
        /\ Accept(w, [pc |-> "write_edit", call |-> call, doc |-> doc])
        /\ UNCHANGED <<requests, votes, faults>>

EditFindRequest(w, u, r, t, c) ==
    LET call == [op |-> "edit", user |-> u, request |-> r]
        doc == [requests[r] EXCEPT !.title = t]
    IN  /\ Ready(w, "edit")
        /\ \E found \in BOOLEAN :
              /\ Finds(r, found)
              /\ IF found /\ requests[r].user_id = u
                 THEN \/ c \in Categories /\ Accept(w, [pc |-> "write_edit", call |-> call, doc |-> doc])
                      \/ c \notin Categories /\ Answer(w, call, FALSE, "none")
                      \/ Answer(w, call, TRUE, "none")  \* an empty body
                 ELSE Answer(w, call, FALSE, "none")
        /\ UNCHANGED <<requests, votes>>

\* The whole document EditFindRequest read is written back: counts, status
\* and is_active as they were then.
WriteEdit(w) ==
    /\ At(w, "write_edit")
    /\ requests' = [requests EXCEPT ![handler[w].call.request] = handler[w].doc]
    /\ Continue(w, [pc |-> "reread_edit", call |-> handler[w].call])
    /\ UNCHANGED <<votes, reply, faults>>

\* update returns what find_by_id finds; _build_response fails on None.
Reread(w, pc) ==
    /\ At(w, pc)
    /\ \E found \in BOOLEAN :
          /\ Finds(handler[w].call.request, found)
          /\ Answer(w, handler[w].call, found, "none")
    /\ UNCHANGED <<requests, votes>>

RereadEdit(w) == Reread(w, "reread_edit")

-----------------------------------------------------------------------------
(* DELETE /data-requests/{id}: delete_data_request.                        *)

DeleteFindRequest(w, u, r) ==
    LET call == [op |-> "delete", user |-> u, request |-> r]
    IN  /\ Ready(w, "delete")
        /\ \E found \in BOOLEAN :
              /\ Finds(r, found)
              /\ IF found /\ requests[r].user_id = u
                 THEN Accept(w, [pc |-> "write_delete", call |-> call])
                 ELSE Answer(w, call, FALSE, "none")
        /\ UNCHANGED <<requests, votes>>

\* The router reports success whatever the repository returns.
WriteDelete(w) ==
    LET c == handler[w].call
    IN  /\ At(w, "write_delete")
        /\ \E raised \in BOOLEAN :
              SetRequest(c.request, [requests[c.request] EXCEPT !.is_active = FALSE], raised)
        /\ Answer(w, c, TRUE, "none")
        /\ UNCHANGED votes

-----------------------------------------------------------------------------
(* PUT /data-requests/{id}/status: update_request_status.  No right is     *)
(* checked and any status may follow any other.                            *)

StatusFindRequest(w, u, r, s) ==
    LET call == [op |-> "status", user |-> u, request |-> r]
    IN  /\ Ready(w, "status")
        /\ \E found \in BOOLEAN :
              /\ Finds(r, found)
              /\ IF found THEN Accept(w, [pc |-> "write_status", call |-> call, status |-> s])
                          ELSE Answer(w, call, FALSE, "none")
        /\ UNCHANGED <<requests, votes>>

\* A call that raises makes update_status return False: UPDATE_FAILED.
WriteStatus(w) ==
    LET c == handler[w].call
    IN  /\ At(w, "write_status")
        /\ \E raised \in BOOLEAN :
              /\ SetRequest(c.request,
                            [requests[c.request] EXCEPT !.status = handler[w].status], raised)
              /\ IF raised THEN Answer(w, c, FALSE, "none")
                 ELSE Continue(w, [pc |-> "reread_status", call |-> c]) /\ UNCHANGED reply
        /\ UNCHANGED votes

RereadStatus(w) == Reread(w, "reread_status")

-----------------------------------------------------------------------------

\* A call whose exception nobody catches before the router, or a worker that
\* is killed: the handler ends where it stands and what it wrote stays.
Abort(w) ==
    /\ handler[w] # Idle
    /\ Fault
    /\ Answer(w, handler[w].call, FALSE, "none")
    /\ UNCHANGED <<requests, votes>>

Init ==
    /\ requests = [r \in Requests |-> NoDoc]
    /\ votes = <<>>
    /\ handler = [w \in Workers |-> Idle]
    /\ reply = [w \in Workers |-> NoReply]
    /\ faults = 0

VoteStep(w) ==
    \/ FindVote(w)
    \/ CreateVote(w)
    \/ WithdrawVote(w)
    \/ SwitchVote(w)
    \/ CountVotes(w)
    \/ WriteCounts(w)

HandlerStep(w) ==
    \/ VoteStep(w)
    \/ WriteEdit(w)
    \/ RereadEdit(w)
    \/ WriteDelete(w)
    \/ WriteStatus(w)
    \/ RereadStatus(w)

Arrival(w, u, r) ==
    \/ \E t \in Titles, c \in CategoryIds : CreateRequest(w, u, r, t, c)
    \/ \E op \in {"vote", "cancel"} : \E t \in VoteTypesOf(op) : VoteFindRequest(w, op, u, r, t)
    \/ \E t \in Edits, c \in CategoryIds : EditFindRequest(w, u, r, t, c)
    \/ DeleteFindRequest(w, u, r)
    \/ \E s \in Statuses : StatusFindRequest(w, u, r, s)

Next ==
    \E w \in Workers :
        \/ \E u \in Users, r \in Requests : Arrival(w, u, r)
        \/ HandlerStep(w)
        \/ Abort(w)

\* A worker that has begun a handler runs on; clients owe no calls.
Fairness == \A w \in Workers : WF_vars(HandlerStep(w))

Spec == Init /\ [][Next]_vars /\ Fairness

-----------------------------------------------------------------------------
(* Safety for any number of workers.                                       *)

\* The code checks for an existing vote before it inserts one, and nothing in
\* the database makes (request, user) unique: racing handlers can leave a
\* user several active votes on a request, but never more than there are
\* workers (service.py:203-229).  With one worker, at most one.
ActiveVotesBoundedByWorkers ==
    \A r \in Requests, u \in Users :
        Cardinality(ActiveVotes(r, u)) <= Cardinality(Workers)

\* Worker w is about to write request r, at step pc, for its owner.
Serving(w, pc, r) ==
    /\ At(w, pc)
    /\ handler[w].call.request = r
    /\ handler[w].call.user = requests[r].user_id

\* Only a handler that serves the owner rewrites the content of a stored
\* request or deletes it, whatever other handlers hold stale copies of it;
\* the owner never changes and the document is never removed
\* (service.py:134-140 and 176-182).
OwnerGuards ==
    \A r \in Requests : Stored(r) =>
        /\ Stored(r)'
        /\ requests'[r].user_id = requests[r].user_id
        /\ requests'[r].title # requests[r].title =>
              \E w \in Workers : Serving(w, "write_edit", r)
        /\ requests[r].is_active /\ ~requests'[r].is_active =>
              \E w \in Workers : Serving(w, "write_edit", r) \/ Serving(w, "write_delete", r)
OnlyOwnerChangesRequest == [][OwnerGuards]_vars

-----------------------------------------------------------------------------
(* Safety of a single server process.                                      *)

OneWorker == \A v, w \in Workers : v = w

Counting(r) ==
    \E w \in Workers : /\ handler[w].pc \in {"count_votes", "write_counts"}
                       /\ handler[w].call.request = r

\* Outside a vote handler, the counts stored in a request are the tally of
\* its active votes, through edits that write back whole documents, deletions
\* and switched votes (service.py:231-238).
CountsAgree == \A r \in Requests : Stored(r) /\ ~Counting(r) => requests[r].counts = Tally(r)

\* A reply that says the user now likes or dislikes a request is true: there
\* is an active vote of that type (service.py:240-247).
ReplyVotedTruthful ==
    \A w \in Workers :
        reply[w] # NoReply /\ reply[w].voted # "none" =>
            \E i \in ActiveVotes(reply[w].request, reply[w].user) :
                votes[i].vote_type = reply[w].voted

\* Every vote handler recounts from the votes: one whose write is applied
\* leaves exact counts behind, whatever earlier handlers failed to write
\* (service.py:231-238).
VoteRepairsCounts ==
    [][\A w \in Workers :
         At(w, "write_counts") /\ handler'[w] = Idle /\ UNCHANGED faults =>
            LET r == handler[w].call.request IN requests'[r].counts = Tally(r)]_vars

-----------------------------------------------------------------------------
(* A single server process without faults runs an honest ballot box.       *)

BallotOf(r, u) ==
    IF \E i \in ActiveVotes(r, u) : votes[i].vote_type = "like" THEN "like"
    ELSE IF ActiveVotes(r, u) # {} THEN "dislike" ELSE "none"

Box == INSTANCE BallotBox WITH
    ballot <- [r \in Requests |-> [u \in Users |-> BallotOf(r, u)]],
    published <- [r \in Requests |-> IF Stored(r) THEN requests[r].counts ELSE ZeroCounts],
    counting <- {r \in Requests : Counting(r)}

\* One vote of each user, and a published tally that only a count changes
\* and that catches up with every change of a vote.
RefinesBallotBox == Box!Spec

-----------------------------------------------------------------------------
(* What the documentation says and the code does not do.                   *)

\* service.py:206 "a vote of the same type cancels the vote": when the reply
\* says that the user has no vote, no active vote of the user remains.
WithdrawnMeansGone ==
    \A w \in Workers :
        /\ reply[w] # NoReply
        /\ reply[w].ok
        /\ reply[w].op = "vote"
        /\ reply[w].voted = "none"
        => ActiveVotes(reply[w].request, reply[w].user) = {}
=============================================================================
