------------------------ MODULE DataRequests_proofs ------------------------
(***************************************************************************)
(* Theorems about DataRequests, for every value of its constants: type     *)
(* correctness; only its owner changes a request; a user never has more    *)
(* active votes on a request than there are server processes, and so never *)
(* more than one when there is a single process; a single process whose    *)
(* database calls do not fail keeps the stored counts equal to the tally   *)
(* of the votes and implements the safety part of BallotBox; and a single  *)
(* process whatever fails answers truthfully and repairs the counts.       *)
(***************************************************************************)
EXTENDS DataRequests, FiniteSetTheorems, TLAPS

-----------------------------------------------------------------------------
(* Type correctness.                                                       *)

\* A handler that stands at a step holds the local variables of that step.
LEMMA HandlerAt ==
    ASSUME NEW h \in Handlers
    PROVE  /\ h = Idle \/ h.call \in Call \cup VoteCall
           /\ h.pc \in {"find_vote", "create_vote", "withdraw_vote", "switch_vote",
                        "count_votes", "write_counts"} => h.call \in VoteCall
           /\ h.pc \in {"write_edit", "write_status", "write_delete", "reread_edit",
                        "reread_status"} => h.call \in Call
           /\ h.pc = "switch_vote" => h.vote_id \in Nat
           /\ h.pc \in {"count_votes", "write_counts"} => h.voted \in Ballots
           /\ h.pc = "write_counts" => h.counts \in Counts
           /\ h.pc = "write_edit" => h.doc \in RequestDocs
           /\ h.pc = "write_status" => h.status \in Statuses
BY DEF Handlers, Idle

\* The tally of a request is a pair of natural numbers.
LEMMA TallyType ==
    ASSUME NEW r, votes \in Seq(VoteDocs)
    PROVE  Tally(r) \in Counts
<1>1. \A t : VotesOfType(r, t) \subseteq 1..Len(votes)
  BY DEF VotesOfType
<1>2. IsFiniteSet(1..Len(votes))
  BY FS_Interval
<1>3. \A t : Cardinality(VotesOfType(r, t)) \in Nat
  BY <1>1, <1>2, FS_Subset, FS_CardinalityType
<1> QED
  BY <1>3 DEF Tally, Counts

LEMMA FunctionIsSeq ==
    ASSUME NEW S, NEW n \in Nat, NEW f \in [1..n -> S]
    PROVE  f \in Seq(S) /\ Len(f) = n
OBVIOUS

LEMMA SeqUpdate ==
    ASSUME NEW S, NEW s \in Seq(S), NEW x \in S, NEW i \in Nat
    PROVE  /\ [s EXCEPT ![i] = x] \in Seq(S)
           /\ Len([s EXCEPT ![i] = x]) = Len(s)
           /\ DOMAIN [s EXCEPT ![i] = x] = DOMAIN s
<1>1. s \in [1..Len(s) -> S] /\ Len(s) \in Nat /\ DOMAIN s = 1..Len(s)
  OBVIOUS
<1> DEFINE t == [s EXCEPT ![i] = x]
<1>2. t \in [1..Len(s) -> S] /\ DOMAIN t = DOMAIN s
  BY <1>1
<1> QED
  BY <1>1, <1>2, FunctionIsSeq

LEMMA AnswerType ==
    ASSUME TypeOK, NEW w \in Workers, NEW c \in Call \cup VoteCall,
           NEW ok \in BOOLEAN, NEW voted \in Ballots, Answer(w, c, ok, voted)
    PROVE  handler' \in [Workers -> Handlers] /\ reply' \in [Workers -> Replies \cup {NoReply}]
<1>1. Idle \in Handlers
  BY DEF Handlers
<1>2. c.op \in Operations /\ c.user \in Users /\ c.request \in Requests
  BY DEF Call, VoteCall, Operations
<1>3. [op |-> c.op, user |-> c.user, request |-> c.request, ok |-> ok, voted |-> voted] \in Replies
  BY <1>2 DEF Replies
<1> QED
  BY <1>1, <1>3 DEF TypeOK, Answer, Continue

LEMMA AcceptType ==
    ASSUME TypeOK, NEW w \in Workers, NEW h \in Handlers, Accept(w, h)
    PROVE  handler' \in [Workers -> Handlers] /\ reply' \in [Workers -> Replies \cup {NoReply}]
BY DEF TypeOK, Accept, Continue

LEMMA ContinueType ==
    ASSUME TypeOK, NEW w \in Workers, NEW h \in Handlers, Continue(w, h)
    PROVE  handler' \in [Workers -> Handlers]
BY DEF TypeOK, Continue

LEMMA FaultsType ==
    ASSUME TypeOK, NEW raised, Try(raised)
    PROVE  faults' \in 0..MaxFaults
BY DataRequestsAssumption DEF TypeOK, Try, Fault

LEMMA FindsType ==
    ASSUME TypeOK, NEW r, NEW found, Finds(r, found)
    PROVE  faults' \in 0..MaxFaults /\ (found => Found(r))
BY DataRequestsAssumption DEF TypeOK, Finds, Fault

LEMMA SetRequestType ==
    ASSUME TypeOK, NEW r \in Requests, NEW doc \in RequestDocs \cup {NoDoc}, NEW raised,
           SetRequest(r, doc, raised)
    PROVE  requests' \in [Requests -> RequestDocs \cup {NoDoc}] /\ faults' \in 0..MaxFaults
BY FaultsType DEF TypeOK, SetRequest

\* The single-field updates of a stored document.
LEMMA DocUpdates ==
    ASSUME NEW d \in RequestDocs \cup {NoDoc}
    PROVE  /\ \A t \in Titles \cup {NullTitle} : d # NoDoc => [d EXCEPT !.title = t] \in RequestDocs
           /\ \A k \in Counts : d # NoDoc => [d EXCEPT !.counts = k] \in RequestDocs
           /\ \A s \in Statuses : d # NoDoc => [d EXCEPT !.status = s] \in RequestDocs
           /\ d # NoDoc => [d EXCEPT !.is_active = FALSE] \in RequestDocs
BY DEF RequestDocs

\* What a handler will write to was found in the collection, and documents
\* are never removed; without this a write could not be typed.
InFlightStored ==
    \A w \in Workers : handler[w] # Idle => Stored(handler[w].call.request)

TypeInv == TypeOK /\ InFlightStored

LEMMA TypeInit == Init => TypeInv
<1> SUFFICES ASSUME Init PROVE TypeInv
  OBVIOUS
<1>1. Idle \in Handlers
  BY DEF Handlers
<1>2. TypeOK
  BY <1>1, DataRequestsAssumption DEF Init, TypeOK
<1>3. InFlightStored
  BY DEF Init, InFlightStored
<1> QED
  BY <1>2, <1>3 DEF TypeInv

\* The shape of every step: the collections stay typed, no request is
\* removed, and the worker goes on with a typed handler or answers.
GoesOn(w, h) ==
    /\ h # Idle
    /\ h.call.request \in Requests
    /\ Stored(h.call.request)
    /\ Continue(w, h)
    /\ (reply' = reply \/ reply' = [reply EXCEPT ![w] = NoReply])
Moves(w) ==
    \/ \E h \in Handlers : GoesOn(w, h)
    \/ \E c \in Call \cup VoteCall, ok \in BOOLEAN, voted \in Ballots : Answer(w, c, ok, voted)

LEMMA MovesType ==
    ASSUME TypeInv, NEW w \in Workers, Moves(w),
           requests' \in [Requests -> RequestDocs \cup {NoDoc}],
           votes' \in Seq(VoteDocs),
           faults' \in 0..MaxFaults,
           \A r \in Requests : Stored(r) => Stored(r)'
    PROVE  TypeInv'
<1>1. CASE \E h \in Handlers : GoesOn(w, h)
  <2>1. PICK h \in Handlers : GoesOn(w, h)
    BY <1>1
  <2>2. TypeOK'
    BY <2>1, ContinueType DEF TypeInv, TypeOK, GoesOn
  <2>3. ASSUME NEW v \in Workers, handler'[v] # Idle
        PROVE  Stored(handler[v].call.request)'
    <3>1. handler'[v] = IF v = w THEN h ELSE handler[v]
      BY <2>1 DEF GoesOn, Continue, TypeInv, TypeOK
    <3>2. handler[v] # Idle => handler[v].call.request \in Requests
      BY HandlerAt DEF TypeInv, TypeOK, Call, VoteCall
    <3> QED
      BY <2>1, <2>3, <3>1, <3>2 DEF GoesOn, TypeInv, InFlightStored
  <2> QED
    BY <2>2, <2>3 DEF TypeInv, InFlightStored
<1>2. CASE \E c \in Call \cup VoteCall, ok \in BOOLEAN, voted \in Ballots : Answer(w, c, ok, voted)
  <2>1. PICK c \in Call \cup VoteCall, ok \in BOOLEAN, voted \in Ballots : Answer(w, c, ok, voted)
    BY <1>2
  <2>2. TypeOK'
    BY <2>1, AnswerType DEF TypeInv, TypeOK
  <2>3. ASSUME NEW v \in Workers, handler'[v] # Idle
        PROVE  Stored(handler[v].call.request)'
    <3>1. handler'[v] = handler[v]
      BY <2>1, <2>3 DEF Answer, Continue, TypeInv, TypeOK
    <3>2. handler[v] # Idle => handler[v].call.request \in Requests
      BY HandlerAt DEF TypeInv, TypeOK, Call, VoteCall
    <3> QED
      BY <2>3, <3>1, <3>2 DEF TypeInv, InFlightStored
  <2> QED
    BY <2>2, <2>3 DEF TypeInv, InFlightStored
<1> QED
  BY <1>1, <1>2 DEF Moves

\* A busy handler works on a stored request, for a call of its kind.
LEMMA BusyType ==
    ASSUME TypeInv, NEW w \in Workers, handler[w] # Idle
    PROVE  /\ handler[w] \in Handlers
           /\ handler[w].call \in Call \cup VoteCall
           /\ handler[w].call.request \in Requests
           /\ Stored(handler[w].call.request)
           /\ requests[handler[w].call.request] \in RequestDocs
<1>1. handler[w] \in Handlers /\ handler[w].call \in Call \cup VoteCall
  BY HandlerAt DEF TypeInv, TypeOK
<1>2. handler[w].call.request \in Requests
  BY <1>1 DEF Call, VoteCall
<1> QED
  BY <1>1, <1>2 DEF TypeInv, TypeOK, InFlightStored, Stored

LEMMA NotIdle ==
    ASSUME NEW w, handler[w].pc # "idle"
    PROVE  handler[w] # Idle
BY DEF Idle

LEMMA SetRequestStored ==
    ASSUME TypeInv, NEW r \in Requests, NEW doc \in RequestDocs, NEW raised,
           SetRequest(r, doc, raised)
    PROVE  /\ requests' \in [Requests -> RequestDocs \cup {NoDoc}]
           /\ faults' \in 0..MaxFaults
           /\ \A q \in Requests : Stored(q) => Stored(q)'
<1>1. requests' = [requests EXCEPT ![r] = doc] \/ requests' = requests
  BY DEF SetRequest
<1>2. requests \in [Requests -> RequestDocs \cup {NoDoc}]
  BY DEF TypeInv, TypeOK
<1>3. doc # NoDoc
  BY DataRequestsAssumption
<1>4. \A q \in Requests : Stored(q) => Stored(q)'
  BY <1>1, <1>2, <1>3 DEF Stored
<1> QED
  BY <1>4, SetRequestType DEF TypeInv

LEMMA TypeVoteStep ==
    ASSUME TypeInv, NEW w \in Workers, VoteStep(w)
    PROVE  TypeInv'
<1> DEFINE h == handler[w]
           c == handler[w].call
<1> USE DEF At
<1>1. h # Idle
  BY NotIdle DEF VoteStep, FindVote, CreateVote, WithdrawVote, SwitchVote, CountVotes, WriteCounts
<1>2. /\ h \in Handlers
      /\ c \in VoteCall
      /\ c \in Call \cup VoteCall
      /\ c.request \in Requests
      /\ c.user \in Users
      /\ c.vote_type \in VoteTypes
      /\ Stored(c.request)
      /\ requests[c.request] \in RequestDocs
  <2>1. c \in VoteCall
    BY <1>1, BusyType, HandlerAt DEF VoteStep, FindVote, CreateVote, WithdrawVote, SwitchVote,
       CountVotes, WriteCounts
  <2> QED
    BY <1>1, <2>1, BusyType DEF VoteCall
<1>3. /\ TypeOK
      /\ votes \in Seq(VoteDocs)
      /\ requests \in [Requests -> RequestDocs \cup {NoDoc}]
      /\ faults \in 0..MaxFaults
  BY DEF TypeInv, TypeOK
<1>4. \A t \in VoteTypes : [request_id |-> c.request, user_id |-> c.user, vote_type |-> t,
                           is_active |-> TRUE] \in VoteDocs
  BY <1>2 DEF VoteDocs
<1>5. ASSUME NEW voted \in Ballots, CountNext(w, voted), UNCHANGED reply
      PROVE  Moves(w)
  <2> DEFINE n == [pc |-> "count_votes", call |-> c, voted |-> voted]
  <2>1. n \in Handlers
    BY <1>2 DEF Handlers
  <2>2. GoesOn(w, n)
    BY <1>2, <1>5 DEF CountNext, GoesOn, Idle
  <2> QED
    BY <2>1, <2>2 DEF Moves
<1>6. CASE FindVote(w)
  <2>1. /\ [pc |-> "create_vote", call |-> c] \in Handlers
        /\ [pc |-> "withdraw_vote", call |-> c] \in Handlers
        /\ \A i \in DOMAIN votes : [pc |-> "switch_vote", call |-> c, vote_id |-> i] \in Handlers
    BY <1>2, <1>3 DEF Handlers
  <2>2. \E n \in Handlers : n.pc # "idle" /\ n.call = c /\ Continue(w, n)
    BY <1>6, <2>1 DEF FindVote
  <2>3. Moves(w)
    BY <1>2, <1>6, <2>2 DEF Moves, GoesOn, Idle, FindVote
  <2> QED
    BY <1>3, <1>6, <2>3, MovesType DEF FindVote, Stored
<1>7. CASE CreateVote(w)
  <2>1. Moves(w)
    BY <1>2, <1>5, <1>7 DEF CreateVote, Ballots
  <2>2. votes' \in Seq(VoteDocs)
    BY <1>2, <1>3, <1>4, <1>7 DEF CreateVote
  <2> QED
    BY <1>3, <1>7, <2>1, <2>2, MovesType DEF CreateVote, Stored
<1>8. CASE WithdrawVote(w)
  <2>1. Moves(w)
    BY <1>5, <1>8 DEF WithdrawVote, Ballots
  <2>2. Withdrawn(c.request, c.user) \in Seq(VoteDocs)
    <3>1. \A i \in 1..Len(votes) :
            [votes[i] EXCEPT !.is_active = @ /\ ~First(i, AllVotes(c.request, c.user))] \in VoteDocs
      <4> SUFFICES ASSUME NEW i \in 1..Len(votes), NEW b \in BOOLEAN
                   PROVE  [votes[i] EXCEPT !.is_active = b] \in VoteDocs
        OBVIOUS
      <4>1. votes[i] \in VoteDocs
        BY <1>3
      <4> QED
        BY <4>1 DEF VoteDocs
    <3>2. Withdrawn(c.request, c.user) \in [1..Len(votes) -> VoteDocs]
      BY <1>3, <3>1 DEF Withdrawn
    <3> QED
      BY <1>3, <3>2, FunctionIsSeq
  <2>3. votes' \in Seq(VoteDocs) /\ faults' \in 0..MaxFaults
    BY <1>3, <1>8, <2>2, FaultsType DEF WithdrawVote
  <2> QED
    BY <1>3, <1>8, <2>1, <2>3, MovesType DEF WithdrawVote, Stored
<1>9. CASE SwitchVote(w)
  <2>1. Moves(w)
    BY <1>2, <1>5, <1>9 DEF SwitchVote, Ballots
  <2>2. votes' \in Seq(VoteDocs)
    BY <1>2, <1>3, <1>4, <1>9, HandlerAt, SeqUpdate DEF SwitchVote
  <2> QED
    BY <1>3, <1>9, <2>1, <2>2, MovesType DEF SwitchVote, Stored
<1>10. CASE CountVotes(w)
  <2> DEFINE n == [pc |-> "write_counts", call |-> c, voted |-> h.voted, counts |-> Tally(c.request)]
  <2>1. n \in Handlers
    BY <1>2, <1>3, <1>10, HandlerAt, TallyType DEF CountVotes, Handlers
  <2>2. GoesOn(w, n)
    BY <1>2, <1>10 DEF CountVotes, GoesOn, Idle
  <2>3. Moves(w)
    BY <2>1, <2>2 DEF Moves
  <2> QED
    BY <1>3, <1>10, <2>3, MovesType DEF CountVotes, Stored
<1>11. CASE WriteCounts(w)
  <2>1. h.counts \in Counts /\ h.voted \in Ballots
    BY <1>2, <1>11, HandlerAt DEF WriteCounts
  <2>2. [requests[c.request] EXCEPT !.counts = h.counts] \in RequestDocs
    BY <1>2, <2>1 DEF RequestDocs
  <2>3. Moves(w)
    BY <1>2, <1>11, <2>1 DEF WriteCounts, Moves
  <2>4. PICK raised : SetRequest(c.request, [requests[c.request] EXCEPT !.counts = h.counts], raised)
    BY <1>11 DEF WriteCounts
  <2> QED
    BY <1>2, <1>3, <1>11, <2>2, <2>3, <2>4, SetRequestStored, MovesType DEF WriteCounts
<1> QED
  BY <1>6, <1>7, <1>8, <1>9, <1>10, <1>11 DEF VoteStep

LEMMA TypeOtherStep ==
    ASSUME TypeInv, NEW w \in Workers,
           \/ WriteEdit(w) \/ RereadEdit(w) \/ WriteDelete(w) \/ WriteStatus(w)
           \/ RereadStatus(w) \/ Abort(w)
    PROVE  TypeInv'
<1> DEFINE h == handler[w]
           c == handler[w].call
<1> USE DEF At
<1>1. h # Idle
  BY NotIdle DEF WriteEdit, RereadEdit, WriteDelete, WriteStatus, RereadStatus, Reread, Abort
<1>2. /\ h \in Handlers
      /\ c \in Call \cup VoteCall
      /\ c.request \in Requests
      /\ Stored(c.request)
      /\ requests[c.request] \in RequestDocs
      /\ "none" \in Ballots
  BY <1>1, BusyType DEF Ballots
<1>3. /\ TypeOK
      /\ votes \in Seq(VoteDocs)
      /\ requests \in [Requests -> RequestDocs \cup {NoDoc}]
      /\ faults \in 0..MaxFaults
  BY DEF TypeInv, TypeOK
<1>4. CASE WriteEdit(w)
  <2>1. h.doc \in RequestDocs /\ c \in Call
    BY <1>2, <1>4, HandlerAt DEF WriteEdit
  <2> DEFINE n == [pc |-> "reread_edit", call |-> c]
  <2>2. n \in Handlers
    BY <2>1 DEF Handlers
  <2>3. GoesOn(w, n)
    BY <1>2, <1>4 DEF WriteEdit, GoesOn, Idle
  <2>4. Moves(w)
    BY <2>2, <2>3 DEF Moves
  <2>5. h.doc # NoDoc
    BY <2>1, DataRequestsAssumption
  <2>6. \A r \in Requests : Stored(r) => Stored(r)'
    BY <1>3, <1>4, <2>5 DEF WriteEdit, Stored
  <2> QED
    BY <1>2, <1>3, <1>4, <2>1, <2>4, <2>6, MovesType DEF WriteEdit
<1>5. CASE RereadEdit(w) \/ RereadStatus(w)
  <2>1. PICK found \in BOOLEAN : Finds(c.request, found) /\ Answer(w, c, found, "none")
    BY <1>5 DEF RereadEdit, RereadStatus, Reread
  <2>2. Moves(w) /\ faults' \in 0..MaxFaults
    BY <1>2, <1>3, <2>1, FindsType DEF Moves
  <2> QED
    BY <1>3, <1>5, <2>2, MovesType DEF RereadEdit, RereadStatus, Reread, Stored
<1>6. CASE WriteDelete(w)
  <2>1. [requests[c.request] EXCEPT !.is_active = FALSE] \in RequestDocs
    BY <1>2 DEF RequestDocs
  <2>2. PICK raised : SetRequest(c.request, [requests[c.request] EXCEPT !.is_active = FALSE], raised)
    BY <1>6 DEF WriteDelete
  <2>3. Moves(w)
    BY <1>2, <1>6 DEF WriteDelete, Moves
  <2> QED
    BY <1>2, <1>3, <1>6, <2>1, <2>2, <2>3, SetRequestStored, MovesType DEF WriteDelete
<1>7. CASE WriteStatus(w)
  <2>1. h.status \in Statuses /\ c \in Call
    BY <1>2, <1>7, HandlerAt DEF WriteStatus
  <2>2. [requests[c.request] EXCEPT !.status = h.status] \in RequestDocs
    BY <1>2, <2>1 DEF RequestDocs
  <2>3. PICK raised \in BOOLEAN :
          /\ SetRequest(c.request, [requests[c.request] EXCEPT !.status = h.status], raised)
          /\ IF raised THEN Answer(w, c, FALSE, "none")
             ELSE Continue(w, [pc |-> "reread_status", call |-> c]) /\ UNCHANGED reply
    BY <1>7 DEF WriteStatus
  <2> DEFINE n == [pc |-> "reread_status", call |-> c]
  <2>4. n \in Handlers
    BY <2>1 DEF Handlers
  <2>5. ~raised => GoesOn(w, n)
    BY <1>2, <2>3 DEF GoesOn, Idle
  <2>6. Moves(w)
    BY <1>2, <2>3, <2>4, <2>5 DEF Moves
  <2> QED
    BY <1>2, <1>3, <1>7, <2>2, <2>3, <2>6, SetRequestStored, MovesType DEF WriteStatus
<1>8. CASE Abort(w)
  <2>1. Moves(w)
    BY <1>2, <1>8 DEF Abort, Moves
  <2>2. faults' \in 0..MaxFaults
    BY <1>3, <1>8, DataRequestsAssumption DEF Abort, Fault
  <2> QED
    BY <1>3, <1>8, <2>1, <2>2, MovesType DEF Abort, Stored
<1> QED
  BY <1>4, <1>5, <1>6, <1>7, <1>8

LEMMA TypeArrival ==
    ASSUME TypeInv, NEW w \in Workers, NEW u \in Users, NEW r \in Requests, Arrival(w, u, r)
    PROVE  TypeInv'
<1>1. /\ TypeOK
      /\ votes \in Seq(VoteDocs)
      /\ requests \in [Requests -> RequestDocs \cup {NoDoc}]
      /\ faults \in 0..MaxFaults
      /\ "none" \in Ballots
  BY DEF TypeInv, TypeOK, Ballots
<1>2. /\ \A op \in Operations : [op |-> op, user |-> u, request |-> r] \in Call
      /\ \A op \in {"vote", "cancel"}, t \in VoteTypes :
           [op |-> op, user |-> u, request |-> r, vote_type |-> t] \in VoteCall
  BY DEF Call, VoteCall
<1>3. /\ {"create", "edit", "delete", "status"} \subseteq Operations
      /\ Edits \subseteq Titles \cup {NullTitle}
      /\ "pending" \in Statuses
      /\ NoDoc \notin RequestDocs
  BY DataRequestsAssumption DEF Operations
<1>4. \A found \in BOOLEAN :
        Finds(r, found) => faults' \in 0..MaxFaults /\ (found => Stored(r))
  BY <1>1, FindsType DEF Found
<1>5. \A h \in Handlers : h # Idle /\ h.call.request = r /\ Stored(r) /\ Accept(w, h) => Moves(w)
  BY DEF Moves, GoesOn, Accept
<1>6. \A c \in Call \cup VoteCall, ok \in BOOLEAN : Answer(w, c, ok, "none") => Moves(w)
  BY <1>1 DEF Moves
<1>7. UNCHANGED <<requests, votes>> /\ faults' \in 0..MaxFaults /\ Moves(w) => TypeInv'
  BY <1>1, MovesType DEF Stored
<1>8. ASSUME NEW t \in Titles, NEW k \in CategoryIds, CreateRequest(w, u, r, t, k)
      PROVE  TypeInv'
  <2> DEFINE c == [op |-> "create", user |-> u, request |-> r]
  <2>1. c \in Call \cup VoteCall
    BY <1>2, <1>3
  <2>2. CASE k \notin Categories
    <3>1. Answer(w, c, FALSE, "none") /\ UNCHANGED <<requests, votes, faults>>
      BY <1>8, <2>2 DEF CreateRequest
    <3> QED
      BY <1>1, <1>6, <1>7, <2>1, <3>1
  <2>3. CASE k \in Categories
    <3>1. NewRequest(u, t) \in RequestDocs
      BY <1>3 DEF NewRequest, RequestDocs, Counts, ZeroCounts
    <3>2. PICK raised \in BOOLEAN : /\ SetRequest(r, NewRequest(u, t), raised)
                                   /\ Answer(w, c, ~raised, "none")
      BY <1>8, <2>3 DEF CreateRequest
    <3>3. Moves(w)
      BY <1>6, <2>1, <3>2
    <3> QED
      BY <1>1, <1>8, <3>1, <3>2, <3>3, SetRequestStored, MovesType DEF CreateRequest
  <2> QED
    BY <2>2, <2>3
<1>9. ASSUME NEW op \in {"vote", "cancel"}, NEW t \in VoteTypesOf(op), VoteFindRequest(w, op, u, r, t)
      PROVE  TypeInv'
  <2> DEFINE c == [op |-> op, user |-> u, request |-> r, vote_type |-> t]
             h == [pc |-> "find_vote", call |-> c]
  <2>1. c \in VoteCall
    BY <1>2 DEF VoteTypesOf, VoteTypes
  <2>2. h \in Handlers /\ h # Idle /\ h.call.request = r
    BY <2>1 DEF Handlers, Idle
  <2>3. PICK found \in BOOLEAN : /\ Finds(r, found)
                                 /\ IF found THEN Accept(w, h) ELSE Answer(w, c, FALSE, "none")
    BY <1>9 DEF VoteFindRequest
  <2>4. Moves(w)
    BY <1>4, <1>5, <1>6, <2>1, <2>2, <2>3
  <2> QED
    BY <1>4, <1>7, <1>9, <2>3, <2>4 DEF VoteFindRequest
<1>10. ASSUME NEW t \in Edits, NEW k \in CategoryIds, EditFindRequest(w, u, r, t, k)
       PROVE  TypeInv'
  <2> DEFINE c == [op |-> "edit", user |-> u, request |-> r]
             h == [pc |-> "write_edit", call |-> c, doc |-> [requests[r] EXCEPT !.title = t]]
  <2>1. c \in Call
    BY <1>2, <1>3
  <2>2. Stored(r) => [requests[r] EXCEPT !.title = t] \in RequestDocs
    BY <1>1, <1>3 DEF Stored, RequestDocs
  <2>3. Stored(r) => h \in Handlers
    BY <2>1, <2>2 DEF Handlers
  <2>4. h # Idle /\ h.call.request = r
    BY DEF Idle
  <2>5. PICK found \in BOOLEAN :
          /\ Finds(r, found)
          /\ \/ found /\ Accept(w, h)
             \/ Answer(w, c, FALSE, "none")
             \/ Answer(w, c, TRUE, "none")
    BY <1>10 DEF EditFindRequest
  <2>6. Moves(w)
    BY <1>4, <1>5, <1>6, <2>1, <2>3, <2>4, <2>5
  <2> QED
    BY <1>4, <1>7, <1>10, <2>5, <2>6 DEF EditFindRequest
<1>11. ASSUME DeleteFindRequest(w, u, r)
       PROVE  TypeInv'
  <2> DEFINE c == [op |-> "delete", user |-> u, request |-> r]
             h == [pc |-> "write_delete", call |-> c]
  <2>1. c \in Call
    BY <1>2, <1>3
  <2>2. h \in Handlers /\ h # Idle /\ h.call.request = r
    BY <2>1 DEF Handlers, Idle
  <2>3. PICK found \in BOOLEAN : /\ Finds(r, found)
                                 /\ (found /\ Accept(w, h)) \/ Answer(w, c, FALSE, "none")
    BY <1>11 DEF DeleteFindRequest
  <2>4. Moves(w)
    BY <1>4, <1>5, <1>6, <2>1, <2>2, <2>3
  <2> QED
    BY <1>4, <1>7, <1>11, <2>3, <2>4 DEF DeleteFindRequest
<1>12. ASSUME NEW s \in Statuses, StatusFindRequest(w, u, r, s)
       PROVE  TypeInv'
  <2> DEFINE c == [op |-> "status", user |-> u, request |-> r]
             h == [pc |-> "write_status", call |-> c, status |-> s]
  <2>1. c \in Call
    BY <1>2, <1>3
  <2>2. h \in Handlers /\ h # Idle /\ h.call.request = r
    BY <2>1 DEF Handlers, Idle
  <2>3. PICK found \in BOOLEAN : /\ Finds(r, found)
                                 /\ IF found THEN Accept(w, h) ELSE Answer(w, c, FALSE, "none")
    BY <1>12 DEF StatusFindRequest
  <2>4. Moves(w)
    BY <1>4, <1>5, <1>6, <2>1, <2>2, <2>3
  <2> QED
    BY <1>4, <1>7, <1>12, <2>3, <2>4 DEF StatusFindRequest
<1> QED
  BY <1>8, <1>9, <1>10, <1>11, <1>12 DEF Arrival

\* Where a call leaves its worker.
LEMMA ArrivalMoves ==
    ASSUME NEW w \in Workers, NEW u \in Users, NEW r \in Requests, Arrival(w, u, r)
    PROVE  \E h : /\ Continue(w, h)
                  /\ h.pc \in {"idle", "find_vote", "write_edit", "write_delete", "write_status"}
<1> DEFINE Fine(h) == /\ Continue(w, h)
                      /\ h.pc \in {"idle", "find_vote", "write_edit", "write_delete", "write_status"}
<1>1. ASSUME NEW c, NEW ok, Answer(w, c, ok, "none")
      PROVE  \E h : Fine(h)
  <2>1. Fine(Idle)
    BY <1>1 DEF Answer, Idle
  <2> QED
    BY <2>1
<1> HIDE DEF Fine
<1>2. ASSUME NEW t, NEW k, CreateRequest(w, u, r, t, k)
      PROVE  \E h : Fine(h)
  BY <1>1, <1>2 DEF CreateRequest
<1>3. ASSUME NEW op, NEW t, VoteFindRequest(w, op, u, r, t)
      PROVE  \E h : Fine(h)
  <2> DEFINE c == [op |-> op, user |-> u, request |-> r, vote_type |-> t]
             h == [pc |-> "find_vote", call |-> c]
  <2>1. Accept(w, h) => Fine(h)
    BY DEF Accept, Fine
  <2> QED
    BY <1>1, <1>3, <2>1 DEF VoteFindRequest
<1>4. ASSUME NEW t, NEW k, EditFindRequest(w, u, r, t, k)
      PROVE  \E h : Fine(h)
  <2> DEFINE c == [op |-> "edit", user |-> u, request |-> r]
             h == [pc |-> "write_edit", call |-> c, doc |-> [requests[r] EXCEPT !.title = t]]
  <2>1. Accept(w, h) => Fine(h)
    BY DEF Accept, Fine
  <2> QED
    BY <1>1, <1>4, <2>1 DEF EditFindRequest
<1>5. ASSUME DeleteFindRequest(w, u, r)
      PROVE  \E h : Fine(h)
  <2> DEFINE c == [op |-> "delete", user |-> u, request |-> r]
             h == [pc |-> "write_delete", call |-> c]
  <2>1. Accept(w, h) => Fine(h)
    BY DEF Accept, Fine
  <2> QED
    BY <1>1, <1>5, <2>1 DEF DeleteFindRequest
<1>6. ASSUME NEW s, StatusFindRequest(w, u, r, s)
      PROVE  \E h : Fine(h)
  <2> DEFINE c == [op |-> "status", user |-> u, request |-> r]
             h == [pc |-> "write_status", call |-> c, status |-> s]
  <2>1. Accept(w, h) => Fine(h)
    BY DEF Accept, Fine
  <2> QED
    BY <1>1, <1>6, <2>1 DEF StatusFindRequest
<1> QED
  BY <1>2, <1>3, <1>4, <1>5, <1>6 DEF Arrival, Fine

LEMMA TypeNext ==
    ASSUME TypeInv, [Next]_vars
    PROVE  TypeInv'
<1>1. CASE UNCHANGED vars
  BY <1>1 DEF vars, TypeInv, TypeOK, InFlightStored, Stored
<1>2. ASSUME NEW w \in Workers, NEW u \in Users, NEW r \in Requests, Arrival(w, u, r)
      PROVE  TypeInv'
  BY <1>2, TypeArrival
<1>3. ASSUME NEW w \in Workers, HandlerStep(w) \/ Abort(w)
      PROVE  TypeInv'
  BY <1>3, TypeVoteStep, TypeOtherStep DEF HandlerStep
<1> QED
  BY <1>1, <1>2, <1>3 DEF Next

\* Documents, handlers and replies keep their types, and every handler works
\* on a document that is there, with any number of workers and faults.
THEOREM TypeCorrect == Spec => []TypeOK
<1>1. TypeInv /\ [Next]_vars => TypeInv'
  BY TypeNext
<1>2. TypeInv => TypeOK
  BY DEF TypeInv
<1> QED
  BY <1>1, <1>2, TypeInit, PTL DEF Spec

-----------------------------------------------------------------------------
(* Only handlers that serve the owner of a request rewrite its content or  *)
(* delete it.  The right is checked when the request is looked up and used *)
(* one or more round trips later, so the proof carries the check from the  *)
(* one to the other: owners never change, although an edit writes back a   *)
(* whole document, because the document it holds has the right owner.      *)

WriterIsOwner ==
    \A w \in Workers :
        /\ handler[w].pc \in {"write_edit", "write_delete"} =>
              handler[w].call.user = requests[handler[w].call.request].user_id
        /\ handler[w].pc = "write_edit" =>
              handler[w].doc.user_id = requests[handler[w].call.request].user_id

OwnerInv == TypeInv /\ WriterIsOwner

-----------------------------------------------------------------------------

\* A step that keeps owners and leaves its worker elsewhere than at a write
\* by an owner, or at one that is right.
LEMMA OwnerKept ==
    ASSUME OwnerInv, OwnerGuards, NEW w \in Workers, NEW h, Continue(w, h),
           h.pc \in {"write_edit", "write_delete"} =>
               h.call.user = requests'[h.call.request].user_id,
           h.pc = "write_edit" => h.doc.user_id = requests'[h.call.request].user_id
    PROVE  WriterIsOwner'
<1> SUFFICES ASSUME NEW v \in Workers
             PROVE  /\ handler'[v].pc \in {"write_edit", "write_delete"} =>
                         handler'[v].call.user = requests'[handler'[v].call.request].user_id
                    /\ handler'[v].pc = "write_edit" =>
                         handler'[v].doc.user_id = requests'[handler'[v].call.request].user_id
  BY DEF WriterIsOwner
<1>1. handler'[v] = IF v = w THEN h ELSE handler[v]
  BY DEF Continue, OwnerInv, TypeInv, TypeOK
<1>2. CASE v = w
  BY <1>1, <1>2
<1>3. CASE v # w
  <2>1. ASSUME handler[v].pc \in {"write_edit", "write_delete"}
        PROVE  requests'[handler[v].call.request].user_id = requests[handler[v].call.request].user_id
    <3>1. handler[v] # Idle
      BY <2>1 DEF Idle
    <3>2. handler[v].call.request \in Requests /\ Stored(handler[v].call.request)
      BY <3>1, BusyType DEF OwnerInv
    <3> QED
      BY <3>2 DEF OwnerGuards
  <2> QED
    BY <1>1, <1>3, <2>1 DEF OwnerInv, WriterIsOwner
<1> QED
  BY <1>2, <1>3

LEMMA GuardsUnchanged ==
    ASSUME requests' = requests
    PROVE  OwnerGuards
BY DEF OwnerGuards, Stored

\* One document is replaced by one of the same owner, and where that changes
\* its content or deactivates it, the right worker is at work.
LEMMA GuardsWrite ==
    ASSUME OwnerInv, NEW q \in Requests, NEW d \in RequestDocs, Stored(q),
           requests' = [requests EXCEPT ![q] = d] \/ requests' = requests,
           d.user_id = requests[q].user_id,
           d.title # requests[q].title => \E w \in Workers : Serving(w, "write_edit", q),
           requests[q].is_active /\ ~d.is_active =>
               \E w \in Workers : Serving(w, "write_edit", q) \/ Serving(w, "write_delete", q)
    PROVE  OwnerGuards
<1>1. d # NoDoc
  BY DataRequestsAssumption
<1>2. ASSUME requests' = [requests EXCEPT ![q] = d]
      PROVE  OwnerGuards
  <2>1. \A r \in Requests : requests'[r] = IF r = q THEN d ELSE requests[r]
    BY <1>2 DEF OwnerInv, TypeInv, TypeOK
  <2> QED
    BY <1>1, <2>1 DEF OwnerGuards, Stored
<1> QED
  BY <1>2, GuardsUnchanged

LEMMA OwnerArrival ==
    ASSUME OwnerInv, NEW w \in Workers, NEW u \in Users, NEW r \in Requests, Arrival(w, u, r)
    PROVE  OwnerGuards /\ WriterIsOwner'
<1>0. requests \in [Requests -> RequestDocs \cup {NoDoc}]
  BY DEF OwnerInv, TypeInv, TypeOK
<1>1. OwnerGuards
  <2>1. CASE \E t \in Titles, k \in CategoryIds : CreateRequest(w, u, r, t, k)
    <3>1. ~Stored(r) /\ \A q \in Requests : q # r => requests'[q] = requests[q]
      BY <1>0, <2>1 DEF CreateRequest, SetRequest
    <3> QED
      BY <3>1 DEF OwnerGuards, Stored
  <2>2. CASE requests' = requests
    BY <2>2, GuardsUnchanged
  <2> QED
    BY <2>1, <2>2 DEF Arrival, VoteFindRequest, EditFindRequest, DeleteFindRequest,
       StatusFindRequest
<1>2. ASSUME NEW t \in Edits, NEW k, EditFindRequest(w, u, r, t, k)
      PROVE  WriterIsOwner'
  <2> DEFINE c == [op |-> "edit", user |-> u, request |-> r]
             h == [pc |-> "write_edit", call |-> c, doc |-> [requests[r] EXCEPT !.title = t]]
  <2>1. PICK found \in BOOLEAN :
          /\ Finds(r, found)
          /\ \/ found /\ requests[r].user_id = u /\ Continue(w, h)
             \/ Continue(w, Idle)
    BY <1>2 DEF EditFindRequest, Accept, Answer
  <2>2. requests' = requests
    BY <1>2 DEF EditFindRequest
  <2>3. ASSUME found, requests[r].user_id = u, Continue(w, h)
        PROVE  WriterIsOwner'
    <3>1. requests[r] \in RequestDocs
      BY <1>0, <2>1, <2>3, FindsType DEF OwnerInv, TypeInv, Found, Stored
    <3>2. h.doc.user_id = u /\ h.call.user = u /\ h.call.request = r
      BY <2>3, <3>1 DEF RequestDocs
    <3> QED
      BY <1>1, <2>2, <2>3, <3>2, OwnerKept
  <2>4. ASSUME Continue(w, Idle)
        PROVE  WriterIsOwner'
    BY <1>1, <2>4, OwnerKept DEF Idle
  <2> QED
    BY <2>1, <2>3, <2>4
<1>3. ASSUME DeleteFindRequest(w, u, r)
      PROVE  WriterIsOwner'
  <2> DEFINE c == [op |-> "delete", user |-> u, request |-> r]
             h == [pc |-> "write_delete", call |-> c]
  <2>1. \/ requests[r].user_id = u /\ Continue(w, h)
        \/ Continue(w, Idle)
    BY <1>3 DEF DeleteFindRequest, Accept, Answer
  <2>2. requests' = requests
    BY <1>3 DEF DeleteFindRequest
  <2>3. h.pc = "write_delete" /\ h.call.user = u /\ h.call.request = r
    OBVIOUS
  <2>4. ASSUME Continue(w, Idle)
        PROVE  WriterIsOwner'
    BY <1>1, <2>4, OwnerKept DEF Idle
  <2> QED
    BY <1>1, <2>1, <2>2, <2>3, <2>4, OwnerKept
<1>4. ASSUME NEW h, Continue(w, h), h.pc \in {"idle", "find_vote", "write_status"}
      PROVE  WriterIsOwner'
  BY <1>1, <1>4, OwnerKept
<1>5. CASE \/ \E t \in Titles, k \in CategoryIds : CreateRequest(w, u, r, t, k)
           \/ \E op \in {"vote", "cancel"} : \E t \in VoteTypesOf(op) : VoteFindRequest(w, op, u, r, t)
           \/ \E s \in Statuses : StatusFindRequest(w, u, r, s)
  <2>1. \/ Continue(w, Idle)
        \/ \E c : Continue(w, [pc |-> "find_vote", call |-> c])
        \/ \E c, s : Continue(w, [pc |-> "write_status", call |-> c, status |-> s])
    BY <1>5 DEF CreateRequest, VoteFindRequest, StatusFindRequest, Accept, Answer
  <2>2. /\ Idle.pc = "idle"
        /\ \A c : [pc |-> "find_vote", call |-> c].pc = "find_vote"
        /\ \A c, s : [pc |-> "write_status", call |-> c, status |-> s].pc = "write_status"
    BY DEF Idle
  <2> QED
    BY <1>1, <1>4, <2>1, <2>2
<1> QED
  BY <1>1, <1>2, <1>3, <1>5 DEF Arrival

LEMMA OwnerHandler ==
    ASSUME OwnerInv, NEW w \in Workers, HandlerStep(w) \/ Abort(w)
    PROVE  OwnerGuards /\ WriterIsOwner'
<1> DEFINE c == handler[w].call
           q == handler[w].call.request
           d == requests[q]
<1> USE DEF At
<1>1. handler[w] # Idle
  BY NotIdle DEF HandlerStep, VoteStep, FindVote, CreateVote, WithdrawVote, SwitchVote, CountVotes,
     WriteCounts, WriteEdit, RereadEdit, WriteDelete, WriteStatus, RereadStatus, Reread, Abort
<1>2. q \in Requests /\ Stored(q) /\ d \in RequestDocs /\ handler[w] \in Handlers
  BY <1>1, BusyType DEF OwnerInv
<1>3. ASSUME NEW h, Continue(w, h), h.pc \notin {"write_edit", "write_delete"}, OwnerGuards
      PROVE  WriterIsOwner'
  BY <1>3, OwnerKept
<1>4. ASSUME Continue(w, Idle), OwnerGuards
      PROVE  WriterIsOwner'
  BY <1>3, <1>4 DEF Idle
<1>5. CASE FindVote(w)
  <2>1. \/ Continue(w, [pc |-> "create_vote", call |-> c])
        \/ Continue(w, [pc |-> "withdraw_vote", call |-> c])
        \/ \E i \in DOMAIN votes : Continue(w, [pc |-> "switch_vote", call |-> c, vote_id |-> i])
    BY <1>5 DEF FindVote
  <2>2. /\ [pc |-> "create_vote", call |-> c].pc = "create_vote"
        /\ [pc |-> "withdraw_vote", call |-> c].pc = "withdraw_vote"
        /\ \A i : [pc |-> "switch_vote", call |-> c, vote_id |-> i].pc = "switch_vote"
    OBVIOUS
  <2>3. OwnerGuards
    BY <1>5, GuardsUnchanged DEF FindVote
  <2> QED
    BY <1>3, <2>1, <2>2, <2>3
<1>6. CASE CreateVote(w) \/ WithdrawVote(w) \/ SwitchVote(w) \/ CountVotes(w)
  <2>1. \E h : Continue(w, h) /\ h.pc \in {"count_votes", "write_counts"}
    BY <1>6 DEF CreateVote, WithdrawVote, SwitchVote, CountVotes, CountNext
  <2>2. OwnerGuards
    BY <1>6, GuardsUnchanged DEF CreateVote, WithdrawVote, SwitchVote, CountVotes
  <2> QED
    BY <1>3, <2>1, <2>2
<1>7. CASE WriteCounts(w)
  <2> DEFINE e == [d EXCEPT !.counts = handler[w].counts]
  <2>1. handler[w].counts \in Counts
    BY <1>2, <1>7, HandlerAt DEF WriteCounts
  <2>2. /\ e \in RequestDocs /\ e.user_id = d.user_id /\ e.title = d.title
        /\ e.is_active = d.is_active
    BY <1>2, <2>1 DEF RequestDocs
  <2>3. requests' = [requests EXCEPT ![q] = e] \/ requests' = requests
    BY <1>7 DEF WriteCounts, SetRequest
  <2>4. OwnerGuards
    BY <1>2, <2>2, <2>3, GuardsWrite
  <2> QED
    BY <1>4, <1>7, <2>4 DEF WriteCounts, Answer
<1>8. CASE WriteEdit(w)
  <2> DEFINE e == handler[w].doc
  <2>1. handler[w].pc = "write_edit" /\ requests' = [requests EXCEPT ![q] = e]
    BY <1>8 DEF WriteEdit
  <2>2. e \in RequestDocs /\ e.user_id = d.user_id /\ c.user = d.user_id
    BY <1>2, <2>1, HandlerAt DEF OwnerInv, WriterIsOwner
  <2>3. Serving(w, "write_edit", q)
    BY <2>1, <2>2 DEF Serving
  <2>4. OwnerGuards
    BY <1>2, <2>1, <2>2, <2>3, GuardsWrite
  <2> QED
    BY <1>3, <1>8, <2>4 DEF WriteEdit
<1>9. CASE WriteDelete(w)
  <2> DEFINE e == [d EXCEPT !.is_active = FALSE]
  <2>1. handler[w].pc = "write_delete"
    BY <1>9 DEF WriteDelete
  <2>2. e \in RequestDocs /\ e.user_id = d.user_id /\ e.title = d.title
    BY <1>2 DEF RequestDocs
  <2>3. requests' = [requests EXCEPT ![q] = e] \/ requests' = requests
    BY <1>9 DEF WriteDelete, SetRequest
  <2>4. Serving(w, "write_delete", q)
    BY <2>1 DEF Serving, OwnerInv, WriterIsOwner
  <2>5. OwnerGuards
    BY <1>2, <2>2, <2>3, <2>4, GuardsWrite
  <2> QED
    BY <1>4, <1>9, <2>5 DEF WriteDelete, Answer
<1>10. CASE WriteStatus(w)
  <2> DEFINE e == [d EXCEPT !.status = handler[w].status]
  <2>1. handler[w].status \in Statuses
    BY <1>2, <1>10, HandlerAt DEF WriteStatus
  <2>2. /\ e \in RequestDocs /\ e.user_id = d.user_id /\ e.title = d.title
        /\ e.is_active = d.is_active
    BY <1>2, <2>1 DEF RequestDocs
  <2>3. requests' = [requests EXCEPT ![q] = e] \/ requests' = requests
    BY <1>10 DEF WriteStatus, SetRequest
  <2>4. OwnerGuards
    BY <1>2, <2>2, <2>3, GuardsWrite
  <2>5. Continue(w, Idle) \/ Continue(w, [pc |-> "reread_status", call |-> c])
    BY <1>10 DEF WriteStatus, Answer
  <2>6. [pc |-> "reread_status", call |-> c].pc = "reread_status"
    OBVIOUS
  <2> QED
    BY <1>3, <1>4, <2>4, <2>5, <2>6
<1>11. CASE RereadEdit(w) \/ RereadStatus(w) \/ Abort(w)
  <2>1. requests' = requests /\ Continue(w, Idle)
    BY <1>11 DEF RereadEdit, RereadStatus, Reread, Abort, Answer
  <2> QED
    BY <1>4, <2>1, GuardsUnchanged
<1> QED
  BY <1>5, <1>6, <1>7, <1>8, <1>9, <1>10, <1>11 DEF HandlerStep, VoteStep

LEMMA OwnerNext ==
    ASSUME OwnerInv, [Next]_vars
    PROVE  OwnerInv' /\ [OwnerGuards]_vars
<1>1. TypeInv'
  BY TypeNext DEF OwnerInv
<1>2. CASE UNCHANGED vars
  <2>1. WriterIsOwner'
    BY <1>2 DEF vars, OwnerInv, WriterIsOwner
  <2> QED
    BY <1>1, <1>2, <2>1 DEF OwnerInv
<1>3. CASE Next
  <2>1. OwnerGuards /\ WriterIsOwner'
    BY <1>3, OwnerArrival, OwnerHandler DEF Next
  <2> QED
    BY <1>1, <2>1 DEF OwnerInv
<1> QED
  BY <1>2, <1>3

\* Only a handler that serves the owner rewrites the content of a request or
\* deletes it, with any number of workers and faults.
THEOREM OwnerOnly == Spec => OnlyOwnerChangesRequest
<1>1. Init => OwnerInv
  <2>1. Init => WriterIsOwner
    BY DEF Init, Idle, WriterIsOwner
  <2> QED
    BY <2>1, TypeInit DEF OwnerInv
<1>2. OwnerInv /\ [Next]_vars => OwnerInv' /\ [OwnerGuards]_vars
  BY OwnerNext
<1> QED
  BY <1>1, <1>2, PTL DEF Spec, OnlyOwnerChangesRequest

-----------------------------------------------------------------------------
(* The bound itself is not inductive: a process about to insert a vote, or *)
(* about to write back one that was withdrawn meanwhile, is going to add   *)
(* to the active votes.  What never exceeds the number of processes is     *)
(* the votes that are active or about to be written back, together with    *)
(* the processes about to insert one.  The first sum grows only when a     *)
(* process finds no active vote, and then every member of it is due to a   *)
(* different process.                                                      *)

\* Workers about to insert a vote of u on r.
Creators(r, u) ==
    {w \in Workers : /\ handler[w].pc = "create_vote"
                     /\ handler[w].call.request = r
                     /\ handler[w].call.user = u}

\* Workers about to write back a vote of u on r.
Switchers(r, u) ==
    {w \in Workers : /\ handler[w].pc = "switch_vote"
                     /\ handler[w].call.request = r
                     /\ handler[w].call.user = u}

WrittenBack(r, u) == {handler[w].vote_id : w \in Switchers(r, u)}
Held(r, u) == ActiveVotes(r, u) \cup WrittenBack(r, u)

\* A handler writes back a vote of its own request and user.
SwitchesOwnVote ==
    \A w \in Workers : handler[w].pc = "switch_vote" =>
        handler[w].vote_id \in AllVotes(handler[w].call.request, handler[w].call.user)

HeldBound ==
    \A r \in Requests, u \in Users :
        Cardinality(Held(r, u)) + Cardinality(Creators(r, u)) <= Cardinality(Workers)

VoteInv == TypeInv /\ SwitchesOwnVote /\ HeldBound

-----------------------------------------------------------------------------

\* Everything that is counted here is finite.
LEMMA HeldFinite ==
    ASSUME TypeInv, SwitchesOwnVote, NEW r \in Requests, NEW u \in Users
    PROVE  /\ Held(r, u) \subseteq AllVotes(r, u)
           /\ IsFiniteSet(Held(r, u)) /\ Cardinality(Held(r, u)) \in Nat
           /\ IsFiniteSet(ActiveVotes(r, u)) /\ Cardinality(ActiveVotes(r, u)) \in Nat
           /\ IsFiniteSet(Creators(r, u)) /\ Cardinality(Creators(r, u)) \in Nat
           /\ IsFiniteSet(Switchers(r, u)) /\ Cardinality(Switchers(r, u)) \in Nat
           /\ Cardinality(Workers) \in Nat
<1>1. Held(r, u) \subseteq AllVotes(r, u)
  BY DEF Held, ActiveVotes, WrittenBack, Switchers, SwitchesOwnVote, AllVotes
<1>2. AllVotes(r, u) \subseteq 1..Len(votes) /\ ActiveVotes(r, u) \subseteq 1..Len(votes)
  BY DEF AllVotes, ActiveVotes, TypeInv, TypeOK
<1>3. IsFiniteSet(1..Len(votes))
  BY FS_Interval DEF TypeInv, TypeOK
<1>4. Held(r, u) \subseteq 1..Len(votes)
  BY <1>1, <1>2
<1>5. Creators(r, u) \subseteq Workers /\ Switchers(r, u) \subseteq Workers
  BY DEF Creators, Switchers
<1>6. IsFiniteSet(Workers)
  BY DataRequestsAssumption
<1>7. /\ IsFiniteSet(Held(r, u)) /\ IsFiniteSet(ActiveVotes(r, u))
      /\ IsFiniteSet(Creators(r, u)) /\ IsFiniteSet(Switchers(r, u))
  BY <1>2, <1>3, <1>4, <1>5, <1>6, FS_Subset
<1> QED
  BY <1>1, <1>6, <1>7, FS_CardinalityType

\* When the user has no active vote, what is held or about to be inserted is
\* due to distinct workers, and so is one worker more.
LEMMA OneEach ==
    ASSUME TypeInv, SwitchesOwnVote, NEW r \in Requests, NEW u \in Users, NEW w \in Workers,
           ActiveVotes(r, u) = {}, handler[w].pc = "find_vote"
    PROVE  Cardinality(Held(r, u)) + Cardinality(Creators(r, u) \cup {w}) <= Cardinality(Workers)
<1> DEFINE S == Switchers(r, u)
           C == Creators(r, u) \cup {w}
<1>1. IsFiniteSet(S) /\ IsFiniteSet(C) /\ Cardinality(S) \in Nat /\ Cardinality(C) \in Nat
  BY HeldFinite, FS_AddElement, FS_CardinalityType
<1>2. Held(r, u) = {handler[v].vote_id : v \in S}
  BY DEF Held, WrittenBack
<1>3. Cardinality(Held(r, u)) <= Cardinality(S)
  <2> DEFINE f == [v \in S |-> handler[v].vote_id]
  <2>1. f \in Surjection(S, Held(r, u))
    BY <1>2 DEF Surjection
  <2> QED
    BY <1>1, <2>1, FS_Surjection
<1>4. S \cap C = {} /\ S \cup C \subseteq Workers
  BY DEF Switchers, Creators
<1>5. Cardinality(S \cup C) = Cardinality(S) + Cardinality(C)
  BY <1>1, <1>4, FS_Union, FS_EmptySet
<1>6. Cardinality(S \cup C) <= Cardinality(Workers)
  BY <1>4, DataRequestsAssumption, FS_Subset
<1> QED
  BY <1>1, <1>3, <1>5, <1>6, HeldFinite

-----------------------------------------------------------------------------

\* A step that neither holds more votes nor starts an insertion.
LEMMA BoundKept ==
    ASSUME VoteInv, TypeInv', SwitchesOwnVote',
           \A r \in Requests, u \in Users :
               Held(r, u)' \subseteq Held(r, u) /\ Creators(r, u)' \subseteq Creators(r, u)
    PROVE  HeldBound'
<1> SUFFICES ASSUME NEW r \in Requests, NEW u \in Users
             PROVE  Cardinality(Held(r, u)') + Cardinality(Creators(r, u)') <= Cardinality(Workers)
  BY DEF HeldBound
<1>1. /\ IsFiniteSet(Held(r, u)) /\ IsFiniteSet(Creators(r, u))
      /\ Cardinality(Held(r, u)) \in Nat /\ Cardinality(Creators(r, u)) \in Nat
      /\ Cardinality(Workers) \in Nat
  BY HeldFinite DEF VoteInv
<1>2. /\ Cardinality(Held(r, u)') <= Cardinality(Held(r, u))
      /\ Cardinality(Creators(r, u)') <= Cardinality(Creators(r, u))
      /\ Cardinality(Held(r, u)') \in Nat /\ Cardinality(Creators(r, u)') \in Nat
  BY <1>1, FS_Subset, FS_CardinalityType
<1>3. Cardinality(Held(r, u)) + Cardinality(Creators(r, u)) <= Cardinality(Workers)
  BY DEF VoteInv, HeldBound
<1> QED
  BY <1>1, <1>2, <1>3

\* No vote is added or moved to another request or user, and none becomes
\* active.
VotesKept ==
    /\ DOMAIN votes' = DOMAIN votes
    /\ \A i \in DOMAIN votes : /\ votes'[i].request_id = votes[i].request_id
                               /\ votes'[i].user_id = votes[i].user_id
                               /\ votes'[i].is_active => votes[i].is_active

\* A worker that goes on to a step where it neither inserts nor writes back.
LEMMA LeavesVoting ==
    ASSUME VoteInv, TypeInv', NEW w \in Workers, NEW h, VotesKept, Continue(w, h),
           h.pc \notin {"create_vote", "switch_vote"}
    PROVE  VoteInv'
<1>1. \A v \in Workers : handler'[v] = IF v = w THEN h ELSE handler[v]
  BY DEF Continue, VoteInv, TypeInv, TypeOK
<1>2. /\ \A r, u : AllVotes(r, u)' = AllVotes(r, u)
      /\ \A r, u : ActiveVotes(r, u)' \subseteq ActiveVotes(r, u)
  BY DEF VotesKept, AllVotes, ActiveVotes
<1>3. SwitchesOwnVote'
  BY <1>1, <1>2 DEF VoteInv, SwitchesOwnVote
<1>4. ASSUME NEW r \in Requests, NEW u \in Users
      PROVE  Held(r, u)' \subseteq Held(r, u) /\ Creators(r, u)' \subseteq Creators(r, u)
  <2>1. Creators(r, u)' \subseteq Creators(r, u)
    BY <1>1 DEF Creators
  <2>2. WrittenBack(r, u)' \subseteq WrittenBack(r, u)
    BY <1>1 DEF WrittenBack, Switchers
  <2> QED
    BY <1>2, <2>1, <2>2 DEF Held
<1> QED
  BY <1>3, <1>4, BoundKept DEF VoteInv

LEMMA BoundFindVote ==
    ASSUME VoteInv, TypeInv', NEW w \in Workers, FindVote(w)
    PROVE  VoteInv'
<1> DEFINE c == handler[w].call
           active == ActiveVotes(c.request, c.user)
<1>1. /\ handler[w].pc = "find_vote"
      /\ votes' = votes
      /\ handler[w] # Idle
  BY NotIdle DEF FindVote, At
<1>2. c.request \in Requests /\ c.user \in Users
  BY <1>1, BusyType DEF VoteInv, Call, VoteCall
<1>3. ASSUME NEW h, Continue(w, h)
      PROVE  \A v \in Workers : handler'[v] = IF v = w THEN h ELSE handler[v]
  BY <1>3 DEF Continue, VoteInv, TypeInv, TypeOK
<1> USE DEF VoteInv
<1>4. \A r, u : AllVotes(r, u)' = AllVotes(r, u) /\ ActiveVotes(r, u)' = ActiveVotes(r, u)
  BY <1>1 DEF AllVotes, ActiveVotes
<1>5. CASE active = {} /\ Continue(w, [pc |-> "create_vote", call |-> c])
  <2>1. \A v \in Workers : handler'[v] = IF v = w THEN [pc |-> "create_vote", call |-> c] ELSE handler[v]
    BY <1>3, <1>5
  <2>2. \A r, u : Switchers(r, u)' = Switchers(r, u) /\ WrittenBack(r, u)' = WrittenBack(r, u)
    BY <1>1, <2>1 DEF Switchers, WrittenBack
  <2>3. SwitchesOwnVote'
    BY <1>4, <2>1 DEF SwitchesOwnVote
  <2>4. \A r, u : Held(r, u)' = Held(r, u)
    BY <1>4, <2>2 DEF Held
  <2>5. ASSUME NEW r \in Requests, NEW u \in Users
        PROVE  Cardinality(Held(r, u)') + Cardinality(Creators(r, u)') <= Cardinality(Workers)
    <3>1. CASE r = c.request /\ u = c.user
      <4>1. Creators(r, u)' = Creators(r, u) \cup {w}
        BY <2>1, <3>1 DEF Creators
      <4> QED
        BY <1>1, <1>5, <2>4, <3>1, <4>1, OneEach
    <3>2. CASE ~(r = c.request /\ u = c.user)
      <4>1. Creators(r, u)' = Creators(r, u)
        BY <1>1, <2>1, <3>2 DEF Creators
      <4> QED
        BY <2>4, <4>1 DEF HeldBound
    <3> QED
      BY <3>1, <3>2
  <2> QED
    BY <2>3, <2>5 DEF HeldBound
<1>6. ASSUME NEW i \in DOMAIN votes, First(i, active),
             Continue(w, [pc |-> "switch_vote", call |-> c, vote_id |-> i])
      PROVE  VoteInv'
  <2>1. \A v \in Workers : handler'[v] = IF v = w THEN [pc |-> "switch_vote", call |-> c, vote_id |-> i]
                                                 ELSE handler[v]
    BY <1>3, <1>6
  <2>2. i \in active /\ i \in AllVotes(c.request, c.user)
    BY <1>6 DEF First, ActiveVotes, AllVotes
  <2>3. SwitchesOwnVote'
    BY <1>4, <2>1, <2>2 DEF SwitchesOwnVote
  <2>4. \A r, u : Creators(r, u)' \subseteq Creators(r, u)
    BY <2>1 DEF Creators
  <2>5. \A r, u : WrittenBack(r, u)' \subseteq Held(r, u)
    BY <2>1, <2>2 DEF WrittenBack, Switchers, Held
  <2>6. \A r, u : Held(r, u)' \subseteq Held(r, u)
    BY <1>4, <2>5 DEF Held
  <2> QED
    BY <2>3, <2>4, <2>6, BoundKept
<1>7. CASE Continue(w, [pc |-> "withdraw_vote", call |-> c])
  BY <1>1, <1>7, LeavesVoting DEF VotesKept
<1> QED
  BY <1>5, <1>6, <1>7 DEF FindVote

LEMMA BoundCreateVote ==
    ASSUME VoteInv, TypeInv', NEW w \in Workers, CreateVote(w)
    PROVE  VoteInv'
<1> DEFINE c == handler[w].call
           n == Len(votes) + 1
           doc == [request_id |-> c.request, user_id |-> c.user,
                   vote_type |-> c.vote_type, is_active |-> TRUE]
           h == [pc |-> "count_votes", call |-> c, voted |-> c.vote_type]
<1> USE DEF VoteInv
<1>1. handler[w].pc = "create_vote" /\ votes' = Append(votes, doc) /\ Continue(w, h)
  BY DEF CreateVote, CountNext, At
<1>2. \A v \in Workers : handler'[v] = IF v = w THEN h ELSE handler[v]
  BY <1>1 DEF Continue, TypeInv, TypeOK
<1>3. /\ DOMAIN votes = 1..Len(votes) /\ Len(votes) \in Nat
      /\ DOMAIN votes' = DOMAIN votes \cup {n}
      /\ \A i \in DOMAIN votes : votes'[i] = votes[i]
      /\ votes'[n] = doc
      /\ n \notin DOMAIN votes
  BY <1>1 DEF TypeInv, TypeOK
<1>4. \A r, u : ActiveVotes(r, u)' =
                  IF r = c.request /\ u = c.user THEN ActiveVotes(r, u) \cup {n} ELSE ActiveVotes(r, u)
  BY <1>3 DEF ActiveVotes
<1>5. \A r, u : AllVotes(r, u) \subseteq AllVotes(r, u)'
  BY <1>3 DEF AllVotes
<1>6. SwitchesOwnVote'
  BY <1>2, <1>5 DEF SwitchesOwnVote
<1>7. \A r, u : WrittenBack(r, u)' = WrittenBack(r, u)
  BY <1>1, <1>2 DEF WrittenBack, Switchers
<1>8. ASSUME NEW r \in Requests, NEW u \in Users
      PROVE  Cardinality(Held(r, u)') + Cardinality(Creators(r, u)') <= Cardinality(Workers)
  <2>1. /\ IsFiniteSet(Held(r, u)) /\ IsFiniteSet(Creators(r, u))
        /\ Cardinality(Held(r, u)) \in Nat /\ Cardinality(Creators(r, u)) \in Nat
        /\ Cardinality(Workers) \in Nat
        /\ Held(r, u) \subseteq AllVotes(r, u)
    BY HeldFinite
  <2>2. Cardinality(Held(r, u)) + Cardinality(Creators(r, u)) <= Cardinality(Workers)
    BY DEF HeldBound
  <2>3. CASE r = c.request /\ u = c.user
    <3>1. Held(r, u)' = Held(r, u) \cup {n}
      BY <1>4, <1>7, <2>3 DEF Held
    <3>2. n \notin Held(r, u)
      BY <1>3, <2>1 DEF AllVotes
    <3>3. Creators(r, u)' = Creators(r, u) \ {w} /\ w \in Creators(r, u)
      BY <1>1, <1>2, <2>3 DEF Creators
    <3>4. Cardinality(Held(r, u)') = Cardinality(Held(r, u)) + 1
      BY <2>1, <3>1, <3>2, FS_AddElement
    <3>5. Cardinality(Creators(r, u)') = Cardinality(Creators(r, u)) - 1
      BY ZenonT(60), <2>1, <3>3, FS_RemoveElement
    <3> QED
      BY <2>1, <2>2, <3>4, <3>5
  <2>4. CASE ~(r = c.request /\ u = c.user)
    <3>1. Held(r, u)' = Held(r, u)
      BY <1>4, <1>7, <2>4 DEF Held
    <3>2. Creators(r, u)' = Creators(r, u)
      BY <1>1, <1>2, <2>4 DEF Creators
    <3> QED
      BY <2>2, <3>1, <3>2
  <2> QED
    BY <2>3, <2>4
<1> QED
  BY <1>6, <1>8 DEF HeldBound

LEMMA BoundSwitchVote ==
    ASSUME VoteInv, TypeInv', NEW w \in Workers, SwitchVote(w)
    PROVE  VoteInv'
<1> DEFINE c == handler[w].call
           id == handler[w].vote_id
           doc == [request_id |-> c.request, user_id |-> c.user,
                   vote_type |-> c.vote_type, is_active |-> TRUE]
           h == [pc |-> "count_votes", call |-> c, voted |-> c.vote_type]
<1> USE DEF VoteInv
<1>1. handler[w].pc = "switch_vote" /\ votes' = [votes EXCEPT ![id] = doc] /\ Continue(w, h)
  BY DEF SwitchVote, CountNext, At
<1>2. \A v \in Workers : handler'[v] = IF v = w THEN h ELSE handler[v]
  BY <1>1 DEF Continue, TypeInv, TypeOK
<1>3. id \in AllVotes(c.request, c.user)
  BY <1>1 DEF SwitchesOwnVote
<1>4. id \in DOMAIN votes /\ votes[id].request_id = c.request /\ votes[id].user_id = c.user
  BY <1>3 DEF AllVotes
<1>5. /\ DOMAIN votes' = DOMAIN votes
      /\ \A i \in DOMAIN votes : votes'[i] = IF i = id THEN doc ELSE votes[i]
  BY <1>1, <1>4 DEF TypeInv, TypeOK
<1>6. \A r, u : AllVotes(r, u)' = AllVotes(r, u)
  BY <1>4, <1>5 DEF AllVotes
<1>7. SwitchesOwnVote'
  BY <1>2, <1>6 DEF SwitchesOwnVote
<1>8. ASSUME NEW r \in Requests, NEW u \in Users
      PROVE  Held(r, u)' \subseteq Held(r, u) /\ Creators(r, u)' \subseteq Creators(r, u)
  <2>1. Creators(r, u)' \subseteq Creators(r, u)
    BY <1>2 DEF Creators
  <2>2. WrittenBack(r, u)' \subseteq WrittenBack(r, u)
    BY <1>2 DEF WrittenBack, Switchers
  <2>3. r = c.request /\ u = c.user => id \in WrittenBack(r, u)
    BY <1>1 DEF WrittenBack, Switchers
  <2>4. ActiveVotes(r, u)' \subseteq Held(r, u)
    BY <1>5, <2>3 DEF ActiveVotes, Held
  <2> QED
    BY <2>1, <2>2, <2>4 DEF Held
<1> QED
  BY <1>7, <1>8, BoundKept

LEMMA BoundNext ==
    ASSUME VoteInv, [Next]_vars
    PROVE  VoteInv'
<1>0. TypeInv'
  BY TypeNext DEF VoteInv
<1>1. CASE UNCHANGED vars
  <2>1. SwitchesOwnVote'
    BY <1>1 DEF vars, VoteInv, SwitchesOwnVote, AllVotes
  <2>2. HeldBound'
    BY <1>1 DEF vars, VoteInv, HeldBound, Held, ActiveVotes, WrittenBack, Switchers, Creators
  <2> QED
    BY <1>0, <2>1, <2>2 DEF VoteInv
<1> DEFINE Elsewhere(w) == \E h : /\ VotesKept
                                  /\ Continue(w, h)
                                  /\ h.pc \notin {"create_vote", "switch_vote"}
<1>2. ASSUME NEW w \in Workers, Elsewhere(w)
      PROVE  VoteInv'
  BY <1>0, <1>2, LeavesVoting
<1>3. votes' = votes => VotesKept
  BY DEF VotesKept
<1>4. ASSUME NEW w \in Workers, NEW u \in Users, NEW r \in Requests, Arrival(w, u, r)
      PROVE  Elsewhere(w)
  <2>1. votes' = votes
    BY <1>4 DEF Arrival, CreateRequest, VoteFindRequest, EditFindRequest, DeleteFindRequest,
       StatusFindRequest
  <2>2. PICK h : Continue(w, h) /\ h.pc \in {"idle", "find_vote", "write_edit", "write_delete", "write_status"}
    BY <1>4, ArrivalMoves
  <2> QED
    BY <1>3, <2>1, <2>2
<1>5. ASSUME NEW w \in Workers, HandlerStep(w) \/ Abort(w)
      PROVE  VoteInv'
  <2>1. CASE FindVote(w) \/ CreateVote(w) \/ SwitchVote(w)
    BY <1>0, <2>1, BoundFindVote, BoundCreateVote, BoundSwitchVote
  <2>2. CASE WithdrawVote(w)
    <3>1. ASSUME votes' = Withdrawn(handler[w].call.request, handler[w].call.user)
          PROVE  VotesKept
      <4>1. DOMAIN votes' = DOMAIN votes
        BY <3>1 DEF Withdrawn
      <4>2. ASSUME NEW i \in DOMAIN votes
            PROVE  /\ votes'[i].request_id = votes[i].request_id
                   /\ votes'[i].user_id = votes[i].user_id
                   /\ votes'[i].is_active => votes[i].is_active
        <5> DEFINE b == ~First(i, AllVotes(handler[w].call.request, handler[w].call.user))
        <5>1. votes[i] \in VoteDocs
          BY DEF VoteInv, TypeInv, TypeOK
        <5>2. votes'[i] = [votes[i] EXCEPT !.is_active = votes[i].is_active /\ b]
          BY <3>1 DEF Withdrawn
        <5> HIDE DEF b
        <5> QED
          BY <5>1, <5>2 DEF VoteDocs
      <4> QED
        BY <4>1, <4>2 DEF VotesKept
    <3>2. VotesKept
      BY <1>3, <2>2, <3>1 DEF WithdrawVote
    <3> QED
      BY <1>2, <2>2, <3>2 DEF WithdrawVote, CountNext
  <2>3. CASE CountVotes(w) \/ WriteCounts(w)
    BY <1>2, <1>3, <2>3 DEF CountVotes, WriteCounts, Answer, Idle
  <2>4. CASE WriteEdit(w) \/ RereadEdit(w) \/ WriteDelete(w)
    BY <1>2, <1>3, <2>4 DEF WriteEdit, RereadEdit, Reread, WriteDelete, Answer, Idle
  <2>5. CASE WriteStatus(w) \/ RereadStatus(w) \/ Abort(w)
    BY <1>2, <1>3, <2>5 DEF WriteStatus, RereadStatus, Reread, Abort, Answer, Idle
  <2> QED
    BY <1>5, <2>1, <2>2, <2>3, <2>4, <2>5 DEF HandlerStep, VoteStep
<1> QED
  BY <1>1, <1>2, <1>4, <1>5 DEF Next

LEMMA BoundInit == Init => VoteInv
<1> SUFFICES ASSUME Init PROVE VoteInv
  OBVIOUS
<1>1. TypeInv
  BY TypeInit
<1>2. SwitchesOwnVote
  BY DEF Init, Idle, SwitchesOwnVote
<1>3. ASSUME NEW r \in Requests, NEW u \in Users
      PROVE  Held(r, u) = {} /\ Creators(r, u) = {}
  BY DEF Init, Idle, Held, ActiveVotes, WrittenBack, Switchers, Creators
<1>4. HeldBound
  <2>1. Cardinality({}) = 0 /\ Cardinality(Workers) \in Nat
    BY FS_EmptySet, FS_CardinalityType, DataRequestsAssumption
  <2>2. ASSUME NEW r \in Requests, NEW u \in Users
        PROVE  Cardinality(Held(r, u)) + Cardinality(Creators(r, u)) <= Cardinality(Workers)
    <3>1. Cardinality(Held(r, u)) = 0 /\ Cardinality(Creators(r, u)) = 0
      BY <1>3, <2>1, Zenon
    <3> QED
      BY <2>1, <3>1
  <2> QED
    BY <2>2 DEF HeldBound
<1> QED
  BY <1>1, <1>2, <1>4 DEF VoteInv

\* A user never has more active votes on a request than there are server
\* processes, whatever fails and however the handlers interleave.
THEOREM VotesBounded == Spec => []ActiveVotesBoundedByWorkers
<1>1. VoteInv /\ [Next]_vars => VoteInv'
  BY BoundNext
<1>2. VoteInv => ActiveVotesBoundedByWorkers
  <2> SUFFICES ASSUME VoteInv, NEW r \in Requests, NEW u \in Users
               PROVE  Cardinality(ActiveVotes(r, u)) <= Cardinality(Workers)
    BY DEF ActiveVotesBoundedByWorkers
  <2>1. Cardinality(ActiveVotes(r, u)) <= Cardinality(Held(r, u))
    BY HeldFinite, FS_Subset DEF VoteInv, Held
  <2> QED
    BY <2>1, HeldFinite DEF VoteInv, HeldBound
<1> QED
  BY <1>1, <1>2, BoundInit, PTL DEF Spec

-----------------------------------------------------------------------------
(* A single server process whose database calls do not fail keeps the      *)
(* stored counts of every request equal to the tally of its votes, except  *)
(* while a vote is being counted.                                          *)
(*                                                                         *)
(* The invariant adds to this what the writes to come rest on: counts      *)
(* about to be stored are the tally, a document about to be written back   *)
(* by an edit holds the stored counts, and a request that is not stored    *)
(* has no votes, so that a new one starts with zero counts.                *)

VotesOnStored == \A i \in DOMAIN votes : Stored(votes[i].request_id)

WritesExact ==
    \A w \in Workers :
        /\ handler[w].pc = "write_counts" =>
              handler[w].counts = Tally(handler[w].call.request)
        /\ handler[w].pc = "write_edit" =>
              handler[w].doc.counts = requests[handler[w].call.request].counts

CountInv == VoteInv /\ VotesOnStored /\ WritesExact /\ CountsAgree

Quiet == OneWorker /\ MaxFaults = 0

-----------------------------------------------------------------------------

LEMMA NoFaults ==
    ASSUME Quiet, TypeOK
    PROVE  /\ ~Fault
           /\ \A raised \in BOOLEAN : Try(raised) => ~raised
           /\ \A r, found : Finds(r, found) => found = Found(r)
           /\ \A r, doc : \A raised \in BOOLEAN :
                SetRequest(r, doc, raised) => requests' = [requests EXCEPT ![r] = doc]
<1>1. ~Fault
  BY DEF Quiet, TypeOK, Fault
<1> QED
  BY <1>1 DEF Try, Finds, SetRequest

\* The only worker decides what is being counted.
LEMMA OnlyCounter ==
    ASSUME Quiet, NEW w \in Workers, NEW r
    PROVE  /\ Counting(r) <=> /\ handler[w].pc \in {"count_votes", "write_counts"}
                              /\ handler[w].call.request = r
           /\ Counting(r)' <=> /\ handler'[w].pc \in {"count_votes", "write_counts"}
                               /\ handler'[w].call.request = r
BY DEF Quiet, OneWorker, Counting

\* A tally changes only with the votes of its request.
LEMMA TallyKept ==
    ASSUME NEW r, \A t : VotesOfType(r, t)' = VotesOfType(r, t)
    PROVE  Tally(r)' = Tally(r)
BY DEF Tally

\* A request without votes has the counts a new request is given.
LEMMA TallyEmpty ==
    ASSUME NEW r, \A i \in DOMAIN votes : votes[i].request_id # r
    PROVE  Tally(r) = ZeroCounts
<1>1. \A t : VotesOfType(r, t) = {}
  BY DEF VotesOfType
<1> QED
  BY <1>1, FS_EmptySet DEF Tally, ZeroCounts

LEMMA Moved ==
    ASSUME CountInv, NEW w \in Workers, NEW h, Continue(w, h)
    PROVE  handler'[w] = h
BY DEF CountInv, VoteInv, TypeInv, TypeOK, Continue

\* A step that leaves the votes alone and starts no count: it is enough that
\* the counts of the requests it writes are still the tally.
LEMMA CountsKept ==
    ASSUME CountInv, VoteInv', Quiet, NEW w \in Workers, votes' = votes,
           handler'[w].pc \notin {"count_votes", "write_counts"},
           \A r \in Requests : Stored(r) => Stored(r)',
           \A r \in Requests : Stored(r)' => requests'[r].counts = Tally(r),
           handler'[w].pc = "write_edit" =>
               handler'[w].doc.counts = requests'[handler'[w].call.request].counts
    PROVE  CountInv'
<1>1. \A r : Tally(r)' = Tally(r)
  BY DEF Tally, VotesOfType
<1>2. \A i \in DOMAIN votes : votes[i].request_id \in Requests
  <2>1. \A i \in DOMAIN votes : votes[i] \in VoteDocs
    BY DEF CountInv, VoteInv, TypeInv, TypeOK
  <2> QED
    BY <2>1 DEF VoteDocs
<1>3. VotesOnStored'
  BY <1>2 DEF CountInv, VotesOnStored
<1>4. WritesExact'
  BY DEF WritesExact, Quiet, OneWorker
<1>5. CountsAgree'
  BY <1>1 DEF CountsAgree
<1> QED
  BY <1>3, <1>4, <1>5 DEF CountInv

\* Before a count starts, every stored count is the tally.
LEMMA AllCounted ==
    ASSUME CountInv, Quiet, NEW w \in Workers,
           handler[w].pc \notin {"count_votes", "write_counts"}
    PROVE  \A r \in Requests : Stored(r) => requests[r].counts = Tally(r)
BY OnlyCounter DEF CountInv, CountsAgree

-----------------------------------------------------------------------------

LEMMA CountsArrival ==
    ASSUME CountInv, VoteInv', Quiet, NEW w \in Workers, NEW u \in Users, NEW r \in Requests,
           Arrival(w, u, r)
    PROVE  CountInv'
<1>0. /\ TypeOK
      /\ requests \in [Requests -> RequestDocs \cup {NoDoc}]
      /\ handler[w].pc = "idle"
  <2>1. TypeOK /\ requests \in [Requests -> RequestDocs \cup {NoDoc}]
    BY DEF CountInv, VoteInv, TypeInv, TypeOK
  <2>2. \E op : Ready(w, op)
    BY DEF Arrival, CreateRequest, VoteFindRequest, EditFindRequest, DeleteFindRequest,
       StatusFindRequest
  <2> QED
    BY <2>1, <2>2 DEF Ready, Idle
<1>1. \A q \in Requests : Stored(q) => requests[q].counts = Tally(q)
  BY <1>0, AllCounted
<1>2. ASSUME NEW h, Continue(w, h), UNCHANGED <<requests, votes>>,
             h.pc \in {"idle", "find_vote", "write_delete", "write_status"}
      PROVE  CountInv'
  <2>1. handler'[w] = h
    BY <1>2, Moved
  <2> QED
    BY <1>1, <1>2, <2>1, CountsKept DEF Stored
<1>3. ASSUME NEW c, NEW ok, Answer(w, c, ok, "none"), UNCHANGED <<requests, votes>>
      PROVE  CountInv'
  BY <1>2, <1>3 DEF Answer, Idle
<1>4. ASSUME NEW t \in Titles, NEW k \in CategoryIds, CreateRequest(w, u, r, t, k)
      PROVE  CountInv'
  <2> DEFINE c == [op |-> "create", user |-> u, request |-> r]
  <2>1. CASE k \notin Categories
    BY <1>3, <1>4, <2>1 DEF CreateRequest
  <2>2. CASE k \in Categories
    <3>1. PICK raised \in BOOLEAN : SetRequest(r, NewRequest(u, t), raised)
      BY <1>4, <2>2 DEF CreateRequest
    <3>2. requests' = [requests EXCEPT ![r] = NewRequest(u, t)] /\ votes' = votes /\ ~Stored(r)
      BY <1>0, <1>4, <3>1, NoFaults DEF CreateRequest
    <3>3. handler'[w] = Idle
      BY <1>4, <2>2, Moved DEF CreateRequest, Answer
    <3>4. Tally(r) = ZeroCounts
      BY <3>2, TallyEmpty DEF CountInv, VotesOnStored
    <3>5. ASSUME NEW q \in Requests, Stored(q)'
          PROVE  requests'[q].counts = Tally(q)
      <4>1. CASE q = r
        BY <1>0, <3>2, <3>4, <4>1 DEF NewRequest
      <4>2. CASE q # r
        BY <1>0, <1>1, <3>2, <3>5, <4>2 DEF Stored
      <4> QED
        BY <4>1, <4>2
    <3>6. ASSUME NEW q \in Requests, Stored(q)
          PROVE  Stored(q)'
      BY <1>0, <3>2, <3>6 DEF Stored
    <3> QED
      BY <3>2, <3>3, <3>5, <3>6, CountsKept DEF Idle
  <2> QED
    BY <2>1, <2>2
<1>5. ASSUME NEW op, NEW t, VoteFindRequest(w, op, u, r, t)
      PROVE  CountInv'
  <2> DEFINE c == [op |-> op, user |-> u, request |-> r, vote_type |-> t]
             h == [pc |-> "find_vote", call |-> c]
  <2>1. UNCHANGED <<requests, votes>> /\ (Continue(w, h) \/ Answer(w, c, FALSE, "none"))
    BY <1>5 DEF VoteFindRequest, Accept
  <2>2. h.pc = "find_vote"
    OBVIOUS
  <2> QED
    BY <1>2, <1>3, <2>1, <2>2
<1>6. ASSUME NEW t \in Edits, NEW k, EditFindRequest(w, u, r, t, k)
      PROVE  CountInv'
  <2> DEFINE c == [op |-> "edit", user |-> u, request |-> r]
             h == [pc |-> "write_edit", call |-> c, doc |-> [requests[r] EXCEPT !.title = t]]
  <2>1. PICK found \in BOOLEAN :
          /\ Finds(r, found)
          /\ \/ found /\ Continue(w, h)
             \/ Answer(w, c, FALSE, "none")
             \/ Answer(w, c, TRUE, "none")
    BY <1>6 DEF EditFindRequest, Accept
  <2>2. UNCHANGED <<requests, votes>>
    BY <1>6 DEF EditFindRequest
  <2>3. ASSUME found, Continue(w, h)
        PROVE  CountInv'
    <3>1. requests[r] \in RequestDocs
      BY <1>0, <2>1, <2>3, NoFaults DEF Found, Stored
    <3>2. handler'[w] = h
      BY <2>3, Moved
    <3>3. h.doc.counts = requests[r].counts /\ h.call.request = r /\ h.pc = "write_edit"
      BY <3>1 DEF RequestDocs
    <3> QED
      BY <1>1, <2>2, <3>2, <3>3, CountsKept DEF Stored
  <2> QED
    BY <1>3, <2>1, <2>2, <2>3
<1>7. ASSUME DeleteFindRequest(w, u, r)
      PROVE  CountInv'
  <2> DEFINE c == [op |-> "delete", user |-> u, request |-> r]
             h == [pc |-> "write_delete", call |-> c]
  <2>1. UNCHANGED <<requests, votes>> /\ (Continue(w, h) \/ Answer(w, c, FALSE, "none"))
    BY <1>7 DEF DeleteFindRequest, Accept
  <2>2. h.pc = "write_delete"
    OBVIOUS
  <2> QED
    BY <1>2, <1>3, <2>1, <2>2
<1>8. ASSUME NEW s, StatusFindRequest(w, u, r, s)
      PROVE  CountInv'
  <2> DEFINE c == [op |-> "status", user |-> u, request |-> r]
             h == [pc |-> "write_status", call |-> c, status |-> s]
  <2>1. UNCHANGED <<requests, votes>> /\ (Continue(w, h) \/ Answer(w, c, FALSE, "none"))
    BY <1>8 DEF StatusFindRequest, Accept
  <2>2. h.pc = "write_status"
    OBVIOUS
  <2> QED
    BY <1>2, <1>3, <2>1, <2>2
<1> QED
  BY <1>4, <1>5, <1>6, <1>7, <1>8 DEF Arrival

\* A vote of request q is written: q is being counted from now on, and the
\* tallies of the other requests stand.
LEMMA CountStarts ==
    ASSUME CountInv, VoteInv', Quiet, NEW w \in Workers, NEW q \in Requests, NEW voted,
           handler[w].pc \notin {"count_votes", "write_counts"},
           handler[w].call.request = q,
           CountNext(w, voted), requests' = requests,
           VotesOnStored',
           \A r \in Requests : r # q => \A t : VotesOfType(r, t)' = VotesOfType(r, t)
    PROVE  CountInv'
<1>1. /\ handler'[w].pc = "count_votes"
      /\ handler'[w].call.request = q
  BY Moved DEF CountNext
<1>2. WritesExact'
  BY <1>1 DEF WritesExact, Quiet, OneWorker
<1>3. ASSUME NEW r \in Requests, Stored(r)', ~Counting(r)'
      PROVE  requests'[r].counts = Tally(r)'
  <2>1. r # q
    BY <1>1, <1>3, OnlyCounter
  <2>2. Tally(r)' = Tally(r)
    BY <2>1, TallyKept
  <2>3. requests[r].counts = Tally(r)
    BY <1>3, AllCounted DEF Stored
  <2> QED
    BY <2>2, <2>3
<1> QED
  BY <1>2, <1>3 DEF CountInv, CountsAgree

LEMMA CountsVoteStep ==
    ASSUME CountInv, VoteInv', Quiet, NEW w \in Workers, VoteStep(w)
    PROVE  CountInv'
<1> DEFINE c == handler[w].call
           q == handler[w].call.request
           doc == [request_id |-> c.request, user_id |-> c.user,
                   vote_type |-> c.vote_type, is_active |-> TRUE]
<1> USE DEF At
<1>1. handler[w] # Idle
  BY NotIdle DEF VoteStep, FindVote, CreateVote, WithdrawVote, SwitchVote, CountVotes, WriteCounts
<1>2. /\ q \in Requests /\ c.user \in Users /\ Stored(q)
      /\ requests[q] \in RequestDocs
      /\ TypeOK
      /\ requests \in [Requests -> RequestDocs \cup {NoDoc}]
      /\ votes \in Seq(VoteDocs)
  <2>1. TypeInv
    BY DEF CountInv, VoteInv
  <2> QED
    BY <1>1, <2>1, BusyType DEF TypeInv, TypeOK, Call, VoteCall
<1>3. \A i \in DOMAIN votes : votes[i] \in VoteDocs
  BY <1>2
<1>4. CASE FindVote(w)
  <2>1. handler[w].pc = "find_vote" /\ requests' = requests /\ votes' = votes
    BY <1>4 DEF FindVote
  <2>2. \/ Continue(w, [pc |-> "create_vote", call |-> c])
        \/ Continue(w, [pc |-> "withdraw_vote", call |-> c])
        \/ \E i \in DOMAIN votes : Continue(w, [pc |-> "switch_vote", call |-> c, vote_id |-> i])
    BY <1>4 DEF FindVote
  <2>3. handler'[w].pc \in {"create_vote", "withdraw_vote", "switch_vote"}
    <3>1. ASSUME NEW h, Continue(w, h), h.pc \in {"create_vote", "withdraw_vote", "switch_vote"}
          PROVE  handler'[w].pc \in {"create_vote", "withdraw_vote", "switch_vote"}
      BY <3>1, Moved
    <3>2. \A i : [pc |-> "switch_vote", call |-> c, vote_id |-> i].pc = "switch_vote"
      OBVIOUS
    <3>3. /\ [pc |-> "create_vote", call |-> c].pc = "create_vote"
          /\ [pc |-> "withdraw_vote", call |-> c].pc = "withdraw_vote"
      OBVIOUS
    <3> QED
      BY <2>2, <3>1, <3>2, <3>3
  <2> QED
    BY <2>1, <2>3, AllCounted, CountsKept DEF Stored
<1>5. CASE CreateVote(w)
  <2>1. /\ handler[w].pc = "create_vote" /\ requests' = requests
        /\ votes' = Append(votes, doc) /\ CountNext(w, c.vote_type)
    BY <1>5 DEF CreateVote
  <2>2. /\ DOMAIN votes' = DOMAIN votes \cup {Len(votes) + 1}
        /\ votes'[Len(votes) + 1] = doc
        /\ \A i \in DOMAIN votes : votes'[i] = votes[i]
        /\ Len(votes) + 1 \notin DOMAIN votes
    BY <1>2, <2>1
  <2>3. VotesOnStored'
    BY <1>2, <2>1, <2>2 DEF VotesOnStored, CountInv, Stored
  <2>4. \A r \in Requests : r # q => \A t : VotesOfType(r, t)' = VotesOfType(r, t)
    BY <2>2 DEF VotesOfType
  <2> QED
    BY <1>2, <2>1, <2>3, <2>4, CountStarts
<1>6. CASE WithdrawVote(w)
  <2>1. /\ handler[w].pc = "withdraw_vote" /\ requests' = requests
        /\ votes' = Withdrawn(q, c.user) /\ CountNext(w, "none")
    BY <1>2, <1>6, NoFaults DEF WithdrawVote
  <2>2. DOMAIN votes' = DOMAIN votes
    BY <2>1 DEF Withdrawn
  <2>3. ASSUME NEW i \in DOMAIN votes
        PROVE  /\ votes'[i].request_id = votes[i].request_id
               /\ votes'[i].request_id # q => votes'[i] = votes[i]
    <3> DEFINE b == ~First(i, AllVotes(q, c.user))
    <3>1. votes'[i] = [votes[i] EXCEPT !.is_active = votes[i].is_active /\ b]
      BY <2>1 DEF Withdrawn
    <3>2. b \in BOOLEAN /\ (votes[i].request_id # q => b)
      BY DEF First, AllVotes
    <3> HIDE DEF b
    <3> QED
      BY <1>3, <3>1, <3>2 DEF VoteDocs
  <2>4. VotesOnStored'
    BY <2>1, <2>2, <2>3 DEF VotesOnStored, CountInv, Stored
  <2>5. \A r \in Requests : r # q => \A t : VotesOfType(r, t)' = VotesOfType(r, t)
    BY <2>2, <2>3 DEF VotesOfType
  <2> QED
    BY <1>2, <2>1, <2>4, <2>5, CountStarts
<1>7. CASE SwitchVote(w)
  <2>1. /\ handler[w].pc = "switch_vote" /\ requests' = requests
        /\ votes' = [votes EXCEPT ![handler[w].vote_id] = doc] /\ CountNext(w, c.vote_type)
    BY <1>7 DEF SwitchVote
  <2>2. votes[handler[w].vote_id].request_id = q /\ handler[w].vote_id \in DOMAIN votes
    BY <2>1 DEF CountInv, VoteInv, SwitchesOwnVote, AllVotes
  <2>3. /\ DOMAIN votes' = DOMAIN votes
        /\ \A i \in DOMAIN votes : votes'[i] = IF i = handler[w].vote_id THEN doc ELSE votes[i]
    BY <1>2, <2>1
  <2>4. VotesOnStored'
    BY <1>2, <2>1, <2>3 DEF VotesOnStored, CountInv, Stored
  <2>5. \A r \in Requests : r # q => \A t : VotesOfType(r, t)' = VotesOfType(r, t)
    BY <2>2, <2>3 DEF VotesOfType
  <2> QED
    BY <1>2, <2>1, <2>4, <2>5, CountStarts
<1>8. CASE CountVotes(w)
  <2> DEFINE h == [pc |-> "write_counts", call |-> c, voted |-> handler[w].voted, counts |-> Tally(q)]
  <2>1. handler[w].pc = "count_votes" /\ requests' = requests /\ votes' = votes /\ Continue(w, h)
    BY <1>8 DEF CountVotes
  <2>2. handler'[w] = h
    BY <2>1, Moved
  <2>3. \A r : Tally(r)' = Tally(r) /\ Stored(r)' = Stored(r)
    BY <2>1 DEF Tally, VotesOfType, Stored
  <2>4. \A r : Counting(r)' <=> Counting(r)
    BY <2>1, <2>2, OnlyCounter
  <2>5. WritesExact'
    BY <2>2, <2>3 DEF WritesExact, Quiet, OneWorker
  <2>6. VotesOnStored' /\ CountsAgree'
    BY <2>1, <2>3, <2>4 DEF CountInv, VotesOnStored, CountsAgree
  <2> QED
    BY <2>5, <2>6 DEF CountInv
<1>9. CASE WriteCounts(w)
  <2>1. handler[w].pc = "write_counts" /\ votes' = votes /\ Answer(w, c, TRUE, handler[w].voted)
    BY <1>9 DEF WriteCounts
  <2>2. handler'[w] = Idle
    BY <2>1, Moved DEF Answer
  <2>3. requests' = [requests EXCEPT ![q] = [requests[q] EXCEPT !.counts = Tally(q)]]
    <3>1. handler[w].counts = Tally(q)
      BY <2>1 DEF CountInv, WritesExact
    <3>2. PICK raised \in BOOLEAN :
            SetRequest(q, [requests[q] EXCEPT !.counts = handler[w].counts], raised)
      BY <1>9 DEF WriteCounts
    <3> QED
      BY <1>2, <3>1, <3>2, NoFaults
  <2>4. [requests[q] EXCEPT !.counts = Tally(q)].counts = Tally(q)
    BY <1>2 DEF RequestDocs
  <2>5. [requests[q] EXCEPT !.counts = Tally(q)] # NoDoc
    <3>1. [requests[q] EXCEPT !.counts = Tally(q)] \in RequestDocs
      BY <1>2, TallyType DEF RequestDocs
    <3> QED
      BY <3>1, DataRequestsAssumption
  <2>6. ASSUME NEW r \in Requests, Stored(r)'
        PROVE  requests'[r].counts = Tally(r)
    <3>1. CASE r = q
      BY <1>2, <2>3, <2>4, <3>1
    <3>2. CASE r # q
      <4>1. ~Counting(r) /\ Stored(r) /\ requests'[r] = requests[r]
        BY <1>2, <2>1, <2>3, <2>6, <3>2, OnlyCounter DEF Stored
      <4> QED
        BY <4>1 DEF CountInv, CountsAgree
    <3> QED
      BY <3>1, <3>2
  <2>7. \A r \in Requests : Stored(r) => Stored(r)'
    BY <1>2, <2>3, <2>5 DEF Stored
  <2> QED
    BY <2>1, <2>2, <2>6, <2>7, CountsKept DEF Idle
<1> QED
  BY <1>4, <1>5, <1>6, <1>7, <1>8, <1>9 DEF VoteStep

LEMMA CountsOtherStep ==
    ASSUME CountInv, VoteInv', Quiet, NEW w \in Workers,
           \/ WriteEdit(w) \/ RereadEdit(w) \/ WriteDelete(w) \/ WriteStatus(w)
           \/ RereadStatus(w) \/ Abort(w)
    PROVE  CountInv'
<1> DEFINE c == handler[w].call
           q == handler[w].call.request
<1> USE DEF At
<1>1. ~Abort(w)
  BY NoFaults DEF CountInv, VoteInv, TypeInv, Abort
<1>2. /\ handler[w] # Idle
      /\ handler[w].pc \notin {"count_votes", "write_counts"}
      /\ votes' = votes
  BY <1>1, NotIdle DEF WriteEdit, RereadEdit, WriteDelete, WriteStatus, RereadStatus, Reread
<1>3. /\ q \in Requests /\ Stored(q)
      /\ requests[q] \in RequestDocs
      /\ TypeOK
      /\ requests \in [Requests -> RequestDocs \cup {NoDoc}]
      /\ handler[w] \in Handlers
      /\ NoDoc \notin RequestDocs
  <2>1. TypeInv
    BY DEF CountInv, VoteInv
  <2> QED
    BY <1>2, <2>1, BusyType, DataRequestsAssumption DEF TypeInv, TypeOK
<1>4. \A r \in Requests : Stored(r) => requests[r].counts = Tally(r)
  BY <1>2, AllCounted
<1>5. ASSUME NEW d \in RequestDocs, d.counts = requests[q].counts,
             requests' = [requests EXCEPT ![q] = d] \/ requests' = requests,
             handler'[w].pc \in {"idle", "reread_edit", "reread_status"}
      PROVE  CountInv'
  <2>1. ASSUME NEW r \in Requests
        PROVE  /\ Stored(r) <=> Stored(r)'
               /\ Stored(r)' => requests'[r].counts = Tally(r)
    <3>1. requests'[r] = requests[r] \/ (r = q /\ requests'[r] = d)
      BY <1>3, <1>5
    <3> QED
      BY <1>3, <1>4, <1>5, <3>1 DEF Stored
  <2> QED
    BY <1>2, <1>5, <2>1, CountsKept
<1>6. CASE WriteEdit(w)
  <2>1. handler[w].pc = "write_edit" /\ requests' = [requests EXCEPT ![q] = handler[w].doc]
    BY <1>6 DEF WriteEdit
  <2>2. handler[w].doc \in RequestDocs /\ handler[w].doc.counts = requests[q].counts
    BY <1>3, <2>1, HandlerAt DEF CountInv, WritesExact
  <2>3. handler'[w].pc = "reread_edit"
    BY <1>6, Moved DEF WriteEdit
  <2> QED
    BY <1>5, <2>1, <2>2, <2>3
<1>7. CASE RereadEdit(w) \/ RereadStatus(w)
  <2>1. requests' = requests /\ \E found : Answer(w, c, found, "none")
    BY <1>7 DEF RereadEdit, RereadStatus, Reread
  <2>2. handler'[w].pc = "idle"
    BY <2>1, Moved DEF Answer, Idle
  <2> QED
    BY <1>3, <1>5, <2>1, <2>2
<1>8. CASE WriteDelete(w)
  <2> DEFINE d == [requests[q] EXCEPT !.is_active = FALSE]
  <2>1. d \in RequestDocs /\ d.counts = requests[q].counts
    BY <1>3 DEF RequestDocs
  <2>2. \E raised \in BOOLEAN : SetRequest(q, d, raised)
    BY <1>8 DEF WriteDelete
  <2>3. requests' = [requests EXCEPT ![q] = d]
    BY <1>3, <2>2, NoFaults
  <2>4. handler'[w].pc = "idle"
    BY <1>8, Moved DEF WriteDelete, Answer, Idle
  <2> QED
    BY <1>5, <2>1, <2>3, <2>4
<1>9. CASE WriteStatus(w)
  <2> DEFINE d == [requests[q] EXCEPT !.status = handler[w].status]
  <2>1. handler[w].status \in Statuses
    BY <1>3, <1>9, HandlerAt DEF WriteStatus
  <2>2. d \in RequestDocs /\ d.counts = requests[q].counts
    BY <1>3, <2>1 DEF RequestDocs
  <2>3. PICK raised \in BOOLEAN :
          /\ SetRequest(q, d, raised)
          /\ \/ Answer(w, c, FALSE, "none")
             \/ Continue(w, [pc |-> "reread_status", call |-> c])
    BY <1>9 DEF WriteStatus
  <2>4. requests' = [requests EXCEPT ![q] = d]
    BY <1>3, <2>3, NoFaults
  <2>5. handler'[w].pc \in {"idle", "reread_status"}
    BY <2>3, Moved DEF Answer, Idle
  <2> QED
    BY <1>5, <2>2, <2>4, <2>5
<1> QED
  BY <1>1, <1>6, <1>7, <1>8, <1>9

LEMMA CountsInit == Init => CountInv
<1> SUFFICES ASSUME Init PROVE CountInv
  OBVIOUS
<1>1. VoteInv
  BY BoundInit
<1>2. VotesOnStored /\ WritesExact /\ CountsAgree
  BY DEF Init, Idle, VotesOnStored, WritesExact, CountsAgree, Stored
<1> QED
  BY <1>1, <1>2 DEF CountInv

LEMMA CountsNext ==
    ASSUME CountInv, Quiet, [Next]_vars
    PROVE  CountInv'
<1>1. VoteInv'
  BY BoundNext DEF CountInv
<1>2. CASE UNCHANGED vars
  <2>1. \A r : Tally(r)' = Tally(r)
    BY <1>2 DEF vars, Tally, VotesOfType
  <2>2. VotesOnStored' /\ WritesExact'
    BY <1>2, <2>1 DEF vars, CountInv, VotesOnStored, WritesExact, Stored
  <2>3. CountsAgree'
    BY <1>2, <2>1 DEF vars, CountInv, CountsAgree, Counting, Stored
  <2> QED
    BY <1>1, <2>2, <2>3 DEF CountInv
<1>3. ASSUME NEW w \in Workers, NEW u \in Users, NEW r \in Requests, Arrival(w, u, r)
      PROVE  CountInv'
  BY <1>1, <1>3, CountsArrival
<1>4. ASSUME NEW w \in Workers, HandlerStep(w) \/ Abort(w)
      PROVE  CountInv'
  BY <1>1, <1>4, CountsVoteStep, CountsOtherStep DEF HandlerStep
<1> QED
  BY <1>2, <1>3, <1>4 DEF Next

\* In a single server process whose database calls succeed, the stored
\* counts of a request are the tally of its active votes whenever no vote
\* on it is being counted.
THEOREM CountsCorrect ==
    ASSUME OneWorker, MaxFaults = 0
    PROVE  Spec => []CountsAgree
<1>1. Quiet
  BY DEF Quiet
<1>2. CountInv /\ [Next]_vars => CountInv'
  BY <1>1, CountsNext
<1>3. CountInv => CountsAgree
  BY DEF CountInv
<1> QED
  BY <1>2, <1>3, CountsInit, PTL DEF Spec

-----------------------------------------------------------------------------
(* A single server process, whatever database calls fail: replies about    *)
(* votes are true, and a recount is exact.                                 *)
(*                                                                         *)
(* ReplyVotedTruthful is not inductive: it says nothing of the votes while *)
(* a handler runs.  The invariant adds what the handler knows in between:  *)
(* the type it is going to answer is that of an active vote, the counts it *)
(* is going to write are the tally, and its last reply is withdrawn.       *)

BusySilent == \A w \in Workers : handler[w] # Idle => reply[w] = NoReply

VotedStands ==
    \A w \in Workers :
        handler[w].pc \in {"count_votes", "write_counts"} /\ handler[w].voted # "none" =>
            \E i \in ActiveVotes(handler[w].call.request, handler[w].call.user) :
                votes[i].vote_type = handler[w].voted

CountedExact ==
    \A w \in Workers : handler[w].pc = "write_counts" =>
        handler[w].counts = Tally(handler[w].call.request)

LoneInv == VoteInv /\ BusySilent /\ VotedStands /\ CountedExact /\ ReplyVotedTruthful

LEMMA LoneMoved ==
    ASSUME LoneInv, NEW w \in Workers, NEW h, Continue(w, h)
    PROVE  handler'[w] = h
BY DEF LoneInv, VoteInv, TypeInv, TypeOK, Continue

\* A step outside the recount, which leaves the votes alone: the worker goes
\* on silently, or answers without a vote.
LEMMA LoneQuiet ==
    ASSUME LoneInv, VoteInv', OneWorker, NEW w \in Workers, votes' = votes,
           handler'[w].pc \notin {"count_votes", "write_counts"},
           reply'[w] = NoReply \/ (handler'[w] = Idle /\ reply'[w].voted = "none")
    PROVE  LoneInv'
<1>1. \A v \in Workers : v = w
  BY DEF OneWorker
<1>2. BusySilent'
  BY <1>1 DEF BusySilent
<1>3. VotedStands' /\ CountedExact'
  <2>1. \A v \in Workers : handler'[v].pc \notin {"count_votes", "write_counts"}
    BY <1>1
  <2> QED
    BY <2>1 DEF VotedStands, CountedExact
<1>4. ReplyVotedTruthful'
  <2>1. \A v \in Workers : reply'[v] = NoReply \/ reply'[v].voted = "none"
    BY <1>1
  <2> QED
    BY <2>1 DEF ReplyVotedTruthful
<1> QED
  BY <1>2, <1>3, <1>4 DEF LoneInv

\* A step to the recount of a vote: the type to be answered is that of an
\* active vote.
LEMMA LoneRecount ==
    ASSUME LoneInv, VoteInv', OneWorker, NEW w \in Workers, NEW voted,
           handler[w] # Idle, CountNext(w, voted), reply' = reply,
           voted # "none" =>
               \E i \in DOMAIN votes' : /\ votes'[i].request_id = handler[w].call.request
                                        /\ votes'[i].user_id = handler[w].call.user
                                        /\ votes'[i].is_active
                                        /\ votes'[i].vote_type = voted
    PROVE  LoneInv'
<1>1. \A v \in Workers : v = w
  BY DEF OneWorker
<1>2. /\ handler'[w].pc = "count_votes"
      /\ handler'[w].call = handler[w].call
      /\ handler'[w].voted = voted
  BY LoneMoved DEF CountNext
<1>3. reply'[w] = NoReply
  BY DEF LoneInv, BusySilent
<1>4. BusySilent' /\ ReplyVotedTruthful' /\ CountedExact'
  BY <1>1, <1>2, <1>3 DEF BusySilent, ReplyVotedTruthful, CountedExact
<1>5. VotedStands'
  BY <1>1, <1>2 DEF VotedStands, ActiveVotes
<1> QED
  BY <1>4, <1>5 DEF LoneInv

LEMMA LoneVoteStep ==
    ASSUME LoneInv, VoteInv', OneWorker, NEW w \in Workers, VoteStep(w)
    PROVE  LoneInv'
<1> DEFINE c == handler[w].call
           doc == [request_id |-> c.request, user_id |-> c.user,
                   vote_type |-> c.vote_type, is_active |-> TRUE]
<1> USE DEF At
<1>1. handler[w] # Idle
  BY NotIdle DEF VoteStep, FindVote, CreateVote, WithdrawVote, SwitchVote, CountVotes, WriteCounts
<1>2. /\ votes \in Seq(VoteDocs)
      /\ reply[w] = NoReply
      /\ \A v \in Workers : v = w
      /\ reply \in [Workers -> Replies \cup {NoReply}]
  BY <1>1 DEF LoneInv, VoteInv, TypeInv, TypeOK, BusySilent, OneWorker
<1>3. CASE FindVote(w)
  <2>1. votes' = votes /\ reply' = reply
    BY <1>3 DEF FindVote
  <2>2. \/ Continue(w, [pc |-> "create_vote", call |-> c])
        \/ Continue(w, [pc |-> "withdraw_vote", call |-> c])
        \/ \E i \in DOMAIN votes : Continue(w, [pc |-> "switch_vote", call |-> c, vote_id |-> i])
    BY <1>3 DEF FindVote
  <2>3. handler'[w].pc \in {"create_vote", "withdraw_vote", "switch_vote"}
    <3>1. ASSUME NEW h, Continue(w, h), h.pc \in {"create_vote", "withdraw_vote", "switch_vote"}
          PROVE  handler'[w].pc \in {"create_vote", "withdraw_vote", "switch_vote"}
      BY <3>1, LoneMoved
    <3>2. \A i : [pc |-> "switch_vote", call |-> c, vote_id |-> i].pc = "switch_vote"
      OBVIOUS
    <3>3. /\ [pc |-> "create_vote", call |-> c].pc = "create_vote"
          /\ [pc |-> "withdraw_vote", call |-> c].pc = "withdraw_vote"
      OBVIOUS
    <3> QED
      BY <2>2, <3>1, <3>2, <3>3
  <2> QED
    BY <1>2, <2>1, <2>3, LoneQuiet
<1>4. CASE CreateVote(w)
  <2>1. votes' = Append(votes, doc) /\ CountNext(w, c.vote_type) /\ reply' = reply
    BY <1>4 DEF CreateVote
  <2>2. Len(votes) + 1 \in DOMAIN votes' /\ votes'[Len(votes) + 1] = doc
    BY <1>2, <2>1
  <2> QED
    BY <1>1, <2>1, <2>2, LoneRecount
<1>5. CASE WithdrawVote(w)
  BY <1>1, <1>5, LoneRecount DEF WithdrawVote
<1>6. CASE SwitchVote(w)
  <2>1. /\ handler[w].pc = "switch_vote" /\ reply' = reply
        /\ votes' = [votes EXCEPT ![handler[w].vote_id] = doc] /\ CountNext(w, c.vote_type)
    BY <1>6 DEF SwitchVote
  <2>2. handler[w].vote_id \in DOMAIN votes
    BY <2>1 DEF LoneInv, VoteInv, SwitchesOwnVote, AllVotes
  <2>3. handler[w].vote_id \in DOMAIN votes' /\ votes'[handler[w].vote_id] = doc
    BY <1>2, <2>1, <2>2
  <2> QED
    BY <1>1, <2>1, <2>3, LoneRecount
<1>7. CASE CountVotes(w)
  <2> DEFINE h == [pc |-> "write_counts", call |-> c, voted |-> handler[w].voted,
                   counts |-> Tally(c.request)]
  <2>1. /\ handler[w].pc = "count_votes" /\ votes' = votes /\ reply' = reply
        /\ Continue(w, h)
    BY <1>7 DEF CountVotes
  <2>2. handler'[w] = h
    BY <2>1, LoneMoved
  <2>3. \A r : Tally(r)' = Tally(r)
    BY <2>1 DEF Tally, VotesOfType
  <2>4. \A r, u : ActiveVotes(r, u)' = ActiveVotes(r, u)
    BY <2>1 DEF ActiveVotes
  <2>5. CountedExact'
    BY <1>2, <2>2, <2>3 DEF CountedExact
  <2>6. VotedStands'
    <3>1. handler[w].voted # "none" =>
            \E i \in ActiveVotes(c.request, c.user) : votes[i].vote_type = handler[w].voted
      BY <2>1 DEF LoneInv, VotedStands
    <3>2. handler'[w].call = c /\ handler'[w].voted = handler[w].voted
      BY <2>2
    <3> QED
      BY <1>2, <2>1, <2>4, <3>1, <3>2 DEF VotedStands
  <2>7. BusySilent' /\ ReplyVotedTruthful'
    BY <1>2, <2>1 DEF BusySilent, ReplyVotedTruthful
  <2> QED
    BY <2>5, <2>6, <2>7 DEF LoneInv
<1>8. CASE WriteCounts(w)
  <2> DEFINE a == [op |-> c.op, user |-> c.user, request |-> c.request, ok |-> TRUE,
                   voted |-> handler[w].voted]
  <2>1. /\ handler[w].pc = "write_counts" /\ votes' = votes
        /\ Continue(w, Idle) /\ reply' = [reply EXCEPT ![w] = a]
    BY <1>8 DEF WriteCounts, Answer
  <2>2. handler'[w] = Idle /\ reply'[w] = a
    BY <1>2, <2>1, LoneMoved
  <2>3. BusySilent' /\ VotedStands' /\ CountedExact'
    BY <1>2, <2>2 DEF Idle, BusySilent, VotedStands, CountedExact
  <2>4. ReplyVotedTruthful'
    <3>1. handler[w].voted # "none" =>
            \E i \in ActiveVotes(c.request, c.user) : votes[i].vote_type = handler[w].voted
      BY <2>1 DEF LoneInv, VotedStands
    <3>2. \A r, u : ActiveVotes(r, u)' = ActiveVotes(r, u)
      BY <2>1 DEF ActiveVotes
    <3>3. /\ reply'[w].voted = handler[w].voted
          /\ reply'[w].request = c.request
          /\ reply'[w].user = c.user
      BY <2>2
    <3> QED
      BY <1>2, <2>1, <3>1, <3>2, <3>3 DEF ReplyVotedTruthful
  <2> QED
    BY <2>3, <2>4 DEF LoneInv
<1> QED
  BY <1>3, <1>4, <1>5, <1>6, <1>7, <1>8 DEF VoteStep

LEMMA LoneOtherStep ==
    ASSUME LoneInv, VoteInv', OneWorker, NEW w \in Workers,
           \/ WriteEdit(w) \/ RereadEdit(w) \/ WriteDelete(w) \/ WriteStatus(w)
           \/ RereadStatus(w) \/ Abort(w)
    PROVE  LoneInv'
<1> DEFINE c == handler[w].call
<1> USE DEF At
<1>1. handler[w] # Idle
  BY NotIdle DEF WriteEdit, RereadEdit, WriteDelete, WriteStatus, RereadStatus, Reread, Abort
<1>2. reply[w] = NoReply /\ reply \in [Workers -> Replies \cup {NoReply}]
  BY <1>1 DEF LoneInv, VoteInv, TypeInv, TypeOK, BusySilent
<1>3. ASSUME NEW ok, Answer(w, c, ok, "none"), votes' = votes
      PROVE  LoneInv'
  <2>1. handler'[w] = Idle
    BY <1>3, LoneMoved DEF Answer
  <2>2. reply'[w].voted = "none"
    BY <1>2, <1>3 DEF Answer
  <2> QED
    BY <1>3, <2>1, <2>2, LoneQuiet DEF Idle
<1>4. ASSUME NEW h, Continue(w, h), h.pc \in {"reread_edit", "reread_status"},
             votes' = votes, reply' = reply
      PROVE  LoneInv'
  BY <1>2, <1>4, LoneMoved, LoneQuiet
<1>5. CASE WriteEdit(w)
  <2>1. [pc |-> "reread_edit", call |-> c].pc = "reread_edit"
    OBVIOUS
  <2> QED
    BY <1>4, <1>5, <2>1 DEF WriteEdit
<1>6. CASE RereadEdit(w) \/ RereadStatus(w) \/ WriteDelete(w) \/ Abort(w)
  BY <1>3, <1>6 DEF RereadEdit, RereadStatus, Reread, WriteDelete, Abort
<1>7. CASE WriteStatus(w)
  <2>1. [pc |-> "reread_status", call |-> c].pc = "reread_status"
    OBVIOUS
  <2>2. \/ Answer(w, c, FALSE, "none")
        \/ Continue(w, [pc |-> "reread_status", call |-> c]) /\ reply' = reply
    BY <1>7 DEF WriteStatus
  <2>3. votes' = votes
    BY <1>7 DEF WriteStatus
  <2> QED
    BY <1>3, <1>4, <2>1, <2>2, <2>3
<1> QED
  BY <1>5, <1>6, <1>7

LEMMA LoneArrival ==
    ASSUME LoneInv, VoteInv', OneWorker, NEW w \in Workers, NEW u \in Users, NEW r \in Requests,
           Arrival(w, u, r)
    PROVE  LoneInv'
<1>1. votes' = votes
  BY DEF Arrival, CreateRequest, VoteFindRequest, EditFindRequest, DeleteFindRequest,
     StatusFindRequest
<1>2. PICK h : /\ Continue(w, h)
               /\ h.pc \in {"idle", "find_vote", "write_edit", "write_delete", "write_status"}
  BY ArrivalMoves
<1>3. handler'[w].pc \notin {"count_votes", "write_counts"}
  BY <1>2, LoneMoved
<1>4. reply \in [Workers -> Replies \cup {NoReply}]
  BY DEF LoneInv, VoteInv, TypeInv, TypeOK
<1>5. ASSUME NEW k, Accept(w, k)
      PROVE  reply'[w] = NoReply
  BY <1>4, <1>5 DEF Accept
<1>6. ASSUME NEW k, NEW ok, Answer(w, k, ok, "none")
      PROVE  handler'[w] = Idle /\ reply'[w].voted = "none"
  BY <1>4, <1>6, LoneMoved DEF Answer
<1>7. (\E k : Accept(w, k)) \/ (\E k, ok : Answer(w, k, ok, "none"))
  BY DEF Arrival, CreateRequest, VoteFindRequest, EditFindRequest, DeleteFindRequest,
     StatusFindRequest
<1> QED
  BY <1>1, <1>3, <1>5, <1>6, <1>7, LoneQuiet

\* What a recount whose write is applied leaves behind.
LEMMA LoneRepair ==
    ASSUME LoneInv, NEW w \in Workers, Next, OneWorker,
           At(w, "write_counts"), handler'[w] = Idle, UNCHANGED faults
    PROVE  requests'[handler[w].call.request].counts = Tally(handler[w].call.request)
<1> DEFINE q == handler[w].call.request
<1> USE DEF At
<1>1. handler[w] # Idle /\ handler[w].pc = "write_counts"
  BY NotIdle
<1>2. /\ q \in Requests
      /\ requests[q] \in RequestDocs
      /\ requests \in [Requests -> RequestDocs \cup {NoDoc}]
      /\ faults \in Nat
      /\ handler[w].counts = Tally(q)
  <2>1. TypeInv
    BY DEF LoneInv, VoteInv
  <2>2. faults \in 0..MaxFaults /\ requests \in [Requests -> RequestDocs \cup {NoDoc}]
    BY <2>1 DEF TypeInv, TypeOK
  <2> QED
    BY <1>1, <2>1, <2>2, BusyType, DataRequestsAssumption DEF LoneInv, CountedExact
<1>3. ~Fault
  BY <1>2 DEF Fault
<1>4. ASSUME NEW u \in Users, NEW r \in Requests
      PROVE  ~Arrival(w, u, r)
  BY <1>1 DEF Arrival, CreateRequest, VoteFindRequest, EditFindRequest, DeleteFindRequest,
     StatusFindRequest, Ready
<1>5. HandlerStep(w)
  <2>1. \A v \in Workers : v = w
    BY DEF OneWorker
  <2> QED
    BY <1>3, <1>4, <2>1 DEF Next, Abort
<1>6. WriteCounts(w)
  BY <1>1, <1>5 DEF HandlerStep, VoteStep, FindVote, CreateVote, WithdrawVote, SwitchVote,
     CountVotes, WriteEdit, RereadEdit, Reread, WriteDelete, WriteStatus, RereadStatus
<1>7. PICK raised \in BOOLEAN :
        SetRequest(q, [requests[q] EXCEPT !.counts = handler[w].counts], raised)
  BY <1>6 DEF WriteCounts
<1>8. ~raised
  BY <1>3, <1>7 DEF SetRequest, Try
<1>9. requests' = [requests EXCEPT ![q] = [requests[q] EXCEPT !.counts = handler[w].counts]]
  BY <1>7, <1>8 DEF SetRequest
<1>10. [requests[q] EXCEPT !.counts = handler[w].counts].counts = handler[w].counts
  BY <1>2 DEF RequestDocs
<1> QED
  BY <1>2, <1>9, <1>10

LEMMA LoneInit == Init => LoneInv
<1> SUFFICES ASSUME Init PROVE LoneInv
  OBVIOUS
<1>1. VoteInv
  BY BoundInit
<1>2. BusySilent /\ VotedStands /\ CountedExact
  BY DEF Init, Idle, BusySilent, VotedStands, CountedExact
<1>3. ReplyVotedTruthful
  BY DEF Init, ReplyVotedTruthful
<1> QED
  BY <1>1, <1>2, <1>3 DEF LoneInv

LEMMA LoneNext ==
    ASSUME LoneInv, OneWorker, [Next]_vars
    PROVE  LoneInv'
<1>1. VoteInv'
  BY BoundNext DEF LoneInv
<1>2. CASE UNCHANGED vars
  <2>1. /\ handler' = handler /\ reply' = reply /\ votes' = votes
        /\ \A r : Tally(r)' = Tally(r)
        /\ \A r, u : ActiveVotes(r, u)' = ActiveVotes(r, u)
    BY <1>2 DEF vars, Tally, VotesOfType, ActiveVotes
  <2>2. BusySilent' /\ VotedStands' /\ CountedExact' /\ ReplyVotedTruthful'
    BY <2>1 DEF LoneInv, BusySilent, VotedStands, CountedExact, ReplyVotedTruthful
  <2> QED
    BY <1>1, <2>2 DEF LoneInv
<1>3. ASSUME NEW w \in Workers, NEW u \in Users, NEW r \in Requests, Arrival(w, u, r)
      PROVE  LoneInv'
  BY <1>1, <1>3, LoneArrival
<1>4. ASSUME NEW w \in Workers, HandlerStep(w) \/ Abort(w)
      PROVE  LoneInv'
  BY <1>1, <1>4, LoneVoteStep, LoneOtherStep DEF HandlerStep
<1> QED
  BY <1>2, <1>3, <1>4 DEF Next

\* In a single server process, whatever calls fail, a reply that says the
\* user likes or dislikes a request is backed by an active vote of that type.
THEOREM RepliesAreTruthful ==
    ASSUME OneWorker
    PROVE  Spec => []ReplyVotedTruthful
<1>1. LoneInv /\ [Next]_vars => LoneInv'
  BY LoneNext
<1>2. LoneInv => ReplyVotedTruthful
  BY DEF LoneInv
<1> QED
  BY <1>1, <1>2, LoneInit, PTL DEF Spec

\* In a single server process, a vote handler whose write of the counts is
\* applied leaves exact counts behind, whatever earlier handlers failed to
\* write.
THEOREM VotesRepairCounts ==
    ASSUME OneWorker
    PROVE  Spec => VoteRepairsCounts
<1> DEFINE Exact == \A w \in Workers :
                      At(w, "write_counts") /\ handler'[w] = Idle /\ UNCHANGED faults =>
                        LET r == handler[w].call.request IN requests'[r].counts = Tally(r)
<1>1. LoneInv /\ [Next]_vars => LoneInv'
  BY LoneNext
<1>2. LoneInv /\ [Next]_vars => [Exact]_vars
  BY LoneRepair
<1>3. Spec => [][Exact]_vars
  <2> HIDE DEF Exact
  <2> QED
    BY <1>1, <1>2, LoneInit, PTL DEF Spec
<1> QED
  BY <1>3 DEF VoteRepairsCounts

-----------------------------------------------------------------------------
(* A single server process whose database calls do not fail implements the *)
(* ballot box.  A vote that is written is a Cast; storing the counts is a  *)
(* Publish, because with one active vote of a user on a request the tally  *)
(* of the votes is the tally of the ballots; every other step leaves the   *)
(* box alone, also one that stores a document, because outside a count all *)
(* stored counts are the tally.                                            *)

boxBallot == [r \in Requests |-> [u \in Users |-> BallotOf(r, u)]]
boxPublished == [r \in Requests |-> IF Stored(r) THEN requests[r].counts ELSE ZeroCounts]
boxCounting == {r \in Requests : Counting(r)}

PublishedExact == \A r \in Requests : ~Counting(r) => boxPublished[r] = Tally(r)

\* Outside a count, the published totals of every request are the tally.
LEMMA PublishedIsTally == CountInv => PublishedExact
<1> SUFFICES ASSUME CountInv, NEW r \in Requests, ~Counting(r)
             PROVE  boxPublished[r] = Tally(r)
  BY DEF PublishedExact
<1>1. CASE Stored(r)
  BY <1>1 DEF CountInv, CountsAgree, boxPublished
<1>2. CASE ~Stored(r)
  <2>1. \A i \in DOMAIN votes : votes[i].request_id # r
    BY <1>2 DEF CountInv, VotesOnStored
  <2> QED
    BY <1>2, <2>1, TallyEmpty DEF boxPublished
<1> QED
  BY <1>1, <1>2

\* With one worker a user has at most one active vote on a request.
LEMMA OneActive ==
    ASSUME CountInv, Quiet, NEW r \in Requests, NEW u \in Users, NEW w \in Workers,
           NEW i \in ActiveVotes(r, u), NEW j \in ActiveVotes(r, u)
    PROVE  i = j
<1>1. Workers = {w}
  BY DEF Quiet, OneWorker
<1>2. Cardinality(Workers) = 1
  BY <1>1, FS_Singleton
<1>3. /\ IsFiniteSet(Held(r, u)) /\ Cardinality(Held(r, u)) \in Nat
      /\ Cardinality(Creators(r, u)) \in Nat
      /\ IsFiniteSet(ActiveVotes(r, u)) /\ Cardinality(ActiveVotes(r, u)) \in Nat
      /\ ActiveVotes(r, u) \subseteq Held(r, u)
  BY HeldFinite DEF CountInv, VoteInv, Held
<1>4. Cardinality(Held(r, u)) + Cardinality(Creators(r, u)) <= 1
  BY <1>2 DEF CountInv, VoteInv, HeldBound
<1>5. Cardinality(ActiveVotes(r, u)) <= Cardinality(Held(r, u))
  BY <1>3, FS_Subset
<1>6. SUFFICES ASSUME i # j PROVE FALSE
  OBVIOUS
<1>7. {i, j} \subseteq ActiveVotes(r, u)
  OBVIOUS
<1>8. Cardinality({i, j}) = 2
  <2>1. Cardinality({i}) = 1 /\ IsFiniteSet({i})
    BY FS_Singleton
  <2>2. {i, j} = {i} \cup {j} /\ j \notin {i}
    BY <1>6
  <2>3. Cardinality({i} \cup {j}) = Cardinality({i}) + 1
    BY <2>1, <2>2, FS_AddElement
  <2> QED
    BY <2>1, <2>2, <2>3
<1>9. Cardinality({i, j}) <= Cardinality(ActiveVotes(r, u))
  BY <1>3, <1>7, FS_Subset
<1> QED
  BY <1>3, <1>4, <1>5, <1>8, <1>9

\* The active votes of a type on a request are as many as the ballots.
LEMMA OneBallotEach ==
    ASSUME CountInv, Quiet, NEW r \in Requests, NEW w \in Workers
    PROVE  Tally(r) = [likes |-> Cardinality({u \in Users : boxBallot[r][u] = "like"}),
                       dislikes |-> Cardinality({u \in Users : boxBallot[r][u] = "dislike"})]
<1>1. votes \in Seq(VoteDocs)
  BY DEF CountInv, VoteInv, TypeInv, TypeOK
<1>2. \A i \in DOMAIN votes : votes[i] \in VoteDocs
  BY <1>1
<1>3. ASSUME NEW u \in Users, NEW i \in ActiveVotes(r, u)
      PROVE  BallotOf(r, u) = votes[i].vote_type
  <2>1. \A j \in ActiveVotes(r, u) : j = i
    BY <1>3, OneActive
  <2>2. votes[i].vote_type \in {"like", "dislike"}
    BY <1>2, <1>3 DEF ActiveVotes, VoteDocs, VoteTypes
  <2>3. CASE votes[i].vote_type = "like"
    BY <1>3, <2>3 DEF BallotOf
  <2>4. CASE votes[i].vote_type = "dislike"
    <3>1. ~\E j \in ActiveVotes(r, u) : votes[j].vote_type = "like"
      BY <2>1, <2>4
    <3>2. ActiveVotes(r, u) # {}
      BY <1>3
    <3> QED
      BY <2>4, <3>1, <3>2 DEF BallotOf
  <2> QED
    BY <2>2, <2>3, <2>4
<1>4. ASSUME NEW u \in Users, ActiveVotes(r, u) = {}
      PROVE  BallotOf(r, u) = "none"
  BY <1>4 DEF BallotOf
<1>5. ASSUME NEW t \in VoteTypes
      PROVE  Cardinality(VotesOfType(r, t)) = Cardinality({u \in Users : boxBallot[r][u] = t})
  <2> DEFINE V == VotesOfType(r, t)
             U == {u \in Users : boxBallot[r][u] = t}
             f == [i \in V |-> votes[i].user_id]
  <2>1. \A i \in V : /\ votes[i].user_id \in Users
                     /\ i \in ActiveVotes(r, votes[i].user_id)
                     /\ votes[i].vote_type = t
    BY <1>2 DEF VotesOfType, ActiveVotes, VoteDocs
  <2>2. \A i \in V : votes[i].user_id \in U
    BY <1>3, <2>1 DEF boxBallot
  <2>3. \A i, j \in V : votes[i].user_id = votes[j].user_id => i = j
    BY <2>1, OneActive
  <2>4. ASSUME NEW u \in U
        PROVE  \E i \in V : votes[i].user_id = u
    <3>1. BallotOf(r, u) = t
      BY <2>4 DEF boxBallot
    <3>2. ActiveVotes(r, u) # {}
      BY <1>4, <1>5, <2>4, <3>1 DEF VoteTypes
    <3>3. PICK i \in ActiveVotes(r, u) : TRUE
      BY <3>2
    <3>4. votes[i].vote_type = t
      BY <1>3, <2>4, <3>1, <3>3
    <3> QED
      BY <3>3, <3>4 DEF ActiveVotes, VotesOfType
  <2>5. f \in Bijection(V, U)
    BY <2>2, <2>3, <2>4 DEF Bijection, Injection, Surjection, IsInjective
  <2>6. IsFiniteSet(V)
    <3>1. V \subseteq 1..Len(votes)
      BY <1>1 DEF VotesOfType
    <3> QED
      BY <1>1, <3>1, FS_Interval, FS_Subset
  <2> HIDE DEF f, V, U
  <2>7. ExistsBijection(V, U)
    BY <2>5 DEF ExistsBijection
  <2>8. Cardinality(V) = Cardinality(U)
    BY <2>6, <2>7, FS_Bijection
  <2> QED
    BY <2>8 DEF V, U
<1> QED
  BY <1>5 DEF Tally, VoteTypes

\* The ballot of a user changes only with the user's active votes.
LEMMA BallotKept ==
    ASSUME NEW r, NEW u, ActiveVotes(r, u)' = ActiveVotes(r, u),
           \A i \in ActiveVotes(r, u) : votes'[i].vote_type = votes[i].vote_type
    PROVE  BallotOf(r, u)' = BallotOf(r, u)
BY DEF BallotOf

\* BallotBox counts with its own instance of Cardinality.
LEMMA SameCardinality ==
    ASSUME NEW S
    PROVE  Box!Cardinality(S) = Cardinality(S)
BY DEF Box!Cardinality, Cardinality

\* The tally of the votes is the tally of the box.
LEMMA SameTally ==
    ASSUME CountInv, Quiet, NEW r \in Requests, NEW w \in Workers
    PROVE  Box!TallyOf(r) = Tally(r)
<1>1. ASSUME NEW t
      PROVE  Box!BallotsFor(r, t) = {u \in Users : boxBallot[r][u] = t}
  BY DEF Box!BallotsFor, boxBallot
<1>2. Tally(r) = [likes |-> Cardinality(Box!BallotsFor(r, "like")),
                  dislikes |-> Cardinality(Box!BallotsFor(r, "dislike"))]
  BY <1>1, OneBallotEach
<1> QED
  BY <1>2, SameCardinality DEF Box!TallyOf

\* A step from one moment outside a count to another that writes no vote
\* leaves the box alone.
LEMMA BoxKept ==
    ASSUME CountInv, CountInv', Quiet, NEW w \in Workers, votes' = votes,
           handler[w].pc \notin {"count_votes", "write_counts"},
           handler'[w].pc \notin {"count_votes", "write_counts"}
    PROVE  UNCHANGED <<boxBallot, boxPublished, boxCounting>>
<1>1. PublishedExact /\ PublishedExact'
  BY PublishedIsTally, PTL
<1>2. \A r : Tally(r)' = Tally(r)
  BY DEF Tally, VotesOfType
<1>3. \A r, u : BallotOf(r, u)' = BallotOf(r, u)
  BY DEF BallotOf, ActiveVotes
<1>4. \A r : ~Counting(r) /\ ~Counting(r)'
  BY OnlyCounter
<1>5. boxBallot' = boxBallot
  BY <1>3 DEF boxBallot
<1>6. boxCounting' = boxCounting
  BY <1>4 DEF boxCounting
<1>7. \A r \in Requests : boxPublished'[r] = boxPublished[r]
  BY <1>1, <1>2, <1>4 DEF PublishedExact
<1>8. boxPublished' = boxPublished
  BY <1>7 DEF boxPublished
<1> QED
  BY <1>5, <1>6, <1>8

\* Writing a vote of user u on request q is a Cast.
LEMMA BoxCast ==
    ASSUME CountInv, Quiet, NEW w \in Workers, NEW q \in Requests, NEW u \in Users, NEW voted,
           handler[w].pc \notin {"count_votes", "write_counts"},
           handler[w].call.request = q,
           CountNext(w, voted), requests' = requests,
           \A r \in Requests, v \in Users : r # q \/ v # u => BallotOf(r, v)' = BallotOf(r, v)
    PROVE  \E b \in Ballots : Box!Cast(q, u, b)
<1>1. boxCounting = {}
  BY OnlyCounter DEF boxCounting
<1>2. /\ handler'[w].pc = "count_votes"
      /\ handler'[w].call.request = q
  BY Moved DEF CountNext
<1>3. boxCounting' = {q}
  BY <1>2, OnlyCounter DEF boxCounting
<1>4. boxPublished' = boxPublished
  BY DEF boxPublished, Stored
<1>5. PICK b : b = BallotOf(q, u)'
  OBVIOUS
<1>6. b \in Ballots
  BY <1>5 DEF BallotOf, Ballots, VoteTypes
<1>7. boxBallot' = [boxBallot EXCEPT ![q][u] = b]
  <2>1. \A r \in Requests, v \in Users :
          BallotOf(r, v)' = IF r = q /\ v = u THEN b ELSE BallotOf(r, v)
    BY <1>5
  <2>2. boxBallot' = [r \in Requests |-> [v \in Users |->
                        IF r = q /\ v = u THEN b ELSE BallotOf(r, v)]]
    BY <2>1 DEF boxBallot
  <2>3. [boxBallot EXCEPT ![q][u] = b] = [r \in Requests |-> [v \in Users |->
                        IF r = q /\ v = u THEN b ELSE BallotOf(r, v)]]
    BY DEF boxBallot
  <2> QED
    BY <2>2, <2>3
<1>8. Box!Cast(q, u, b)
  BY <1>1, <1>3, <1>4, <1>7 DEF Box!Cast, boxBallot, boxCounting, boxPublished
<1> QED
  BY <1>6, <1>8

LEMMA BoxVoteStep ==
    ASSUME CountInv, CountInv', Quiet, NEW w \in Workers, VoteStep(w)
    PROVE  [Box!Next]_(Box!boxVars)
<1> DEFINE c == handler[w].call
           q == handler[w].call.request
           doc == [request_id |-> c.request, user_id |-> c.user,
                   vote_type |-> c.vote_type, is_active |-> TRUE]
<1> USE DEF At
<1>1. handler[w] # Idle
  BY NotIdle DEF VoteStep, FindVote, CreateVote, WithdrawVote, SwitchVote, CountVotes, WriteCounts
<1>2. /\ q \in Requests /\ c.user \in Users /\ Stored(q)
      /\ requests[q] \in RequestDocs
      /\ TypeOK
      /\ requests \in [Requests -> RequestDocs \cup {NoDoc}]
      /\ votes \in Seq(VoteDocs)
  <2>1. TypeInv
    BY DEF CountInv, VoteInv
  <2> QED
    BY <1>1, <2>1, BusyType DEF TypeInv, TypeOK, Call, VoteCall
<1>3. ASSUME UNCHANGED <<boxBallot, boxPublished, boxCounting>>
      PROVE  [Box!Next]_(Box!boxVars)
  BY <1>3 DEF Box!boxVars, boxBallot, boxPublished, boxCounting
<1>4. ASSUME NEW voted, CountNext(w, voted), requests' = requests,
             handler[w].pc \notin {"count_votes", "write_counts"},
             \A r \in Requests, v \in Users :
                 r # q \/ v # c.user => BallotOf(r, v)' = BallotOf(r, v)
      PROVE  [Box!Next]_(Box!boxVars)
  <2>1. PICK b \in Ballots : Box!Cast(q, c.user, b)
    BY <1>2, <1>4, BoxCast
  <2>2. b \in Box!Choices
    BY DEF Ballots, VoteTypes, Box!Choices
  <2>3. Box!Next
    BY <1>2, <2>1, <2>2 DEF Box!Next
  <2> QED
    BY <2>3
<1>5. CASE FindVote(w)
  <2>1. handler[w].pc = "find_vote" /\ votes' = votes
    BY <1>5 DEF FindVote
  <2>2. \/ Continue(w, [pc |-> "create_vote", call |-> c])
        \/ Continue(w, [pc |-> "withdraw_vote", call |-> c])
        \/ \E i \in DOMAIN votes : Continue(w, [pc |-> "switch_vote", call |-> c, vote_id |-> i])
    BY <1>5 DEF FindVote
  <2>3. handler'[w].pc \in {"create_vote", "withdraw_vote", "switch_vote"}
    <3>1. ASSUME NEW h, Continue(w, h), h.pc \in {"create_vote", "withdraw_vote", "switch_vote"}
          PROVE  handler'[w].pc \in {"create_vote", "withdraw_vote", "switch_vote"}
      BY <3>1, Moved
    <3>2. \A i : [pc |-> "switch_vote", call |-> c, vote_id |-> i].pc = "switch_vote"
      OBVIOUS
    <3>3. /\ [pc |-> "create_vote", call |-> c].pc = "create_vote"
          /\ [pc |-> "withdraw_vote", call |-> c].pc = "withdraw_vote"
      OBVIOUS
    <3> QED
      BY <2>2, <3>1, <3>2, <3>3
  <2>4. UNCHANGED <<boxBallot, boxPublished, boxCounting>>
    BY <2>1, <2>3, BoxKept
  <2> QED
    BY <1>3, <2>4
<1>6. CASE CreateVote(w)
  <2>1. /\ handler[w].pc = "create_vote" /\ requests' = requests
        /\ votes' = Append(votes, doc) /\ CountNext(w, c.vote_type)
    BY <1>6 DEF CreateVote
  <2>2. /\ DOMAIN votes' = DOMAIN votes \cup {Len(votes) + 1}
        /\ votes'[Len(votes) + 1] = doc
        /\ \A i \in DOMAIN votes : votes'[i] = votes[i]
    BY <1>2, <2>1
  <2>3. ASSUME NEW r \in Requests, NEW v \in Users, r # q \/ v # c.user
        PROVE  BallotOf(r, v)' = BallotOf(r, v)
    <3>1. ActiveVotes(r, v)' = ActiveVotes(r, v)
      BY <2>2, <2>3 DEF ActiveVotes
    <3>2. \A i \in ActiveVotes(r, v) : votes'[i].vote_type = votes[i].vote_type
      BY <2>2 DEF ActiveVotes
    <3> QED
      BY <3>1, <3>2, BallotKept
  <2> QED
    BY <1>4, <2>1, <2>3
<1>7. CASE WithdrawVote(w)
  <2>1. /\ handler[w].pc = "withdraw_vote" /\ requests' = requests
        /\ votes' = Withdrawn(q, c.user) /\ CountNext(w, "none")
    BY <1>2, <1>7, NoFaults DEF WithdrawVote
  <2>2. DOMAIN votes' = DOMAIN votes
    BY <2>1 DEF Withdrawn
  <2>3. ASSUME NEW i \in DOMAIN votes
        PROVE  /\ votes'[i].request_id = votes[i].request_id
               /\ votes'[i].user_id = votes[i].user_id
               /\ votes[i].request_id # q \/ votes[i].user_id # c.user => votes'[i] = votes[i]
    <3> DEFINE b == ~First(i, AllVotes(q, c.user))
    <3>1. votes'[i] = [votes[i] EXCEPT !.is_active = votes[i].is_active /\ b]
      BY <2>1 DEF Withdrawn
    <3>2. b \in BOOLEAN /\ (votes[i].request_id # q \/ votes[i].user_id # c.user => b)
      BY DEF First, AllVotes
    <3>3. votes[i] \in VoteDocs
      BY <1>2
    <3> HIDE DEF b
    <3> QED
      BY <3>1, <3>2, <3>3 DEF VoteDocs
  <2>4. ASSUME NEW r \in Requests, NEW v \in Users, r # q \/ v # c.user
        PROVE  BallotOf(r, v)' = BallotOf(r, v)
    <3>1. ActiveVotes(r, v)' = ActiveVotes(r, v)
      BY <2>2, <2>3, <2>4 DEF ActiveVotes
    <3>2. \A i \in ActiveVotes(r, v) : votes'[i].vote_type = votes[i].vote_type
      BY <2>3, <2>4 DEF ActiveVotes
    <3> QED
      BY <3>1, <3>2, BallotKept
  <2> QED
    BY <1>4, <2>1, <2>4
<1>8. CASE SwitchVote(w)
  <2>1. /\ handler[w].pc = "switch_vote" /\ requests' = requests
        /\ votes' = [votes EXCEPT ![handler[w].vote_id] = doc] /\ CountNext(w, c.vote_type)
    BY <1>8 DEF SwitchVote
  <2>2. /\ votes[handler[w].vote_id].request_id = q
        /\ votes[handler[w].vote_id].user_id = c.user
    BY <2>1 DEF CountInv, VoteInv, SwitchesOwnVote, AllVotes
  <2>3. /\ DOMAIN votes' = DOMAIN votes
        /\ \A i \in DOMAIN votes : votes'[i] = IF i = handler[w].vote_id THEN doc ELSE votes[i]
    BY <1>2, <2>1
  <2>4. ASSUME NEW r \in Requests, NEW v \in Users, r # q \/ v # c.user
        PROVE  BallotOf(r, v)' = BallotOf(r, v)
    <3>1. ActiveVotes(r, v)' = ActiveVotes(r, v)
      BY <2>2, <2>3, <2>4 DEF ActiveVotes
    <3>2. \A i \in ActiveVotes(r, v) : votes'[i].vote_type = votes[i].vote_type
      BY <2>2, <2>3, <2>4 DEF ActiveVotes
    <3> QED
      BY <3>1, <3>2, BallotKept
  <2> QED
    BY <1>4, <2>1, <2>4
<1>9. CASE CountVotes(w)
  <2> DEFINE h == [pc |-> "write_counts", call |-> c, voted |-> handler[w].voted, counts |-> Tally(q)]
  <2>1. handler[w].pc = "count_votes" /\ requests' = requests /\ votes' = votes /\ Continue(w, h)
    BY <1>9 DEF CountVotes
  <2>2. handler'[w] = h
    BY <2>1, Moved
  <2>3. \A r : Counting(r)' <=> Counting(r)
    BY <2>1, <2>2, OnlyCounter
  <2>4. \A r, u : BallotOf(r, u)' = BallotOf(r, u)
    BY <2>1 DEF BallotOf, ActiveVotes
  <2>5. UNCHANGED <<boxBallot, boxPublished, boxCounting>>
    BY <2>1, <2>3, <2>4 DEF boxBallot, boxPublished, boxCounting, Stored
  <2> QED
    BY <1>3, <2>5
<1>10. CASE WriteCounts(w)
  <2>1. handler[w].pc = "write_counts" /\ votes' = votes /\ Answer(w, c, TRUE, handler[w].voted)
    BY <1>10 DEF WriteCounts
  <2>2. handler'[w] = Idle
    BY <2>1, Moved DEF Answer
  <2>3. boxCounting = {q} /\ boxCounting' = {}
    BY <1>2, <2>1, <2>2, OnlyCounter DEF boxCounting, Idle
  <2>4. \A r, u : BallotOf(r, u)' = BallotOf(r, u)
    BY <2>1 DEF BallotOf, ActiveVotes
  <2>5. boxBallot' = boxBallot
    BY <2>4 DEF boxBallot
  <2>6. requests' = [requests EXCEPT ![q] = [requests[q] EXCEPT !.counts = Tally(q)]]
    <3>1. handler[w].counts = Tally(q)
      BY <2>1 DEF CountInv, WritesExact
    <3>2. PICK raised \in BOOLEAN :
            SetRequest(q, [requests[q] EXCEPT !.counts = handler[w].counts], raised)
      BY <1>10 DEF WriteCounts
    <3> QED
      BY <1>2, <3>1, <3>2, NoFaults
  <2>7. /\ [requests[q] EXCEPT !.counts = Tally(q)].counts = Tally(q)
        /\ [requests[q] EXCEPT !.counts = Tally(q)] # NoDoc
    <3>1. [requests[q] EXCEPT !.counts = Tally(q)] \in RequestDocs
      BY <1>2, TallyType DEF RequestDocs
    <3> QED
      BY <1>2, <3>1, DataRequestsAssumption DEF RequestDocs
  <2>8. boxPublished' = [boxPublished EXCEPT ![q] = Tally(q)]
    <3>1. \A r \in Requests : (IF Stored(r)' THEN requests'[r].counts ELSE ZeroCounts) =
                              IF r = q THEN Tally(q) ELSE boxPublished[r]
      BY <1>2, <2>6, <2>7 DEF boxPublished, Stored
    <3>2. boxPublished' = [r \in Requests |-> IF r = q THEN Tally(q) ELSE boxPublished[r]]
      BY <3>1 DEF boxPublished
    <3> QED
      BY <3>2 DEF boxPublished
  <2>9. PICK r \in Requests : r = q
    BY <1>2
  <2>10. Box!TallyOf(r) = Tally(r)
    BY SameTally
  <2>11. Box!Publish(r)
    BY <2>3, <2>5, <2>8, <2>9, <2>10 DEF Box!Publish, boxBallot, boxCounting, boxPublished
  <2>12. Box!Next
    BY <2>11 DEF Box!Next
  <2> QED
    BY <2>12
<1> QED
  BY <1>5, <1>6, <1>7, <1>8, <1>9, <1>10 DEF VoteStep

LEMMA BoxNext ==
    ASSUME CountInv, CountInv', Quiet, [Next]_vars
    PROVE  [Box!Next]_(Box!boxVars)
<1>1. ASSUME UNCHANGED <<boxBallot, boxPublished, boxCounting>>
      PROVE  [Box!Next]_(Box!boxVars)
  BY <1>1 DEF Box!boxVars, boxBallot, boxPublished, boxCounting
<1>2. CASE UNCHANGED vars
  BY <1>1, <1>2 DEF vars, boxBallot, boxPublished, boxCounting, BallotOf, ActiveVotes, Stored,
     Counting
<1>3. ASSUME NEW w \in Workers, NEW u \in Users, NEW r \in Requests, Arrival(w, u, r)
      PROVE  [Box!Next]_(Box!boxVars)
  <2>1. votes' = votes
    BY <1>3 DEF Arrival, CreateRequest, VoteFindRequest, EditFindRequest, DeleteFindRequest,
       StatusFindRequest
  <2>2. handler[w].pc = "idle"
    <3>1. \E op : Ready(w, op)
      BY <1>3 DEF Arrival, CreateRequest, VoteFindRequest, EditFindRequest, DeleteFindRequest,
         StatusFindRequest
    <3> QED
      BY <3>1 DEF Ready, Idle
  <2>3. PICK h : /\ Continue(w, h)
                 /\ h.pc \in {"idle", "find_vote", "write_edit", "write_delete", "write_status"}
    BY <1>3, ArrivalMoves
  <2>4. handler'[w].pc \notin {"count_votes", "write_counts"}
    BY <2>3, Moved
  <2> QED
    BY <1>1, <2>1, <2>2, <2>4, BoxKept
<1>4. ASSUME NEW w \in Workers, VoteStep(w)
      PROVE  [Box!Next]_(Box!boxVars)
  BY <1>4, BoxVoteStep
<1>5. ASSUME NEW w \in Workers,
             \/ WriteEdit(w) \/ RereadEdit(w) \/ WriteDelete(w) \/ WriteStatus(w)
             \/ RereadStatus(w) \/ Abort(w)
      PROVE  [Box!Next]_(Box!boxVars)
  <2>1. ~Abort(w)
    BY NoFaults DEF CountInv, VoteInv, TypeInv, Abort
  <2>2. votes' = votes /\ handler[w].pc \notin {"count_votes", "write_counts"}
    BY <1>5, <2>1 DEF WriteEdit, RereadEdit, WriteDelete, WriteStatus, RereadStatus, Reread, At
  <2>3. \/ Continue(w, Idle)
        \/ \E c : Continue(w, [pc |-> "reread_edit", call |-> c])
        \/ \E c : Continue(w, [pc |-> "reread_status", call |-> c])
    BY <1>5, <2>1 DEF WriteEdit, RereadEdit, WriteDelete, WriteStatus, RereadStatus, Reread, Answer
  <2>4. /\ Idle.pc = "idle"
        /\ \A c : [pc |-> "reread_edit", call |-> c].pc = "reread_edit"
        /\ \A c : [pc |-> "reread_status", call |-> c].pc = "reread_status"
    BY DEF Idle
  <2>5. ASSUME NEW h, Continue(w, h), h.pc \in {"idle", "reread_edit", "reread_status"}
        PROVE  handler'[w].pc \in {"idle", "reread_edit", "reread_status"}
    BY <2>5, Moved
  <2>6. handler'[w].pc \in {"idle", "reread_edit", "reread_status"}
    BY <2>3, <2>4, <2>5
  <2> QED
    BY <1>1, <2>2, <2>6, BoxKept
<1> QED
  BY <1>2, <1>3, <1>4, <1>5 DEF Next, HandlerStep

\* A single server process whose database calls succeed is an honest ballot
\* box, step by step: one vote of each user, and totals that only a count
\* changes.  (That the count comes is a property of the runs.)
THEOREM RunsAnHonestBallotBox ==
    ASSUME OneWorker, MaxFaults = 0
    PROVE  Spec => Box!Init /\ [][Box!Next]_(Box!boxVars)
<1>1. Quiet
  BY DEF Quiet
<1>2. Init => Box!Init
  <2> SUFFICES ASSUME Init PROVE Box!Init
    OBVIOUS
  <2>1. \A r, u : BallotOf(r, u) = "none"
    BY DEF Init, BallotOf, ActiveVotes
  <2>2. \A r \in Requests : ~Stored(r) /\ ~Counting(r)
    BY DEF Init, Stored, Counting, Idle
  <2> QED
    BY <2>1, <2>2 DEF Box!Init, ZeroCounts
<1>3. CountInv /\ [Next]_vars => CountInv'
  BY <1>1, CountsNext
<1>4. CountInv /\ CountInv' /\ [Next]_vars => [Box!Next]_(Box!boxVars)
  BY <1>1, BoxNext
<1> QED
  BY <1>2, <1>3, <1>4, CountsInit, PTL DEF Spec
=============================================================================
