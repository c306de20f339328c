------------------------------ MODULE Listing ------------------------------
(***************************************************************************)
(* GET /announcements: clients walk the list of active announcements page  *)
(* by page while others are stored and deactivated.  A page is answered    *)
(* from Redis when it is there; otherwise the row count and the rows are   *)
(* read in two queries and the response is stored for sixty seconds.       *)
(* Nothing that writes announcements touches the cache.  When a query      *)
(* fails the response is an empty last page, stored like any other.        *)
(***************************************************************************)
EXTENDS Naturals, Sequences, SequencesExt

CONSTANTS
  Readers,        \* clients
  Docs,           \* announcements
  PageSize,
  MaxPage,        \* bound of the exploration: pages asked for
  MaxWrites,      \* bounds of the exploration: writes
  MaxErrors       \* and queries that fail

ListingAssumption ==
  /\ PageSize \in Nat \ {0} /\ MaxPage \in Nat \ {0} /\ {MaxWrites, MaxErrors} \subseteq Nat
  /\ IsFiniteSet(Docs)

VARIABLES
  rows,           \* the active announcements in list order
  listed,         \* Redis: page -> a response, or NoPage
  reader,
  writes, errors

listingVars == <<rows, listed, reader, writes, errors>>

Pages == 1 .. MaxPage
NoPage == [docs |-> {}, next |-> FALSE, stored |-> FALSE]
Responses == [docs: SUBSET Docs, next: BOOLEAN, stored: {TRUE}]

ReaderStates ==
  [at: {"idle", "asking", "finding", "storing"}, page: Pages, total: 0 .. Cardinality(Docs),
   response: Responses \cup {NoPage}, seen: SUBSET Docs, owed: SUBSET Docs, disturbed: BOOLEAN]

ListingTypeOK ==
  /\ rows \in Seq(Docs) /\ IsInjective(rows)
  /\ listed \in [Pages -> Responses \cup {NoPage}]
  /\ reader \in [Readers -> ReaderStates]
  /\ writes \in 0 .. MaxWrites /\ errors \in 0 .. MaxErrors

ListingInit ==
  /\ rows \in {SetToSeq(D) : D \in SUBSET Docs}
  /\ listed = [p \in Pages |-> NoPage]
  /\ reader = [r \in Readers |->
       [at |-> "idle", page |-> 1, total |-> 0, response |-> NoPage, seen |-> {}, owed |-> {},
        disturbed |-> FALSE]]
  /\ writes = 0 /\ errors = 0

Skip(p) == (p - 1) * PageSize
HasNextShort(p, total) == Skip(p) + PageSize + 1 < total   \* off by one
HasNext(p, total) == Skip(p) + PageSize < total
RowsOf(p) == {rows[i] : i \in {i \in DOMAIN rows : i > Skip(p) /\ i <= Skip(p) + PageSize}}

-----------------------------------------------------------------------------
(* A client starts at the first page; what it must not miss is what is     *)
(* listed now.                                                             *)
StartWalk(r) ==
  /\ reader[r].at = "idle"
  /\ reader' = [reader EXCEPT ![r] = [@ EXCEPT !.at = "asking", !.page = 1, !.seen = {},
                                               !.owed = ToSet(rows), !.disturbed = FALSE]]
  /\ UNCHANGED <<rows, listed, writes, errors>>

(* The client's state once it holds a response: it follows has_next.       *)
Received(s, response, fromCache) ==
  [s EXCEPT !.seen = @ \cup response.docs,
            !.at = IF response.next /\ s.page < MaxPage THEN "asking" ELSE "idle",
            !.page = IF response.next /\ @ < MaxPage THEN @ + 1 ELSE @,
            !.response = NoPage, !.total = 0,
            !.disturbed = @ \/ fromCache \/ (response.next /\ s.page = MaxPage)]

(* Cache hit.                                                              *)
ServeCached(r) ==
  LET hit == listed[reader[r].page]
  IN  /\ reader[r].at = "asking"
      /\ hit.stored
      /\ reader' = [reader EXCEPT ![r] = Received(@, hit, TRUE)]
      /\ UNCHANGED <<rows, listed, writes, errors>>

(* Cache miss, or Redis in error; count_documents.                         *)
CountRows(r) ==
  /\ reader[r].at = "asking"
  /\ reader' = [reader EXCEPT ![r] = [@ EXCEPT !.at = "finding", !.total = Len(rows)]]
  /\ UNCHANGED <<rows, listed, writes, errors>>

(* find, sort, skip, limit; has_next comes from the earlier count.         *)
FindRows(r) ==
  LET p == reader[r].page
  IN  /\ reader[r].at = "finding"
      /\ reader' = [reader EXCEPT ![r] =
           [@ EXCEPT !.at = "storing",
                     !.response = [docs |-> RowsOf(p), next |-> HasNext(p, reader[r].total),
                                   stored |-> TRUE]]]
      /\ UNCHANGED <<rows, listed, writes, errors>>

(* Either query fails: the service logs it and returns a page with nothing *)
(* on it and nothing after it, which is no error to the router.            *)
NothingFound == [docs |-> {}, next |-> FALSE, stored |-> TRUE]
QueryFails(r) ==
  /\ reader[r].at \in {"asking", "finding"}
  /\ errors < MaxErrors
  /\ reader' = [reader EXCEPT ![r] = [@ EXCEPT !.at = "storing", !.response = NothingFound,
                                               !.disturbed = TRUE]]
  /\ errors' = errors + 1
  /\ UNCHANGED <<rows, listed, writes>>

(* SETEX, which may fail unnoticed, and the response.                      *)
StoreAndServe(r) ==
  LET s == reader[r]
  IN  /\ s.at = "storing"
      /\ listed' \in {listed, [listed EXCEPT ![s.page] = s.response]}
      /\ reader' = [reader EXCEPT ![r] = Received(@, s.response, FALSE)]
      /\ UNCHANGED <<rows, writes, errors>>

NeverExpire(p) == listed[p].stored /\ UNCHANGED listingVars   \* as if SET had no TTL
Expire(p) ==
  /\ listed[p].stored
  /\ listed' = [listed EXCEPT ![p] = NoPage]
  /\ UNCHANGED <<rows, reader, writes, errors>>

(* A stored announcement takes the place its date gives it; a write that   *)
(* falls between a count and its find, and any deactivation during a walk, *)
(* disturbs the walk.  An edit that changes a date is a deactivation and   *)
(* an insertion here.                                                      *)
Disturb(S) == reader' = [r \in Readers |-> [reader[r] EXCEPT !.disturbed = @ \/ r \in S]]

Insert(d, i) ==
  /\ writes < MaxWrites
  /\ d \notin ToSet(rows)
  /\ rows' = InsertAt(rows, i, d)
  /\ Disturb({r \in Readers : reader[r].at = "finding"})
  /\ writes' = writes + 1
  /\ UNCHANGED <<listed, errors>>

DeactivateRow(i) ==
  /\ writes < MaxWrites
  /\ rows' = RemoveAt(rows, i)
  /\ Disturb(Readers)
  /\ writes' = writes + 1
  /\ UNCHANGED <<listed, errors>>

Serve(r) == ServeCached(r) \/ CountRows(r) \/ FindRows(r) \/ StoreAndServe(r)

ListingNext ==
  \/ \E r \in Readers : StartWalk(r)
  \/ \E r \in Readers : ServeCached(r)
  \/ \E r \in Readers : CountRows(r)
  \/ \E r \in Readers : FindRows(r)
  \/ \E r \in Readers : QueryFails(r)
  \/ \E r \in Readers : StoreAndServe(r)
  \/ \E p \in Pages : Expire(p)
  \/ \E d \in Docs, i \in 1 .. Len(rows) + 1 : Insert(d, i)
  \/ \E i \in DOMAIN rows : DeactivateRow(i)

ListingSpec == ListingInit /\ [][ListingNext]_listingVars

(* A request the server accepted is answered, and Redis drops a key whose  *)
(* time is over.                                                           *)
ListingFairness ==
  /\ \A r \in Readers : WF_listingVars(Serve(r))
  /\ \A p \in Pages : WF_listingVars(Expire(p))

-----------------------------------------------------------------------------
(* A walk answered from the database, none of whose queries failed, with   *)
(* no deactivation since it began and no write between the count and the   *)
(* find of one page, misses nothing that was listed when it began,         *)
(* wherever announcements are inserted meanwhile.                          *)
WalkComplete ==
  \A r \in Readers :
    reader[r].at = "idle" /\ ~reader[r].disturbed => reader[r].owed \subseteq reader[r].seen

(* When writes and failures of queries come to an end, as they do here,    *)
(* the cache stops answering with what is not so, though no write ever     *)
(* invalidates it: a stale page can be stored by a request that read       *)
(* before the last write, and the empty page of a failed query is stored   *)
(* too, but they expire.                                                   *)
Coherent ==
  \A p \in Pages :
    listed[p].stored => listed[p].docs = RowsOf(p) /\ listed[p].next = HasNext(p, Len(rows))
ListCatchesUp == <>[]Coherent
=============================================================================
