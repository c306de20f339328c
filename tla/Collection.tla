----------------------------- MODULE Collection -----------------------------
(***************************************************************************)
(* The collection of announcements: fetched from the public API page by    *)
(* page, edited and soft-deleted by administrators, and cleaned of         *)
(* duplicates by a background task (domains/announcements).  An action is  *)
(* the code from one database call to the next.                            *)
(***************************************************************************)
EXTENDS Naturals, FiniteSets, Sequences, SequencesExt

CONSTANTS
    Fetchers, Cleaners,     \* server processes and Celery workers
    Announcements,          \* the announcements the API and the editors know
    Numbered,               \* those that carry an announcement_id
    ApiPages,               \* the pages of items the API may answer with
    Absent,                 \* a field a document does not have
    DocIds,                 \* document ids (bounds the insertions)
    MaxFailures, MaxEdits   \* bounds: failed calls, edits that yield a copy

CollectionAssumption ==
    /\ IsFiniteSet(Fetchers)
    /\ Numbered \subseteq Announcements
    /\ Absent \notin Announcements
    /\ ApiPages \subseteq Seq(Announcements) \ {<<>>}
    /\ {MaxFailures, MaxEdits} \subseteq Nat

VARIABLES
    doc,            \* the documents stored, by id
    byUpdate,       \* their ids, least recently updated first
    usedDocs,
    fetching,       \* per fetcher, the items left of its page
    cleaning,       \* per cleaner, the documents it is about to remove
    renumbered,     \* history: the numbers that edits took from documents, or
                    \* gave them, since the clean-up last looked
    failures, edits
collectionVars ==
    <<doc, byUpdate, usedDocs, fetching, cleaning, renumbered, failures, edits>>

NotFetching == [step |-> "idle"]
Stored == DOMAIN doc
Origins == {"fetch", "batch", "editor"}
\* A document's number is its announcement_id; its business is what
\* check_duplicate looks for, the business id or, for want of one, the name.
Numbers == Numbered \cup {Absent}
Businesses == Announcements \cup {Absent}
Number(a) == IF a \in Numbered THEN a ELSE Absent
NumberedAs(n) == {d \in Stored : doc[d].number = n}
Matching(a) == {d \in Stored : doc[d].active /\ doc[d].business = a}

CollectionInit ==
    /\ doc = <<>> /\ byUpdate = <<>> /\ usedDocs = {}
    /\ fetching = [f \in Fetchers |-> NotFetching]
    /\ cleaning = [c \in Cleaners |-> {}]
    /\ renumbered = {} /\ failures = 0 /\ edits = 0

NewDoc == CHOOSE d \in DocIds : d \notin usedDocs
InsertDoc(number, business, origin) ==
    /\ DocIds \ usedDocs # {}
    /\ doc' = [e \in Stored \cup {NewDoc} |->
                 IF e = NewDoc
                 THEN [number |-> number, business |-> business, origin |-> origin, active |-> TRUE]
                 ELSE doc[e]]
    /\ byUpdate' = Append(byUpdate, NewDoc)
    /\ usedDocs' = usedDocs \cup {NewDoc}
CallFails == failures < MaxFailures /\ failures' = failures + 1
FetcherBecomes(f, s) == fetching' = [fetching EXCEPT ![f] = s]

\* The three attempts of the request send the same parameters: some page of
\* items, or none when the API fails, and the call is over.
FetchPage(f, items) ==
    /\ fetching[f] = NotFetching
    /\ FetcherBecomes(f, [step |-> "check", rest |-> items])
    /\ UNCHANGED <<doc, byUpdate, usedDocs, cleaning, renumbered, failures, edits>>

After(rest) == IF Tail(rest) = <<>> THEN NotFetching ELSE [step |-> "check", rest |-> Tail(rest)]

CheckNothing(f) ==   \* as if every check failed
    /\ fetching[f].step = "check"
    /\ FetcherBecomes(f, [fetching[f] EXCEPT !.step = "insert"])
    /\ UNCHANGED <<doc, byUpdate, usedDocs, cleaning, renumbered, failures, edits>>

\* check_duplicate: a failed query counts as "not a duplicate".
CheckDuplicate(f) ==
    /\ fetching[f].step = "check"
    /\ LET rest == fetching[f].rest IN
       \/ /\ Matching(Head(rest)) # {} /\ UNCHANGED failures
          /\ FetcherBecomes(f, After(rest))
       \/ /\ Matching(Head(rest)) = {} /\ UNCHANGED failures
          /\ FetcherBecomes(f, [step |-> "insert", rest |-> rest])
       \/ /\ Matching(Head(rest)) # {} /\ CallFails
          /\ FetcherBecomes(f, [step |-> "insert", rest |-> rest])
    /\ UNCHANGED <<doc, byUpdate, usedDocs, cleaning, renumbered, edits>>

\* A failed insertion is logged and the loop goes on with the next item.
InsertFetched(f) ==
    /\ fetching[f].step = "insert"
    /\ \/ LET a == Head(fetching[f].rest)
          IN  InsertDoc(Number(a), a, "fetch") /\ UNCHANGED failures
       \/ CallFails /\ UNCHANGED <<doc, byUpdate, usedDocs>>
    /\ FetcherBecomes(f, After(fetching[f].rest))
    /\ UNCHANGED <<cleaning, renumbered, edits>>

\* create_many cannot expand the model it is given, so that every page of
\* the batch falls back to one insertion per item, without the legacy fields
\* business_id and business_name.
InsertFromBatch(a) ==
    /\ InsertDoc(Number(a), Absent, "batch")
    /\ UNCHANGED <<fetching, cleaning, renumbered, failures, edits>>

\* Every field of an announcement is optional to an editor.
CreateAnnouncement(number, business) ==
    /\ InsertDoc(number, business, "editor")
    /\ UNCHANGED <<fetching, cleaning, renumbered, failures, edits>>

Position(d) == CHOOSE i \in DOMAIN byUpdate : byUpdate[i] = d
Without(d) == RemoveAt(byUpdate, Position(d))
Touch(d) == byUpdate' = Append(Without(d), d)
\* An edit replaces the embedded announcement_data as a whole, or leaves it:
\* a number or a business that it does not send is gone.
UpdateAnnouncement(d, number, business, active) ==
    /\ doc' = [doc EXCEPT ![d] = [@ EXCEPT !.number = number, !.business = business,
                                           !.active = active]]
    /\ IF active /\ business # Absent /\ (~doc[d].active \/ business # doc[d].business)
       THEN edits < MaxEdits /\ edits' = edits + 1
       ELSE UNCHANGED edits
    /\ renumbered' = IF number = doc[d].number THEN renumbered
                     ELSE renumbered \cup {number, doc[d].number}
    /\ Touch(d)
    /\ UNCHANGED <<usedDocs, fetching, cleaning, failures>>

DeleteAnnouncement(d) ==
    /\ doc' = [doc EXCEPT ![d].active = FALSE]
    /\ Touch(d)
    /\ UNCHANGED <<usedDocs, fetching, cleaning, renumbered, failures, edits>>

\* The aggregation groups by announcement_id; those without one are all one
\* group.  Of each group the document updated last is kept.
SameGroup(d, e) == doc[d].number = doc[e].number
OutdatedOrLast(d) ==   \* as if the slice kept nothing
    \E e \in Stored : SameGroup(d, e) /\ Position(d) <= Position(e)

Outdated(d) == \E e \in Stored : SameGroup(d, e) /\ Position(d) < Position(e)
\* A clean-up begins anew whatever is left of the last one, which may have
\* failed or died half-way.
FindDuplicates(c) ==
    /\ cleaning' = [cleaning EXCEPT ![c] = {d \in Stored : Outdated(d)}]
    /\ renumbered' = {}
    /\ UNCHANGED <<doc, byUpdate, usedDocs, fetching, failures, edits>>

\* The groups come in no particular order.
RemoveDuplicate(c, d) ==
    /\ d \in cleaning[c]
    /\ cleaning' = [cleaning EXCEPT ![c] = @ \ {d}]
    /\ doc' = [e \in Stored \ {d} |-> doc[e]]
    /\ byUpdate' = IF d \in Stored THEN Without(d) ELSE byUpdate
    /\ UNCHANGED <<usedDocs, fetching, renumbered, failures, edits>>

CollectionNext ==
    \/ \E f \in Fetchers :
         CheckDuplicate(f) \/ InsertFetched(f) \/ \E items \in ApiPages : FetchPage(f, items)
    \/ \E a \in Announcements : InsertFromBatch(a)
    \/ \E number \in Numbers, business \in Businesses :
         \/ CreateAnnouncement(number, business)
         \/ \E d \in Stored, active \in BOOLEAN : UpdateAnnouncement(d, number, business, active)
    \/ \E d \in Stored : DeleteAnnouncement(d)
    \/ \E c \in Cleaners : FindDuplicates(c) \/ \E d \in DocIds : RemoveDuplicate(c, d)
CollectionSpec == CollectionInit /\ [][CollectionNext]_collectionVars

-----------------------------------------------------------------------------
CollectionTypeOK ==
    /\ Stored \subseteq usedDocs /\ usedDocs \subseteq DocIds
    /\ \A d \in Stored :
         doc[d] \in [number : Numbers, business : Businesses, origin : Origins, active : BOOLEAN]
    /\ ToSet(byUpdate) = Stored /\ Len(byUpdate) = Cardinality(Stored)
    /\ DOMAIN fetching = Fetchers
    /\ cleaning \in [Cleaners -> SUBSET DocIds]
    /\ renumbered \subseteq Numbers
    /\ failures \in 0 .. MaxFailures /\ edits \in 0 .. MaxEdits

\* Fetching skips what is already there although check and insertion are two
\* calls: every second active copy it stored is accounted for by a fetch that
\* overlapped, a failed check or an editor who made a deleted copy active or
\* gave a copy of something else that business.
FetchedOnce ==
    \A a \in Announcements :
        Cardinality({d \in Matching(a) : doc[d].origin = "fetch"})
            <= Cardinality(Fetchers) + failures + edits

\* The clean-up, whatever is fetched, edited and deleted between its query
\* and its removals, never removes the last document with a number: that
\* takes an edit since the query which changed the number of a document that
\* had it or has it now.  One clean-up runs at a time: of two, with an edit
\* between their queries, each removes what the other keeps.
NumberedStay ==
    \A n \in Numbered :
        NumberedAs(n) # {} /\ NumberedAs(n)' = {} => n \in renumbered'
NumberedKept == [][NumberedStay]_collectionVars
=============================================================================
