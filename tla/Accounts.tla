------------------------------ MODULE Accounts ------------------------------
(***************************************************************************)
(* Accounts and their settings (domains/users).  A worker is a server      *)
(* process; an action is the code from one database round trip to the      *)
(* next, so that the check of a handler and its write are separate steps   *)
(* that other processes may come between.                                  *)
(***************************************************************************)
EXTENDS Naturals, FiniteSets

CONSTANTS
    Workers,        \* server processes
    Ids, NoId,      \* account ids (bounds the insertions) and none
    Emails,
    GoogleIds, NoGoogle,
    Parts,          \* parts of the settings: notifications, interests, location
    EmailIndexed,   \* the unique index on users.email could be created
    MaxFailures     \* database calls that may fail

ASSUME AccountsAssumption ==
    /\ NoId \notin Ids /\ NoGoogle \notin GoogleIds
    /\ MaxFailures \in Nat

VARIABLES
    users,          \* the collection users: id -> document
    usedIds,        \* ids ever inserted; an ObjectId is never used again
    settings,       \* the collection user_settings: id -> parts set by the user
    call,           \* per worker, the next step and its local variables
    answer,         \* per worker, the last answer, until its next call
    reported,       \* per identity, the e-mails Google gave for it (history)
    failures        \* failed database calls so far
accountVars == <<users, usedIds, settings, call, answer, reported, failures>>

Idle == [step |-> "idle"]
NoAnswer == [status |-> 0, before |-> {}, shown |-> {}]
Stored == DOMAIN users
UserDocs == [email : Emails, provider : {"local", "google"},
             external : GoogleIds \cup {NoGoogle}, name : {"own", "google"}]

AccountsInit ==
    /\ users = <<>> /\ usedIds = {} /\ settings = <<>>
    /\ call = [w \in Workers |-> Idle]
    /\ answer = [w \in Workers |-> NoAnswer]
    /\ reported = [g \in GoogleIds |-> {}]
    /\ failures = 0

WithEmail(e) == {u \in Stored : users[u].email = e}
WithGoogle(g) ==
    {u \in Stored : users[u].provider = "google" /\ users[u].external = g}
WithId(u) == Stored \cap {u}

Continue(w, c) ==
    /\ call' = [call EXCEPT ![w] = c]
    /\ answer' = [answer EXCEPT ![w] = NoAnswer]
Answer(w, a) ==
    /\ call' = [call EXCEPT ![w] = Idle]
    /\ answer' = [answer EXCEPT ![w] = a]
Reply(w, code) == Answer(w, [NoAnswer EXCEPT !.status = code])
NothingWritten == UNCHANGED <<users, usedIds, settings>>

\* A call fails: the repository catches it and reports None or False, whether
\* the database applied the write or not.
CallFails == failures < MaxFailures /\ failures' = failures + 1
WriteFails == CallFails /\ NothingWritten
OutcomeOr(w, code, failed) ==
    \/ UNCHANGED failures /\ Reply(w, code)
    \/ CallFails /\ Reply(w, failed)
Outcome(w, code) == OutcomeOr(w, code, 500)
Refused(w, code) == NothingWritten /\ UNCHANGED failures /\ Reply(w, code)

\* find_one over the documents matching: one of them, or None when there is
\* none or the call fails (the repository catches every exception).
Finds(u, matching) ==
    \/ u \in matching /\ UNCHANGED failures
    \/ u = NoId /\ matching = {} /\ UNCHANGED failures
    \/ u = NoId /\ matching # {} /\ CallFails

-----------------------------------------------------------------------------
(* Registration and log-in                                                 *)

Register(w, e) ==
    /\ call[w] = Idle
    /\ \E u \in Ids \cup {NoId} :
         /\ Finds(u, WithEmail(e))
         /\ IF u = NoId THEN Continue(w, [step |-> "insert_local", email |-> e])
                        ELSE Reply(w, 400)
    /\ NothingWritten

UncheckedEmail(e) == FALSE   \* as if the unique index were missing

\* insert_one against the unique index on email.
DuplicateEmail(e) == EmailIndexed /\ WithEmail(e) # {}
NewId == CHOOSE u \in Ids : u \notin usedIds
InsertUnderUsedId(doc) ==   \* as if an id could come back
    /\ Ids \ usedIds # {}
    /\ users' = [v \in Stored \cup {NewId} |-> IF v = NewId THEN doc ELSE users[v]]
    /\ UNCHANGED <<usedIds, settings>>

InsertUser(doc) ==
    /\ Ids \ usedIds # {}
    /\ users' = [v \in Stored \cup {NewId} |-> IF v = NewId THEN doc ELSE users[v]]
    /\ usedIds' = usedIds \cup {NewId}
    /\ UNCHANGED settings

CreateLocalUser(w) ==
    /\ call[w].step = "insert_local"
    /\ LET e == call[w].email IN
       \/ /\ ~DuplicateEmail(e)
          /\ InsertUser([email |-> e, provider |-> "local",
                         external |-> NoGoogle, name |-> "own"])
          /\ Outcome(w, 200)
       \/ DuplicateEmail(e) /\ Refused(w, 500)
       \/ WriteFails /\ Reply(w, 500)

Login(w, e, passwordRight) ==
    /\ call[w] = Idle
    /\ \E u \in Ids \cup {NoId} :
         /\ Finds(u, WithEmail(e))
         /\ IF u # NoId /\ passwordRight /\ users[u].provider = "local"
            THEN Reply(w, 200)
            ELSE Reply(w, 401)
    /\ NothingWritten

-----------------------------------------------------------------------------
(* Google log-in, after the code was exchanged for the identity g and the  *)
(* e-mail e; a person may change the e-mail of the identity                *)

GoogleByExternalId(w, g, e) ==
    /\ call[w] = Idle
    /\ reported' = [reported EXCEPT ![g] = @ \cup {e}]
    /\ \E u \in Ids \cup {NoId} :
         /\ Finds(u, WithGoogle(g))
         /\ IF u = NoId THEN Continue(w, [step |-> "by_email", google |-> g, email |-> e])
            ELSE IF users[u].name = "google" THEN Reply(w, 200)
            ELSE Continue(w, [step |-> "refresh_info", id |-> u])
    /\ NothingWritten

SetUser(u, field, value) ==
    /\ users' = IF u \in Stored THEN [users EXCEPT ![u][field] = value] ELSE users
    /\ UNCHANGED <<usedIds, settings>>

\* The name Google reports replaces the stored one.
UpdateGoogleUserInfo(w) ==
    /\ call[w].step = "refresh_info"
    /\ \/ /\ SetUser(call[w].id, "name", "google")
          /\ \/ UNCHANGED failures /\ Continue(w, [call[w] EXCEPT !.step = "reread"])
             \/ CallFails /\ Reply(w, 500)
       \/ WriteFails /\ Reply(w, 500)

GoogleByEmail(w) ==
    /\ call[w].step = "by_email"
    /\ \E u \in Ids \cup {NoId} :
         /\ Finds(u, WithEmail(call[w].email))
         /\ IF u # NoId /\ users[u].provider = "local"
            THEN Continue(w, [step |-> "link", google |-> call[w].google, id |-> u])
            ELSE Continue(w, [call[w] EXCEPT !.step = "insert_google"])
    /\ NothingWritten

LinkGoogleAccount(w) ==
    /\ call[w].step = "link"
    /\ \/ /\ call[w].id \in Stored
          /\ SetUser(call[w].id, "external", call[w].google)
          /\ \/ UNCHANGED failures /\ Continue(w, [call[w] EXCEPT !.step = "reread"])
             \/ CallFails /\ Reply(w, 500)
       \/ call[w].id \notin Stored /\ Refused(w, 500)
       \/ WriteFails /\ Reply(w, 500)

CreateGoogleUser(w) ==
    /\ call[w].step = "insert_google"
    /\ LET e == call[w].email IN
       \/ /\ ~DuplicateEmail(e)
          /\ InsertUser([email |-> e, provider |-> "google",
                         external |-> call[w].google, name |-> "google"])
          /\ Outcome(w, 200)
       \/ DuplicateEmail(e) /\ Refused(w, 500)
       \/ WriteFails /\ Reply(w, 500)

\* get_by_id before the tokens are issued: the account may be gone.
RereadUser(w) ==
    /\ call[w].step = "reread"
    /\ \E u \in Ids \cup {NoId} :
         /\ Finds(u, WithId(call[w].id))
         /\ IF u = NoId THEN Reply(w, 500)
                        ELSE Reply(w, 200)
    /\ NothingWritten

-----------------------------------------------------------------------------
(* Operations of a signed-in user: get_current_user, then the handler      *)

Handlers == {"profile", "unlink", "delete", "get_settings", "put_name", "put_settings"}
Puts == {"put_name", "put_settings"}

\* asked is what an update of the settings wants to set, with a name or
\* without; before is what the settings were when the call began (history,
\* for ReadsSinceTheCallBegan).
SetBefore(u) == IF u \in DOMAIN settings THEN settings[u] ELSE {}
GetCurrentUser(w, subject, op, asked) ==
    /\ call[w] = Idle
    /\ \E u \in Ids \cup {NoId} :
         /\ Finds(u, WithId(subject))
         /\ IF u = NoId THEN Reply(w, 401)
            ELSE IF op = "unlink" /\ users[u].external = NoGoogle THEN Reply(w, 400)
            ELSE Continue(w, [step |-> op, id |-> u, asked |-> asked,
                              before |-> SetBefore(u)])
    /\ NothingWritten

UpdateProfile(w) ==
    /\ call[w].step = "profile"
    /\ \/ /\ SetUser(call[w].id, "name", "own")
          /\ OutcomeOr(w, IF call[w].id \in Stored THEN 200 ELSE 404, 404)
       \/ WriteFails /\ Reply(w, 404)

\* Nothing to unlink any more counts as a failure.
Linked(u) == u \in Stored /\ users[u].external # NoGoogle
UnlinkGoogleAccount(w) ==
    /\ call[w].step = "unlink"
    /\ \/ /\ SetUser(call[w].id, "external", NoGoogle)
          /\ Outcome(w, IF Linked(call[w].id) THEN 200 ELSE 500)
       \/ WriteFails /\ Reply(w, 500)

Deleted(u) ==
    /\ users' = [v \in Stored \ {u} |-> users[v]]
    /\ UNCHANGED <<usedIds, settings>>

DeleteUser(w) ==
    /\ call[w].step = "delete"
    /\ \/ /\ Deleted(call[w].id)
          /\ Outcome(w, IF call[w].id \in Stored THEN 200 ELSE 500)
       \/ WriteFails /\ Reply(w, 500)

ReplacedParts(u, parts) ==   \* as if the document were replaced
    [v \in DOMAIN settings \cup {u} |-> IF v = u THEN parts ELSE settings[v]]

\* The name goes to the account first, whatever becomes of it; an update
\* that carries nothing else ends with a read.
UpdateName(w) ==
    /\ call[w].step = "put_name"
    /\ Continue(w, [call[w] EXCEPT
         !.step = IF call[w].asked = {} THEN "get_settings" ELSE "put_settings"])
    /\ \/ SetUser(call[w].id, "name", "own") /\ UNCHANGED failures
       \/ WriteFails

\* update_one with $set of the parts asked for, upsert.  A failure is caught
\* and the settings are read all the same.
StoredParts(u, parts) ==
    [v \in DOMAIN settings \cup {u} |-> IF v = u THEN SetBefore(u) \cup parts ELSE settings[v]]
UpsertSettings(w) ==
    /\ call[w].step = "put_settings"
    /\ Continue(w, [call[w] EXCEPT !.step = "get_settings"])
    /\ \/ /\ settings' = StoredParts(call[w].id, call[w].asked)
          /\ UNCHANGED <<users, usedIds, failures>>
       \/ WriteFails

Shown(w, parts) ==
    Answer(w, [status |-> 200, before |-> call[w].before, shown |-> parts])

FindSettings(w) ==
    /\ call[w].step = "get_settings"
    /\ \/ /\ call[w].id \in DOMAIN settings
          /\ Shown(w, settings[call[w].id]) /\ UNCHANGED failures
       \/ /\ call[w].id \notin DOMAIN settings
          /\ Continue(w, [call[w] EXCEPT !.step = "insert_defaults"]) /\ UNCHANGED failures
       \/ Shown(w, {}) /\ CallFails
    /\ NothingWritten

\* The unique index on user_id refuses the defaults when another process
\* was first; the caller is shown the defaults all the same.
InsertDefaultSettings(w) ==
    /\ call[w].step = "insert_defaults"
    /\ Shown(w, {})
    /\ \/ /\ settings' = IF call[w].id \in DOMAIN settings THEN settings
                         ELSE StoredParts(call[w].id, {})
          /\ UNCHANGED <<users, usedIds, failures>>
       \/ WriteFails

-----------------------------------------------------------------------------
Step(w) ==
    \/ \E g \in GoogleIds, e \in Emails : GoogleByExternalId(w, g, e)
    \/ /\ UNCHANGED reported
       /\ \/ \E e \in Emails : Register(w, e)
          \/ CreateLocalUser(w)
          \/ \E e \in Emails, right \in BOOLEAN : Login(w, e, right)
          \/ UpdateGoogleUserInfo(w)
          \/ GoogleByEmail(w)
          \/ LinkGoogleAccount(w)
          \/ CreateGoogleUser(w)
          \/ RereadUser(w)
          \/ \E u \in usedIds, op \in Handlers \ Puts : GetCurrentUser(w, u, op, {})
          \/ \E u \in usedIds : GetCurrentUser(w, u, "put_name", {})
          \/ \E u \in usedIds, op \in Puts, p \in Parts : GetCurrentUser(w, u, op, {p})
          \/ UpdateProfile(w)
          \/ UnlinkGoogleAccount(w)
          \/ DeleteUser(w)
          \/ UpdateName(w)
          \/ UpsertSettings(w)
          \/ FindSettings(w)
          \/ InsertDefaultSettings(w)

AccountsNext == \E w \in Workers : Step(w)
AccountsSpec == AccountsInit /\ [][AccountsNext]_accountVars

-----------------------------------------------------------------------------
AccountsTypeOK ==
    /\ Stored \subseteq usedIds /\ usedIds \subseteq Ids
    /\ \A u \in Stored : users[u] \in UserDocs
    /\ DOMAIN settings \subseteq usedIds
    /\ \A u \in DOMAIN settings : settings[u] \subseteq Parts
    /\ DOMAIN call = Workers /\ DOMAIN answer = Workers
    /\ reported \in [GoogleIds -> SUBSET Emails]
    /\ failures \in 0 .. MaxFailures

\* A person who signs in with Google reaches one account, however callbacks,
\* registrations and deletions of several processes interleave, unless the
\* e-mail of the Google identity changes: an identity has no more accounts
\* than Google gave e-mails for it.  (An account it was linked to stays a
\* local one, which is not found by the identity.)
AccountsOf(g) == {u \in Stored : users[u].external = g}
OneAccountPerIdentity ==
    \A g \in GoogleIds : Cardinality(AccountsOf(g)) <= Cardinality(reported[g])

\* What a user has set is not lost as long as the account stands: neither the
\* defaults a racing first read inserts nor an update of another part by
\* another process resets it.
NoSettingLost ==
    [][\A u \in DOMAIN settings \cap Stored' :
          u \in DOMAIN settings' /\ settings[u] \subseteq settings'[u]]_accountVars

\* While no database call fails, a read of the settings shows at least what
\* was stored when its call began, although a first read that lost the race
\* to insert is shown the defaults.
ReadsSinceTheCallBegan ==
    failures = 0 => \A w \in Workers :
        answer[w].before \subseteq answer[w].shown

\* Settings stay, in the database and in what is shown of them.
SettingsKept == NoSettingLost /\ []ReadsSinceTheCallBegan
=============================================================================
