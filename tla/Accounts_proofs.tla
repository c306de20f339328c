--------------------------- MODULE Accounts_proofs ---------------------------
(***************************************************************************)
(* Accounts, their settings and their log-ins with Google, for any number  *)
(* of processes and any number of failing calls: an identity has no more   *)
(* accounts than e-mails, settings stay, and a state of a log-in is of no  *)
(* use to a callback that comes after another was answered with it, and    *)
(* opens at most one log-in for each process, unless it was stored twice.  *)
(*                                                                         *)
(* None is inductive.  The accounts of an identity rest on the unique      *)
(* index and on what a log-in keeps between its steps: the account it is   *)
(* about to link has an e-mail Google gave for the identity, if it still   *)
(* exists, because an account keeps its e-mail and ids are not used again. *)
(* A read of settings must know that what was stored when its call began   *)
(* is still there, and that nothing was if it is about to insert the       *)
(* defaults.                                                               *)
(*                                                                         *)
(* Of a state that was not stored twice there is one copy, in Redis or in  *)
(* one memory, and while it is in a memory no callback holds it; one that  *)
(* was stored twice has one copy more.  The callbacks that hold a state    *)
(* are going to use it: what stays within the number of processes, and one *)
(* more for a state that was stored twice, is their number, the uses and   *)
(* the copy in memory together.                                            *)
(*                                                                         *)
(* What a user relies on between requests, for any number of processes and *)
(* clients: changed preferences stay, a logout and a rotation revoke what  *)
(* they say, and a refresh token is not exchanged without bound.           *)
(*                                                                         *)
(* The bound is not inductive.  A process that has verified a token may    *)
(* still exchange it, so it counts with the pairs already made from the    *)
(* token; and as long as the token is not revoked, every pair made from it *)
(* belongs to a process that has yet to revoke it, so that a process that  *)
(* verifies it now finds the sum below the number of processes.  An entry  *)
(* of the blacklist lives for the truncated seconds the token has left:    *)
(* until less than a second before the whole second of its exp claim.      *)
(***************************************************************************)
EXTENDS Accounts, OAuthState, TokenRotation, Preferences, FiniteSetTheorems, TLAPS

-----------------------------------------------------------------------------
(* Accounts and settings                                                   *)

\* What a worker keeps between two steps: the answer of a read, which the
\* database may have outrun.
Calls ==
    {Idle}
    \cup [step : {"insert_local"}, email : Emails]
    \cup {c \in [step : {"by_email", "insert_google"}, google : GoogleIds, email : Emails] :
              c.email \in reported[c.google]}
    \cup [step : {"refresh_info", "reread"}, id : usedIds]
    \cup [step : {"link", "reread"}, google : GoogleIds, id : usedIds]
    \cup [step : Handlers \cup {"insert_defaults"}, id : usedIds,
          asked : SUBSET Parts, before : SUBSET Parts]

UniqueEmails == \A u, v \in Stored : users[u].email = users[v].email => u = v
LinkedByEmail ==
    \A u \in Stored : users[u].external # NoGoogle => users[u].email \in reported[users[u].external]
LinksMatch ==
    \A w \in Workers : call[w].step = "link" /\ call[w].id \in Stored =>
        users[call[w].id].email \in reported[call[w].google]
BeforeIsKept ==
    \A w \in Workers : call[w].step \in Handlers \cup {"insert_defaults"} =>
        /\ call[w].before \subseteq SetBefore(call[w].id)
        /\ call[w].step = "insert_defaults" => call[w].before = {}

TypesInv ==
    /\ AccountsTypeOK /\ \A w \in Workers : call[w] \in Calls
    /\ \A g \in GoogleIds : IsFiniteSet(reported[g])
IdentityInv == UniqueEmails /\ LinkedByEmail /\ LinksMatch
SettingsInv == BeforeIsKept /\ ReadsSinceTheCallBegan

\* What find_one returns is a document of the collection.
LEMMA FoundAmong ==
    ASSUME TypesInv, NEW S \in SUBSET Stored, NEW u \in Ids \cup {NoId}, Finds(u, S)
    PROVE  /\ u # NoId => u \in S /\ u \in usedIds
           /\ failures' \in 0 .. MaxFailures
  BY AccountsAssumption DEF TypesInv, AccountsTypeOK, Finds, CallFails

\* What a step leaves in users, usedIds and settings, with their types.
Typed ==
    /\ Stored \subseteq usedIds /\ usedIds \subseteq Ids
    /\ \A u \in Stored : users[u] \in UserDocs
    /\ DOMAIN settings \subseteq usedIds
    /\ \A u \in DOMAIN settings : settings[u] \subseteq Parts

\* What Google reported stays reported.
Reports ==
    /\ reported' \in [GoogleIds -> SUBSET Emails]
    /\ \A g \in GoogleIds : reported[g] \subseteq reported'[g] /\ IsFiniteSet(reported'[g])

LEMMA Reporting ==
    ASSUME TypesInv, NEW g \in GoogleIds, NEW e \in Emails,
           reported' = [reported EXCEPT ![g] = @ \cup {e}]
    PROVE  Reports /\ e \in reported'[g]
<1>1. reported \in [GoogleIds -> SUBSET Emails] /\ \A h \in GoogleIds : IsFiniteSet(reported[h])
  BY DEF TypesInv, AccountsTypeOK
<1>2. IsFiniteSet(reported[g] \cup {e})
  BY <1>1, FS_AddElement
<1> QED
  BY <1>1, <1>2 DEF Reports

LEMMA Unreported == ASSUME TypesInv, UNCHANGED reported PROVE Reports
  BY DEF TypesInv, AccountsTypeOK, Reports

LEMMA CallsStay == ASSUME Reports, TypesInv, usedIds \subseteq usedIds' PROVE Calls \subseteq Calls'
  BY DEF Calls, Reports, TypesInv, AccountsTypeOK

LEMMA Unwritten == ASSUME TypesInv, NothingWritten PROVE Typed' /\ usedIds' = usedIds
  BY DEF TypesInv, AccountsTypeOK, NothingWritten, Typed, Stored

LEMMA NewIdIsNew ==
    ASSUME TypesInv, Ids \ usedIds # {} PROVE NewId \in Ids /\ NewId \notin usedIds
<1>1. \E u \in Ids : u \notin usedIds
  OBVIOUS
<1> QED
  BY <1>1 DEF NewId

\* A new document joins the others under an id of its own.
LEMMA Inserted ==
    ASSUME TypesInv, NEW doc \in UserDocs, InsertUser(doc)
    PROVE  Typed' /\ usedIds \subseteq usedIds'
<1>1. NewId \in Ids /\ NewId \notin usedIds
  BY NewIdIsNew DEF InsertUser
<1> DEFINE n == NewId
<1> HIDE DEF n
<1>2. /\ users' = [v \in Stored \cup {n} |-> IF v = n THEN doc ELSE users[v]]
      /\ usedIds' = usedIds \cup {n} /\ settings' = settings
  BY DEF InsertUser, n
<1> QED
  BY <1>1, <1>2 DEF TypesInv, AccountsTypeOK, Typed, Stored, n

\* A field that is set keeps the documents, and the other fields of theirs.
LEMMA FieldSet ==
    ASSUME TypesInv, NEW u, NEW field, NEW value, SetUser(u, field, value),
           \/ field = "name" /\ value \in {"own", "google"}
           \/ field = "external" /\ value \in GoogleIds \cup {NoGoogle}
    PROVE  /\ Typed' /\ usedIds' = usedIds /\ Stored' = Stored
           /\ \A v \in Stored : users'[v].email = users[v].email
           /\ \A v \in Stored : users'[v].external =
                IF v = u /\ field = "external" THEN value ELSE users[v].external
<1>1. usedIds' = usedIds /\ settings' = settings /\ Stored' = Stored
  BY DEF SetUser, Stored
<1>2. ASSUME NEW v \in Stored
      PROVE  /\ users'[v] \in UserDocs /\ users'[v].email = users[v].email
             /\ users'[v].external =
                  IF v = u /\ field = "external" THEN value ELSE users[v].external
  <2>1. users[v] \in UserDocs
    BY DEF TypesInv, AccountsTypeOK
  <2>2. users'[v] = IF v = u THEN [users[v] EXCEPT ![field] = value] ELSE users[v]
    BY <1>2 DEF SetUser, Stored
  <2> QED
    BY <2>1, <2>2 DEF UserDocs
<1> QED
  BY <1>1, <1>2 DEF TypesInv, AccountsTypeOK, Typed

\* $set of some parts keeps the others.
LEMMA PartsStored ==
    ASSUME TypesInv, NEW u \in usedIds, NEW parts \in SUBSET Parts,
           settings' = StoredParts(u, parts), UNCHANGED <<users, usedIds>>
    PROVE  /\ Typed' /\ usedIds' = usedIds
           /\ \A v : SetBefore(v) \subseteq SetBefore(v)'
           /\ DOMAIN settings \subseteq DOMAIN settings'
           /\ \A v \in DOMAIN settings : settings[v] \subseteq settings'[v]
<1>1. SetBefore(u) \in SUBSET Parts
  BY DEF SetBefore, TypesInv, AccountsTypeOK
<1>2. /\ DOMAIN settings' = DOMAIN settings \cup {u}
      /\ \A v \in DOMAIN settings \cup {u} :
            settings'[v] = IF v = u THEN SetBefore(u) \cup parts ELSE settings[v]
  BY DEF StoredParts
<1>3. \A v \in DOMAIN settings : settings[v] \subseteq settings'[v]
  BY <1>2 DEF SetBefore
<1>4. \A v : SetBefore(v) \subseteq SetBefore(v)'
  BY <1>2, <1>3 DEF SetBefore
<1> QED
  BY <1>1, <1>2, <1>3, <1>4 DEF TypesInv, AccountsTypeOK, Typed, Stored

\* A worker goes on with c, or answers a.
LEMMA Continues ==
    ASSUME TypesInv, NEW w \in Workers, NEW c, Continue(w, c), Typed', usedIds \subseteq usedIds',
           Reports, failures' \in 0 .. MaxFailures, c \in Calls'
    PROVE  TypesInv'
<1>1. \A v \in Workers : call'[v] = IF v = w THEN c ELSE call[v]
  BY DEF Continue, TypesInv, AccountsTypeOK
<1>2. Calls \subseteq Calls'
  BY CallsStay
<1> QED
  BY <1>1, <1>2 DEF TypesInv, AccountsTypeOK, Continue, Typed, Reports

LEMMA Answers ==
    ASSUME TypesInv, NEW w \in Workers, NEW a, Answer(w, a), Typed', usedIds \subseteq usedIds',
           Reports, failures' \in 0 .. MaxFailures
    PROVE  TypesInv'
<1>1. \A v \in Workers : call'[v] = IF v = w THEN Idle ELSE call[v]
  BY DEF Answer, TypesInv, AccountsTypeOK
<1>2. Calls \subseteq Calls' /\ Idle \in Calls'
  BY CallsStay DEF Calls
<1> QED
  BY <1>1, <1>2 DEF TypesInv, AccountsTypeOK, Answer, Typed, Reports

-----------------------------------------------------------------------------
\* What a step does to the collections,
Inserts ==
    \E doc \in UserDocs :
        /\ InsertUser(doc) /\ ~DuplicateEmail(doc.email)
        /\ doc.external # NoGoogle => doc.email \in reported[doc.external]
Links(w) ==
    /\ call[w].step = "link" /\ call[w].id \in Stored
    /\ SetUser(call[w].id, "external", call[w].google)
Sets ==
    \/ \E u \in Ids, name \in {"own", "google"} : SetUser(u, "name", name)
    \/ \E u \in Ids : SetUser(u, "external", NoGoogle)
Stores ==
    /\ \E u \in usedIds, parts \in SUBSET Parts : settings' = StoredParts(u, parts)
    /\ UNCHANGED <<users, usedIds>>
Writes(w) ==
    NothingWritten \/ Inserts \/ Links(w) \/ Sets \/ (\E u \in Ids : Deleted(u)) \/ Stores

\* and to its worker.
GoesOn(w) ==
    \E c \in Calls' :
        /\ Continue(w, c)
        /\ c.step = "link" => c.id \in Stored' /\ users'[c.id].email \in reported[c.google]
        /\ c.step \in Handlers \cup {"insert_defaults"} =>
             /\ c.before \subseteq SetBefore(c.id)'
             /\ c.step = "insert_defaults" => c.before = {}
LoginEnds(w) == \E a : Answer(w, a) /\ (failures' = 0 => a.before \subseteq a.shown)
Shape(w) ==
    /\ Writes(w) /\ Reports /\ (GoesOn(w) \/ LoginEnds(w))
    /\ failures' \in 0 .. MaxFailures /\ (failures' = 0 => failures = 0)

LEMMA RepliesEnd == ASSUME NEW w \in Workers, NEW code, Reply(w, code) PROVE LoginEnds(w)
  BY DEF Reply, LoginEnds, NoAnswer

LEMMA ReadsEmail == ASSUME NEW e PROVE WithEmail(e) \in SUBSET Stored
  BY DEF WithEmail
LEMMA ReadsGoogle == ASSUME NEW g PROVE WithGoogle(g) \in SUBSET Stored
  BY DEF WithGoogle
LEMMA ReadsId == ASSUME NEW u PROVE WithId(u) \in SUBSET Stored
  BY DEF WithId

\* Every step has this shape.
LEMMA StepShape ==
    ASSUME TypesInv, BeforeIsKept, NEW w \in Workers, Step(w), Reports
    PROVE  Shape(w)
<1>0. call[w] \in Calls /\ failures \in 0 .. MaxFailures /\ MaxFailures \in Nat
  BY AccountsAssumption DEF TypesInv, AccountsTypeOK
<1>n. ASSUME NEW u \in Ids \cup {NoId}, NEW S \in SUBSET Stored, Finds(u, S)
      PROVE  failures' \in 0 .. MaxFailures /\ (failures' = 0 => failures = 0)
  BY <1>n, <1>0, FoundAmong DEF Finds, CallFails
<1>c. /\ UNCHANGED failures => failures' \in 0 .. MaxFailures /\ (failures' = 0 => failures = 0)
      /\ CallFails => failures' \in 0 .. MaxFailures /\ failures' # 0
  BY <1>0 DEF CallFails
<1>1. ASSUME NEW e \in Emails, Register(w, e) PROVE Shape(w)
  <2>1. PICK u \in Ids \cup {NoId} :
          /\ Finds(u, WithEmail(e))
          /\ IF u = NoId THEN Continue(w, [step |-> "insert_local", email |-> e])
                         ELSE Reply(w, 400)
    BY <1>1 DEF Register
  <2>2. CASE u = NoId
    <3>1. [step |-> "insert_local", email |-> e] \in Calls'
      BY DEF Calls
    <3>2. GoesOn(w)
      BY <2>1, <2>2, <3>1 DEF GoesOn, Handlers
    <3> QED
      BY <2>1, <1>1, <1>n, <3>2, ReadsEmail DEF Shape, Writes, Register
  <2>3. CASE u # NoId
    BY <2>1, <2>3, <1>1, <1>n, ReadsEmail, RepliesEnd DEF Shape, Writes, Register
  <2> QED
    BY <2>2, <2>3
<1>2. CASE CreateLocalUser(w)
  <2> DEFINE e == call[w].email
             doc == [email |-> e, provider |-> "local", external |-> NoGoogle, name |-> "own"]
  <2>1. e \in Emails
    BY <1>2, <1>0 DEF CreateLocalUser, Calls, Idle, Handlers
  <2>2. doc \in UserDocs /\ doc.external = NoGoogle /\ doc.email = e
    BY <2>1 DEF UserDocs
  <2>3. CASE ~DuplicateEmail(e) /\ InsertUser(doc) /\ Outcome(w, 200)
    <3>1. Inserts
      BY <2>2, <2>3 DEF Inserts
    <3> QED
      BY <3>1, <2>3, <1>c, RepliesEnd DEF Shape, Writes, Outcome, OutcomeOr
  <2>4. CASE DuplicateEmail(e) /\ Refused(w, 500)
    BY <2>4, <1>c, RepliesEnd DEF Shape, Writes, Refused
  <2>5. CASE WriteFails /\ Reply(w, 500)
    BY <2>5, <1>c, RepliesEnd DEF Shape, Writes, WriteFails
  <2> QED
    BY <1>2, <2>3, <2>4, <2>5 DEF CreateLocalUser
<1>3. ASSUME NEW e \in Emails, NEW right \in BOOLEAN, Login(w, e, right) PROVE Shape(w)
  <2>1. PICK u \in Ids \cup {NoId} :
          Finds(u, WithEmail(e)) /\ (Reply(w, 200) \/ Reply(w, 401))
    BY <1>3 DEF Login
  <2> QED
    BY <2>1, <1>3, <1>n, ReadsEmail, RepliesEnd DEF Shape, Writes, Login
<1>4. ASSUME NEW g \in GoogleIds, NEW e \in Emails, GoogleByExternalId(w, g, e) PROVE Shape(w)
  <2>1. PICK u \in Ids \cup {NoId} :
          /\ Finds(u, WithGoogle(g))
          /\ \/ u = NoId /\ Continue(w, [step |-> "by_email", google |-> g, email |-> e])
             \/ Reply(w, 200)
             \/ u # NoId /\ Continue(w, [step |-> "refresh_info", id |-> u])
    BY <1>4 DEF GoogleByExternalId
  <2>2. u # NoId => u \in usedIds
    BY <2>1, FoundAmong, ReadsGoogle
  <2>3. usedIds' = usedIds /\ Writes(w) /\ e \in reported'[g]
    BY <1>4, Reporting DEF GoogleByExternalId, NothingWritten, Writes
  <2>4. [step |-> "by_email", google |-> g, email |-> e] \in Calls'
    BY <2>3 DEF Calls
  <2>5. u # NoId => [step |-> "refresh_info", id |-> u] \in Calls'
    BY <2>2, <2>3 DEF Calls
  <2>6. GoesOn(w) \/ LoginEnds(w)
    BY <2>1, <2>4, <2>5, RepliesEnd DEF GoesOn, Handlers
  <2> QED
    BY <2>1, <2>3, <2>6, <1>n, ReadsGoogle DEF Shape
<1>5. CASE UpdateGoogleUserInfo(w)
  <2> DEFINE c == [call[w] EXCEPT !.step = "reread"]
  <2>1. call[w] \in [step : {"refresh_info", "reread"}, id : usedIds]
    BY <1>5, <1>0 DEF UpdateGoogleUserInfo, Calls, Idle, Handlers
  <2>2. call[w].id \in Ids
    BY <2>1 DEF TypesInv, AccountsTypeOK
  <2>3. CASE SetUser(call[w].id, "name", "google")
    <3>1. usedIds' = usedIds /\ Writes(w)
      BY <2>2, <2>3 DEF SetUser, Writes, Sets
    <3>2. c \in Calls' /\ c.step = "reread"
      BY <2>1, <3>1 DEF Calls
    <3>3. Continue(w, c) => GoesOn(w)
      BY <3>2 DEF GoesOn, Handlers
    <3>4. CASE UNCHANGED failures /\ Continue(w, c)
      BY <3>4, <3>1, <3>3, <1>c DEF Shape
    <3>5. CASE CallFails /\ Reply(w, 500)
      BY <3>5, <3>1, <1>c, RepliesEnd DEF Shape
    <3>6. CASE WriteFails /\ Reply(w, 500)
      BY <3>6, <3>1, <1>c, RepliesEnd DEF Shape, WriteFails
    <3> QED
      BY <1>5, <3>4, <3>5, <3>6 DEF UpdateGoogleUserInfo
  <2>4. CASE WriteFails /\ Reply(w, 500)
    BY <2>4, <1>c, RepliesEnd DEF Shape, Writes, WriteFails
  <2> QED
    BY <1>5, <2>3, <2>4 DEF UpdateGoogleUserInfo
<1>6. CASE GoogleByEmail(w)
  <2> DEFINE g == call[w].google
             e == call[w].email
  <2>1. /\ call[w] \in [step : {"by_email", "insert_google"}, google : GoogleIds, email : Emails]
        /\ e \in reported[g]
    BY <1>6, <1>0 DEF GoogleByEmail, Calls, Idle, Handlers
  <2>2. PICK u \in Ids \cup {NoId} :
          /\ Finds(u, WithEmail(e))
          /\ \/ u # NoId /\ Continue(w, [step |-> "link", google |-> g, id |-> u])
             \/ Continue(w, [call[w] EXCEPT !.step = "insert_google"])
    BY <1>6 DEF GoogleByEmail
  <2>3. u # NoId => u \in usedIds /\ u \in Stored /\ users[u].email = e
    BY <2>2, FoundAmong, ReadsEmail DEF WithEmail
  <2>4. usedIds' = usedIds /\ users' = users /\ Stored' = Stored /\ Writes(w)
    BY <1>6 DEF GoogleByEmail, NothingWritten, Writes, Stored
  <2>5. CASE u # NoId /\ Continue(w, [step |-> "link", google |-> g, id |-> u])
    <3> DEFINE c == [step |-> "link", google |-> g, id |-> u]
    <3>1. c \in Calls' /\ c.step = "link" /\ c.id = u /\ c.google = g
      BY <2>1, <2>3, <2>4, <2>5 DEF Calls
    <3>2. c.id \in Stored' /\ users'[c.id].email \in reported[c.google]
      BY <2>1, <2>3, <2>4, <2>5
    <3>3. GoesOn(w)
      BY <3>1, <3>2, <2>5 DEF GoesOn, Handlers
    <3> QED
      BY <3>3, <2>2, <2>4, <1>n, ReadsEmail DEF Shape
  <2>6. CASE Continue(w, [call[w] EXCEPT !.step = "insert_google"])
    <3> DEFINE c == [call[w] EXCEPT !.step = "insert_google"]
    <3>1. c \in Calls' /\ c.step = "insert_google"
      <4>1. c \in [step : {"by_email", "insert_google"}, google : GoogleIds, email : Emails]
            /\ c.email = e /\ c.google = g /\ c.step = "insert_google"
        BY <2>1
      <4> QED
        BY <4>1, <2>1 DEF Calls, Reports
    <3>2. GoesOn(w)
      BY <3>1, <2>6 DEF GoesOn, Handlers
    <3> QED
      BY <3>2, <2>2, <2>4, <1>n, ReadsEmail DEF Shape
  <2> QED
    BY <2>2, <2>5, <2>6
<1>7. CASE LinkGoogleAccount(w)
  <2> DEFINE c == [call[w] EXCEPT !.step = "reread"]
  <2>1. call[w] \in [step : {"link", "reread"}, google : GoogleIds, id : usedIds]
    BY <1>7, <1>0 DEF LinkGoogleAccount, Calls, Idle, Handlers
  <2>2. CASE call[w].id \in Stored /\ SetUser(call[w].id, "external", call[w].google)
             /\ \/ UNCHANGED failures /\ Continue(w, c)
                \/ CallFails /\ Reply(w, 500)
    <3>1. usedIds' = usedIds /\ Writes(w)
      BY <1>7, <2>2 DEF SetUser, Writes, Links, LinkGoogleAccount
    <3>2. c \in Calls' /\ c.step = "reread"
      BY <2>1, <3>1 DEF Calls
    <3>3. Continue(w, c) => GoesOn(w)
      BY <3>2 DEF GoesOn, Handlers
    <3> QED
      BY <2>2, <3>1, <3>3, <1>c, RepliesEnd DEF Shape
  <2>3. CASE Refused(w, 500)
    BY <2>3, <1>c, RepliesEnd DEF Shape, Writes, Refused
  <2>4. CASE WriteFails /\ Reply(w, 500)
    BY <2>4, <1>c, RepliesEnd DEF Shape, Writes, WriteFails
  <2> QED
    BY <1>7, <2>2, <2>3, <2>4 DEF LinkGoogleAccount
<1>8. CASE CreateGoogleUser(w)
  <2> DEFINE g == call[w].google
             e == call[w].email
             doc == [email |-> e, provider |-> "google", external |-> g, name |-> "google"]
  <2>1. g \in GoogleIds /\ e \in Emails /\ e \in reported[g]
    BY <1>8, <1>0 DEF CreateGoogleUser, Calls, Idle, Handlers
  <2>2. doc \in UserDocs /\ doc.external = g /\ doc.email = e
    BY <2>1 DEF UserDocs
  <2>3. CASE ~DuplicateEmail(e) /\ InsertUser(doc) /\ Outcome(w, 200)
    <3>1. Inserts
      BY <2>1, <2>2, <2>3 DEF Inserts
    <3> QED
      BY <3>1, <2>3, <1>c, RepliesEnd DEF Shape, Writes, Outcome, OutcomeOr
  <2>4. CASE DuplicateEmail(e) /\ Refused(w, 500)
    BY <2>4, <1>c, RepliesEnd DEF Shape, Writes, Refused
  <2>5. CASE WriteFails /\ Reply(w, 500)
    BY <2>5, <1>c, RepliesEnd DEF Shape, Writes, WriteFails
  <2> QED
    BY <1>8, <2>3, <2>4, <2>5 DEF CreateGoogleUser
<1>9. CASE RereadUser(w)
  <2>1. PICK u \in Ids \cup {NoId} :
          Finds(u, WithId(call[w].id)) /\ (Reply(w, 500) \/ Reply(w, 200))
    BY <1>9 DEF RereadUser
  <2> QED
    BY <2>1, <1>9, <1>n, ReadsId, RepliesEnd DEF Shape, Writes, RereadUser
<1>10. ASSUME NEW s \in usedIds, NEW op \in Handlers, NEW asked \in SUBSET Parts,
              GetCurrentUser(w, s, op, asked)
       PROVE  Shape(w)
  <2>1. PICK u \in Ids \cup {NoId} :
          /\ Finds(u, WithId(s))
          /\ \/ Reply(w, 401) \/ Reply(w, 400)
             \/ u # NoId /\ Continue(w, [step |-> op, id |-> u, asked |-> asked,
                                         before |-> SetBefore(u)])
    BY <1>10 DEF GetCurrentUser
  <2>2. usedIds' = usedIds /\ settings' = settings /\ Writes(w)
    BY <1>10 DEF GetCurrentUser, NothingWritten, Writes
  <2>3. CASE u # NoId /\ Continue(w, [step |-> op, id |-> u, asked |-> asked,
                                      before |-> SetBefore(u)])
    <3> SUFFICES ASSUME NEW c,
                        c = [step |-> op, id |-> u, asked |-> asked, before |-> SetBefore(u)]
                 PROVE  Shape(w)
      OBVIOUS
    <3>1. u \in usedIds
      BY <2>1, <2>3, FoundAmong, ReadsId
    <3>2. SetBefore(u) \in SUBSET Parts /\ SetBefore(u)' = SetBefore(u)
      BY <2>2 DEF SetBefore, TypesInv, AccountsTypeOK
    <3>3. c \in Calls' /\ c.step = op /\ c.before = SetBefore(u) /\ c.id = u
      BY <2>2, <3>1, <3>2 DEF Calls
    <3>4. op # "link" /\ op # "insert_defaults"
      BY DEF Handlers
    <3>5. c.before \subseteq SetBefore(c.id)'
      BY <3>2, <3>3
    <3>6. GoesOn(w)
      BY <3>3, <3>4, <3>5, <2>3 DEF GoesOn
    <3> QED
      BY <3>6, <2>1, <2>2, <1>n, ReadsId DEF Shape
  <2> QED
    BY <2>1, <2>2, <2>3, <1>n, ReadsId, RepliesEnd DEF Shape
<1>h. ASSUME call[w].step \in Handlers \cup {"insert_defaults"}
      PROVE  /\ call[w] \in [step : Handlers \cup {"insert_defaults"}, id : usedIds,
                             asked : SUBSET Parts, before : SUBSET Parts]
             /\ call[w].id \in Ids
             /\ call[w].before \subseteq SetBefore(call[w].id)
             /\ call[w].step = "insert_defaults" => call[w].before = {}
  BY <1>h, <1>0 DEF Calls, Idle, Handlers, TypesInv, AccountsTypeOK, BeforeIsKept
<1>11. CASE UpdateProfile(w)
  <2>1. call[w].id \in Ids
    BY <1>11, <1>h DEF UpdateProfile, Handlers
  <2> QED
    BY <1>11, <2>1, <1>c, RepliesEnd DEF UpdateProfile, Shape, Writes, Sets, OutcomeOr, WriteFails
<1>12. CASE UnlinkGoogleAccount(w)
  <2>1. call[w].id \in Ids
    BY <1>12, <1>h DEF UnlinkGoogleAccount, Handlers
  <2> QED
    BY <1>12, <2>1, <1>c, RepliesEnd
       DEF UnlinkGoogleAccount, Shape, Writes, Sets, Outcome, OutcomeOr, WriteFails
<1>13. CASE DeleteUser(w)
  <2>1. call[w].id \in Ids
    BY <1>13, <1>h DEF DeleteUser, Handlers
  <2> QED
    BY <1>13, <2>1, <1>c, RepliesEnd DEF DeleteUser, Shape, Writes, Outcome, OutcomeOr, WriteFails
\* The handler of a call goes on with the same call, at another step.
<1>g. ASSUME NEW s \in {"get_settings", "put_settings", "insert_defaults"},
             call[w].step \in Handlers \cup {"insert_defaults"},
             Continue(w, [call[w] EXCEPT !.step = s]), usedIds' = usedIds,
             \A v : SetBefore(v) \subseteq SetBefore(v)',
             s = "insert_defaults" => call[w].before = {}
      PROVE  GoesOn(w)
  <2> SUFFICES ASSUME NEW c, c = [call[w] EXCEPT !.step = s] PROVE GoesOn(w)
    OBVIOUS
  <2>1. s \in Handlers \cup {"insert_defaults"} /\ s # "link"
    BY DEF Handlers
  <2>2. c \in Calls' /\ c.step = s /\ c.id = call[w].id /\ c.before = call[w].before
    BY <1>g, <1>h, <2>1 DEF Calls
  <2>3. c.before \subseteq SetBefore(c.id)
    BY <1>g, <1>h, <2>2
  <2>4. c.before \subseteq SetBefore(c.id)'
    BY <1>g, <2>3
  <2> QED
    BY <1>g, <2>1, <2>2, <2>4 DEF GoesOn
<1>14. CASE UpdateName(w)
  <2>1. PICK s \in {"get_settings", "put_settings"} : Continue(w, [call[w] EXCEPT !.step = s])
    BY <1>14 DEF UpdateName
  <2>2. /\ call[w].id \in Ids /\ call[w].step \in Handlers
        /\ usedIds' = usedIds /\ settings' = settings
    BY <1>14, <1>h DEF UpdateName, Handlers, SetUser, WriteFails, NothingWritten
  <2>3. \A v : SetBefore(v) \subseteq SetBefore(v)'
    BY <2>2 DEF SetBefore
  <2>4. GoesOn(w)
    BY <2>1, <2>2, <2>3, <1>g
  <2> QED
    BY <1>14, <2>2, <2>4, <1>c DEF UpdateName, Shape, Writes, Sets, WriteFails
<1>15. CASE UpsertSettings(w)
  <2>1. /\ call[w].id \in usedIds /\ call[w].asked \in SUBSET Parts
        /\ call[w].step \in Handlers /\ Continue(w, [call[w] EXCEPT !.step = "get_settings"])
    BY <1>15, <1>h DEF UpsertSettings, Handlers
  <2>2. CASE settings' = StoredParts(call[w].id, call[w].asked)
             /\ UNCHANGED <<users, usedIds, failures>>
    <3>1. usedIds' = usedIds /\ \A v : SetBefore(v) \subseteq SetBefore(v)'
      BY <2>1, <2>2, PartsStored
    <3>2. GoesOn(w)
      BY <2>1, <3>1, <1>g
    <3> QED
      BY <2>1, <2>2, <3>2, <1>c DEF Shape, Writes, Stores
  <2>3. CASE WriteFails
    <3>1. usedIds' = usedIds /\ \A v : SetBefore(v) \subseteq SetBefore(v)'
      BY <2>3 DEF WriteFails, NothingWritten, SetBefore
    <3>2. GoesOn(w)
      BY <2>1, <3>1, <1>g
    <3> QED
      BY <2>3, <3>2, <1>c DEF Shape, Writes, WriteFails
  <2> QED
    BY <1>15, <2>2, <2>3 DEF UpsertSettings
<1>s. ASSUME NEW parts, Shown(w, parts), failures' = 0 => call[w].before \subseteq parts
      PROVE  LoginEnds(w)
  BY <1>s DEF Shown, LoginEnds
<1>16. CASE FindSettings(w)
  <2>1. /\ call[w].step = "get_settings" /\ NothingWritten
        /\ usedIds' = usedIds /\ settings' = settings
        /\ call[w].before \subseteq SetBefore(call[w].id)
    BY <1>16, <1>h DEF FindSettings, NothingWritten, Handlers
  <2>2. CASE call[w].id \in DOMAIN settings /\ Shown(w, settings[call[w].id]) /\ UNCHANGED failures
    <3>1. call[w].before \subseteq settings[call[w].id]
      BY <2>1, <2>2 DEF SetBefore
    <3>2. LoginEnds(w)
      BY <2>2, <3>1, <1>s
    <3> QED
      BY <2>1, <2>2, <3>2, <1>c DEF Shape, Writes
  <2>3. CASE /\ call[w].id \notin DOMAIN settings /\ UNCHANGED failures
             /\ Continue(w, [call[w] EXCEPT !.step = "insert_defaults"])
    <3>1. call[w].before = {} /\ \A v : SetBefore(v) \subseteq SetBefore(v)'
      BY <2>1, <2>3 DEF SetBefore
    <3>2. call[w].step \in Handlers \cup {"insert_defaults"}
      BY <2>1 DEF Handlers
    <3>3. GoesOn(w)
      BY <2>1, <2>3, <3>1, <3>2, <1>g
    <3> QED
      BY <2>1, <2>3, <3>3, <1>c DEF Shape, Writes
  <2>4. CASE Shown(w, {}) /\ CallFails
    <3>1. LoginEnds(w)
      BY <2>4, <1>c, <1>s
    <3> QED
      BY <2>1, <2>4, <3>1, <1>c DEF Shape, Writes
  <2> QED
    BY <1>16, <2>2, <2>3, <2>4 DEF FindSettings
<1>17. CASE InsertDefaultSettings(w)
  <2>1. call[w].id \in usedIds /\ call[w].before = {} /\ Shown(w, {})
    BY <1>17, <1>h DEF InsertDefaultSettings, Handlers
  <2>2. LoginEnds(w)
    BY <2>1, <1>s
  <2>3. CASE /\ settings' = settings \/ settings' = StoredParts(call[w].id, {})
             /\ UNCHANGED <<users, usedIds, failures>>
    BY <2>1, <2>2, <2>3, <1>c DEF Shape, Writes, Stores, NothingWritten
  <2>4. CASE WriteFails
    BY <2>2, <2>4, <1>c DEF Shape, Writes, WriteFails
  <2> QED
    BY <1>17, <2>3, <2>4 DEF InsertDefaultSettings
<1>18. Puts \subseteq Handlers /\ {} \in SUBSET Parts /\ \A p \in Parts : {p} \in SUBSET Parts
  BY DEF Puts, Handlers
<1>19. ASSUME \E u \in usedIds :
               \/ \E op \in Handlers \ Puts : GetCurrentUser(w, u, op, {})
               \/ GetCurrentUser(w, u, "put_name", {})
               \/ \E op \in Puts, p \in Parts : GetCurrentUser(w, u, op, {p})
       PROVE  Shape(w)
  <2>1. "put_name" \in Handlers
    BY DEF Handlers
  <2> QED
    BY <1>19, <1>18, <1>10, <2>1
<1> QED
  BY <1>1, <1>2, <1>3, <1>4, <1>5, <1>6, <1>7, <1>8, <1>9, <1>11, <1>12, <1>13, <1>14,
     <1>15, <1>16, <1>17, <1>19 DEF Step

LEMMA StepReports == ASSUME TypesInv, NEW w \in Workers, Step(w) PROVE Reports
<1>1. ASSUME NEW g \in GoogleIds, NEW e \in Emails, GoogleByExternalId(w, g, e) PROVE Reports
  BY <1>1, Reporting DEF GoogleByExternalId
<1> QED
  BY <1>1, Unreported DEF Step

-----------------------------------------------------------------------------
\* The types.
LEMMA TypesStep == ASSUME TypesInv, NEW w \in Workers, Shape(w) PROVE TypesInv'
<1>1. Typed' /\ usedIds \subseteq usedIds'
  <2>1. CASE NothingWritten
    BY <2>1, Unwritten
  <2>2. CASE Inserts
    BY <2>2, Inserted DEF Inserts
  <2>3. CASE Links(w)
    <3>1. call[w].google \in GoogleIds
      BY <2>3 DEF Links, TypesInv, Calls, Idle, Handlers
    <3> QED
      BY <2>3, <3>1, FieldSet DEF Links
  <2>4. CASE Sets
    BY <2>4, FieldSet DEF Sets
  <2>5. ASSUME NEW u \in Ids, Deleted(u) PROVE Typed' /\ usedIds \subseteq usedIds'
    BY <2>5 DEF Deleted, TypesInv, AccountsTypeOK, Typed, Stored
  <2>6. CASE Stores
    BY <2>6, PartsStored DEF Stores
  <2> QED
    BY <2>1, <2>2, <2>3, <2>4, <2>5, <2>6 DEF Shape, Writes
<1>2. CASE GoesOn(w)
  BY <1>1, <1>2, Continues DEF GoesOn, Shape
<1>3. CASE LoginEnds(w)
  BY <1>1, <1>3, Answers DEF LoginEnds, Shape
<1> QED
  BY <1>2, <1>3 DEF Shape

\* Settings only grow.
LEMMA SettingsGrow ==
    ASSUME TypesInv, NEW w \in Workers, Writes(w)
    PROVE  /\ \A v : SetBefore(v) \subseteq SetBefore(v)'
           /\ \A v \in DOMAIN settings : v \in DOMAIN settings' /\ settings[v] \subseteq settings'[v]
<1>1. CASE settings' = settings
  BY <1>1 DEF SetBefore
<1>2. CASE Stores
  BY <1>2, PartsStored DEF Stores
<1> QED
  BY <1>1, <1>2 DEF Writes, NothingWritten, Inserts, InsertUser, Links, Sets, SetUser, Deleted

\* The settings, with what is read of them.
LEMMA SettingsStep ==
    ASSUME TypesInv, SettingsInv, NEW w \in Workers, Shape(w)
    PROVE  SettingsInv'
<1>1. \A v : SetBefore(v) \subseteq SetBefore(v)'
  BY SettingsGrow DEF Shape
<1>2. DOMAIN call = Workers /\ DOMAIN answer = Workers
  BY DEF TypesInv, AccountsTypeOK
<1>3. ASSUME NEW c, Continue(w, c) \/ (c = Idle /\ \E a : Answer(w, a))
      PROVE  call' = [call EXCEPT ![w] = c]
  BY <1>3 DEF Continue, Answer
<1>4. ASSUME NEW v \in Workers, v # w
      PROVE  call'[v] = call[v] /\ answer'[v] = answer[v]
  BY <1>2, <1>4 DEF Shape, GoesOn, LoginEnds, Continue, Answer
<1>5. CASE GoesOn(w)
  <2>1. PICK c \in Calls' :
          /\ Continue(w, c)
          /\ c.step \in Handlers \cup {"insert_defaults"} =>
               /\ c.before \subseteq SetBefore(c.id)'
               /\ c.step = "insert_defaults" => c.before = {}
    BY <1>5 DEF GoesOn
  <2>2. call'[w] = c /\ answer'[w] = NoAnswer
    BY <1>2, <2>1 DEF Continue
  <2>3. BeforeIsKept'
    <3> SUFFICES ASSUME NEW v \in Workers, NEW d, d = call'[v],
                        d.step \in Handlers \cup {"insert_defaults"}
                 PROVE  /\ d.before \subseteq SetBefore(d.id)'
                        /\ d.step = "insert_defaults" => d.before = {}
      BY DEF BeforeIsKept
    <3>1. CASE v = w
      BY <3>1, <2>1, <2>2
    <3>2. CASE v # w
      <4>1. /\ d.before \subseteq SetBefore(d.id)
            /\ d.step = "insert_defaults" => d.before = {}
        BY <3>2, <1>4 DEF SettingsInv, BeforeIsKept
      <4> QED
        BY <4>1, <1>1
    <3> QED
      BY <3>1, <3>2
  <2>4. ReadsSinceTheCallBegan'
    BY <1>4, <2>2 DEF SettingsInv, ReadsSinceTheCallBegan, NoAnswer, Shape
  <2> QED
    BY <2>3, <2>4 DEF SettingsInv
<1>6. CASE LoginEnds(w)
  <2>1. PICK a : Answer(w, a) /\ (failures' = 0 => a.before \subseteq a.shown)
    BY <1>6 DEF LoginEnds
  <2>2. call'[w] = Idle /\ answer'[w] = a
    BY <1>2, <2>1 DEF Answer
  <2>3. BeforeIsKept'
    <3> SUFFICES ASSUME NEW v \in Workers, NEW d, d = call'[v],
                        d.step \in Handlers \cup {"insert_defaults"}
                 PROVE  /\ d.before \subseteq SetBefore(d.id)'
                        /\ d.step = "insert_defaults" => d.before = {}
      BY DEF BeforeIsKept
    <3>1. v # w
      BY <2>2 DEF Idle, Handlers
    <3>2. /\ d.before \subseteq SetBefore(d.id)
          /\ d.step = "insert_defaults" => d.before = {}
      BY <3>1, <1>4 DEF SettingsInv, BeforeIsKept
    <3> QED
      BY <3>2, <1>1
  <2>4. ReadsSinceTheCallBegan'
    BY <1>4, <2>1, <2>2 DEF SettingsInv, ReadsSinceTheCallBegan, Shape
  <2> QED
    BY <2>3, <2>4 DEF SettingsInv
<1> QED
  BY <1>5, <1>6 DEF Shape

\* Accounts keep their e-mails, and get an identity only with its e-mail.
LEMMA IdentityStep ==
    ASSUME EmailIndexed, TypesInv, IdentityInv, NEW w \in Workers, Shape(w)
    PROVE  IdentityInv'
<1>1. DOMAIN call = Workers /\ \A v \in Workers : call[v] \in Calls
  BY DEF TypesInv, AccountsTypeOK
<1>2. ASSUME NEW v \in Workers, call'[v].step = "link", call'[v].id \in Stored'
      PROVE  \/ call'[v] = call[v]
             \/ users'[call'[v].id].email \in reported[call'[v].google] /\ call'[v].google \in GoogleIds
  BY <1>1, <1>2 DEF Shape, GoesOn, LoginEnds, Continue, Answer, Idle, Calls, Handlers
<1>3. ASSUME NEW v \in Workers, call[v].step = "link"
      PROVE  call[v].id \in usedIds /\ call[v].google \in GoogleIds
  BY <1>1, <1>3 DEF Calls, Idle, Handlers
<1>r. \A g \in GoogleIds : reported[g] \subseteq reported'[g]
  BY DEF Shape, Reports
<1>x. \A u \in Stored : users[u].external \in GoogleIds \cup {NoGoogle}
  BY DEF TypesInv, AccountsTypeOK, UserDocs
\* An account keeps its e-mail, and ids are not used again.
<1>4. ASSUME \A u \in Stored' : u \in Stored \/ u \notin usedIds,
             \A u \in Stored' \cap Stored : users'[u].email = users[u].email
      PROVE  LinksMatch'
  <2> SUFFICES ASSUME NEW v \in Workers, call'[v].step = "link", call'[v].id \in Stored'
               PROVE  users'[call'[v].id].email \in reported'[call'[v].google]
    BY DEF LinksMatch
  <2>1. CASE call'[v] = call[v]
    BY <1>3, <1>4, <1>r, <2>1 DEF IdentityInv, LinksMatch
  <2> QED
    BY <1>2, <1>r, <2>1
<1>5. CASE users' = users
  BY <1>4, <1>5, <1>r, <1>x DEF IdentityInv, UniqueEmails, LinkedByEmail, Stored
<1>6. CASE Inserts
  <2>1. PICK doc \in UserDocs :
          /\ InsertUser(doc) /\ WithEmail(doc.email) = {}
          /\ doc.external # NoGoogle => doc.email \in reported[doc.external]
    BY <1>6 DEF Inserts, DuplicateEmail
  <2> DEFINE n == NewId
  <2>2. n \in Ids /\ n \notin usedIds
    BY <2>1, NewIdIsNew DEF InsertUser
  <2> HIDE DEF n
  <2>3. /\ Stored' = Stored \cup {n} /\ users'[n] = doc
        /\ \A u \in Stored : users'[u] = users[u]
    BY <2>1, <2>2 DEF InsertUser, n, Stored, TypesInv, AccountsTypeOK
  <2>4. \A u \in Stored : users[u].email # doc.email
    BY <2>1 DEF WithEmail
  <2>5. UniqueEmails'
    BY <2>3, <2>4 DEF IdentityInv, UniqueEmails
  <2>6. LinkedByEmail'
    BY <1>r, <1>x, <2>1, <2>3 DEF IdentityInv, LinkedByEmail, UserDocs
  <2> QED
    BY <1>4, <2>2, <2>3, <2>5, <2>6 DEF IdentityInv
\* A write to one field of an account.
<1>7. ASSUME NEW u, NEW field, NEW value, SetUser(u, field, value),
             \/ field = "name" /\ value \in {"own", "google"}
             \/ field = "external" /\ value = NoGoogle
             \/ /\ field = "external" /\ value \in GoogleIds
                /\ u \in Stored => users[u].email \in reported[value]
      PROVE  IdentityInv'
  <2>1. /\ Stored' = Stored
        /\ \A v \in Stored : users'[v].email = users[v].email
        /\ \A v \in Stored : users'[v].external =
             IF v = u /\ field = "external" THEN value ELSE users[v].external
    BY <1>7, FieldSet
  <2>2. UniqueEmails'
    BY <2>1 DEF IdentityInv, UniqueEmails
  <2>3. LinkedByEmail'
    BY <1>7, <1>r, <1>x, <2>1 DEF IdentityInv, LinkedByEmail
  <2> QED
    BY <1>4, <2>1, <2>2, <2>3 DEF IdentityInv
<1>8. CASE Links(w)
  BY <1>3, <1>7, <1>8 DEF Links, IdentityInv, LinksMatch
<1>9. CASE Sets
  BY <1>7, <1>9 DEF Sets
<1>10. ASSUME NEW u \in Ids, Deleted(u) PROVE IdentityInv'
  <2>1. Stored' = Stored \ {u} /\ \A v \in Stored' : users'[v] = users[v]
    BY <1>10 DEF Deleted, Stored
  <2> QED
    BY <1>4, <1>r, <1>x, <2>1 DEF IdentityInv, UniqueEmails, LinkedByEmail
<1> QED
  BY <1>5, <1>6, <1>8, <1>9, <1>10 DEF Shape, Writes, NothingWritten, Stores

-----------------------------------------------------------------------------
AccountsInv == TypesInv /\ SettingsInv /\ (EmailIndexed => IdentityInv)

LEMMA InitAccounts == ASSUME AccountsInit PROVE AccountsInv
<1>1. Stored = {} /\ DOMAIN settings = {}
  BY DEF AccountsInit, Stored
<1>2. TypesInv
  BY <1>1, AccountsAssumption, FS_EmptySet DEF AccountsInit, TypesInv, AccountsTypeOK, Calls
<1>3. SettingsInv
  BY DEF AccountsInit, SettingsInv, BeforeIsKept, ReadsSinceTheCallBegan, Idle, Handlers, NoAnswer
<1>4. IdentityInv
  BY <1>1 DEF AccountsInit, IdentityInv, UniqueEmails, LinkedByEmail, LinksMatch
<1> QED
  BY <1>2, <1>3, <1>4 DEF AccountsInv

LEMMA NextAccounts ==
    ASSUME AccountsInv, [AccountsNext]_accountVars
    PROVE  /\ AccountsInv'
           /\ \A u \in DOMAIN settings : u \in DOMAIN settings' /\ settings[u] \subseteq settings'[u]
<1>1. ASSUME NEW w \in Workers, Step(w)
      PROVE  /\ AccountsInv'
             /\ \A u \in DOMAIN settings : u \in DOMAIN settings' /\ settings[u] \subseteq settings'[u]
  <2>1. Shape(w)
    BY <1>1, StepShape, StepReports DEF AccountsInv, SettingsInv
  <2>2. TypesInv'
    BY <2>1, TypesStep DEF AccountsInv
  <2>3. SettingsInv'
    BY <2>1, SettingsStep DEF AccountsInv
  <2>4. EmailIndexed => IdentityInv'
    BY <2>1, IdentityStep DEF AccountsInv
  <2> QED
    BY <2>1, <2>2, <2>3, <2>4, SettingsGrow DEF AccountsInv, Shape
<1>2. CASE UNCHANGED accountVars
  <2>1. TypesInv'
    BY <1>2 DEF AccountsInv, accountVars, TypesInv, AccountsTypeOK, Calls, Stored
  <2>2. SettingsInv'
    BY <1>2 DEF AccountsInv, accountVars, SettingsInv, BeforeIsKept, ReadsSinceTheCallBegan, SetBefore
  <2>3. IdentityInv => IdentityInv'
    BY <1>2 DEF accountVars, IdentityInv, UniqueEmails, LinkedByEmail, LinksMatch, Stored
  <2> QED
    BY <1>2, <2>1, <2>2, <2>3 DEF AccountsInv, accountVars
<1> QED
  BY <1>1, <1>2 DEF AccountsNext

\* The invariant of the accounts holds in every state.
THEOREM AccountsInvariant == AccountsSpec => []AccountsInv
  BY InitAccounts, NextAccounts, PTL DEF AccountsSpec

\* With the unique index on users.email, a Google identity is on no more
\* accounts than Google gave e-mails for it - on one, as long as the person
\* does not change the e-mail there - however callbacks, registrations and
\* deletions of any number of processes come between the look-ups and the
\* writes of a log-in.  The e-mail of an account tells which of those it is.
THEOREM IdentitiesReachOneAccount ==
    ASSUME EmailIndexed
    PROVE  AccountsSpec => []OneAccountPerIdentity
<1>1. ASSUME AccountsInv, NEW g \in GoogleIds
      PROVE  Cardinality(AccountsOf(g)) <= Cardinality(reported[g])
  <2>1. UniqueEmails /\ LinkedByEmail /\ g # NoGoogle /\ IsFiniteSet(reported[g])
    BY <1>1, AccountsAssumption DEF AccountsInv, IdentityInv, TypesInv
  <2> DEFINE f == [u \in AccountsOf(g) |-> users[u].email]
  <2>2. f \in Injection(AccountsOf(g), reported[g])
    BY <2>1 DEF Injection, IsInjective, AccountsOf, UniqueEmails, LinkedByEmail
  <2> QED
    BY <2>1, <2>2, FS_Injection
<1>2. AccountsInv => OneAccountPerIdentity
  BY <1>1 DEF OneAccountPerIdentity
<1> QED
  BY <1>2, AccountsInvariant, PTL

\* No step of any process takes back a setting, and while no database call
\* fails a read shows what was stored when its call began, although a first
\* read that lost the race to insert the defaults is shown the defaults.
THEOREM SettingsAreKept == AccountsSpec => SettingsKept
<1>1. AccountsInv => ReadsSinceTheCallBegan
  BY DEF AccountsInv, SettingsInv
<1>2. AccountsInv /\ [AccountsNext]_accountVars =>
        [\A u \in DOMAIN settings \cap Stored' :
            u \in DOMAIN settings' /\ settings[u] \subseteq settings'[u]]_accountVars
  BY NextAccounts
<1> QED
  BY <1>1, <1>2, AccountsInvariant, PTL DEF AccountsSpec, SettingsKept, NoSettingLost

-----------------------------------------------------------------------------
(* States of Google log-ins                                                *)

Holds(p, s) == callback[p].step = "delete" /\ callback[p].state = s
Holding(s) == {p \in Processes : Holds(p, s)}
\* What a state has of copies in memory, and beyond the one it should have.
InMemory(s) == \E p \in Processes : s \in inMemory[p]
Room(s) == IF InMemory(s) THEN 1 ELSE 0
Spare(s) == IF s \in twice THEN 1 ELSE 0

OneMemory == \A s \in States : \A p, q \in Processes :
    s \in inMemory[p] /\ s \in inMemory[q] => p = q
UsedIsSpent == \A s \in States : uses[s] # 0 <=> s \in spent
RedisCopy == \A s \in States : s \in inRedis => uses[s] + Room(s) <= Spare(s)
MemoryCopy == \A s \in States : s \notin twice /\ InMemory(s) =>
    uses[s] = 0 /\ s \notin inRedis /\ \A p \in Processes : ~Holds(p, s)
LateTwice == \A p \in Processes :
    callback[p] # NoCallback /\ callback[p].late => callback[p].state \in twice
UsesAndHolds == \A s \in States :
    uses[s] + Cardinality(Holding(s)) + Room(s) <= Cardinality(Processes) + Spare(s)

OAuthInv ==
    /\ OAuthTypeOK /\ OneMemory /\ UsedIsSpent /\ RedisCopy /\ MemoryCopy /\ LateTwice
    /\ UsesAndHolds

-----------------------------------------------------------------------------

\* The callbacks that hold a state are counted.
LEMMA Counted ==
    ASSUME NEW s
    PROVE  /\ Holding(s) \subseteq Processes /\ IsFiniteSet(Holding(s))
           /\ Cardinality(Holding(s)) \in Nat /\ Cardinality(Processes) \in Nat
           /\ Cardinality(Holding(s)) <= Cardinality(Processes)
<1>1. Holding(s) \subseteq Processes
  BY DEF Holding
<1> QED
  BY <1>1, OAuthAssumption, FS_Subset, FS_CardinalityType

\* A finite set without one of its elements is one smaller.
LEMMA OneFewer ==
    ASSUME NEW S, IsFiniteSet(S), NEW x \in S
    PROVE  /\ Cardinality(S \ {x}) \in Nat /\ Cardinality(S) \in Nat
           /\ Cardinality(S \ {x}) + 1 = Cardinality(S)
<1>1. IsFiniteSet(S \ {x}) /\ Cardinality(S \ {x}) = Cardinality(S) - 1
  BY FS_RemoveElement
<1>2. Cardinality(S) \in Nat /\ Cardinality(S \ {x}) \in Nat
  BY <1>1, FS_CardinalityType
<1> QED
  BY <1>1, <1>2

\* A callback that lets a state go is one fewer, and none is more.
LEMMA LetGo ==
    ASSUME NEW p \in Processes, callback' = [callback EXCEPT ![p] = NoCallback],
           DOMAIN callback = Processes, NEW s
    PROVE  /\ Cardinality(Holding(s)') \in Nat
           /\ Cardinality(Holding(s)') <= Cardinality(Holding(s))
           /\ Holds(p, s) => Cardinality(Holding(s)') + 1 = Cardinality(Holding(s))
<1>1. Holding(s)' = Holding(s) \ {p}
  BY DEF Holding, Holds, NoCallback
<1>2. IsFiniteSet(Holding(s)) /\ Cardinality(Holding(s)) \in Nat
  BY Counted
<1>3. CASE p \in Holding(s)
  <2>1. /\ Cardinality(Holding(s) \ {p}) \in Nat
        /\ Cardinality(Holding(s) \ {p}) + 1 = Cardinality(Holding(s))
    BY <1>2, <1>3, OneFewer
  <2> QED
    BY <1>1, <1>2, <2>1
<1>4. CASE p \notin Holding(s)
  <2>1. Holding(s)' = Holding(s) /\ ~Holds(p, s)
    BY <1>1, <1>4 DEF Holding
  <2> QED
    BY <1>2, <2>1
<1> QED
  BY <1>3, <1>4

\* A callback that got the state from Redis is one more that holds it, and
\* with those before it still one of the processes.
LEMMA TakesHold ==
    ASSUME NEW p \in Processes, callback[p] = NoCallback, DOMAIN callback = Processes,
           NEW t, NEW l, callback' = [callback EXCEPT ![p] =
                                         [step |-> "delete", state |-> t, late |-> l]],
           NEW s
    PROVE  /\ Cardinality(Holding(s)') \in Nat
           /\ Cardinality(Holding(s)') <= Cardinality(Processes)
           /\ s # t => Cardinality(Holding(s)') = Cardinality(Holding(s))
<1>1. Holding(s)' \subseteq Processes
  BY DEF Holding
<1>2. Cardinality(Holding(s)') \in Nat /\ Cardinality(Holding(s)') <= Cardinality(Processes)
  BY <1>1, OAuthAssumption, FS_Subset, FS_CardinalityType
<1>3. ASSUME s # t PROVE Holding(s)' = Holding(s)
  BY <1>3 DEF Holding, Holds, NoCallback
<1> QED
  BY <1>2, <1>3

\* The numbers of one state.
LEMMA Numbers ==
    ASSUME OAuthInv, NEW s \in States
    PROVE  /\ uses[s] \in Nat /\ Room(s) \in {0, 1} /\ Spare(s) \in {0, 1}
           /\ Cardinality(Holding(s)) \in Nat /\ Cardinality(Processes) \in Nat
           /\ s \in inRedis => uses[s] + Room(s) <= Spare(s)
           /\ uses[s] + Cardinality(Holding(s)) + Room(s) <= Cardinality(Processes) + Spare(s)
<1>1. uses[s] \in Nat /\ Room(s) \in {0, 1} /\ Spare(s) \in {0, 1}
  BY DEF OAuthInv, OAuthTypeOK, Room, Spare
<1>2. /\ s \in inRedis => uses[s] + Room(s) <= Spare(s)
      /\ uses[s] + Cardinality(Holding(s)) + Room(s) <= Cardinality(Processes) + Spare(s)
  BY DEF OAuthInv, RedisCopy, UsesAndHolds
<1> QED
  BY <1>1, <1>2, Counted

\* Initially nothing is kept, held or used.
LEMMA InitOAuth == ASSUME OAuthInit PROVE OAuthInv
<1>1. /\ OAuthTypeOK /\ OneMemory /\ UsedIsSpent /\ RedisCopy /\ MemoryCopy /\ LateTwice
      /\ \A s \in States : uses[s] = 0 /\ Room(s) = 0 /\ Spare(s) = 0
  BY DEF OAuthInit, OAuthTypeOK, OneMemory, UsedIsSpent, RedisCopy, MemoryCopy, LateTwice, InMemory,
     Room, Spare, NoCallback
<1>2. ASSUME NEW s \in States
      PROVE  uses[s] + Cardinality(Holding(s)) + Room(s) <= Cardinality(Processes) + Spare(s)
  <2>1. uses[s] = 0 /\ Room(s) = 0 /\ Spare(s) = 0
    BY <1>1
  <2> QED
    BY <2>1, Counted
<1> QED
  BY <1>1, <1>2 DEF OAuthInv, UsesAndHolds

\* Handing out a new state: nobody kept, held or used it.
LEMMA LoginStep ==
    ASSUME OAuthInv, NEW p \in Processes, NEW s \in States, GoogleLogin(p, s)
    PROVE  OAuthInv'
<1>1. /\ OAuthTypeOK /\ s \notin stored /\ stored' = stored \cup {s} /\ StoreState(p, s)
      /\ UNCHANGED <<redisAnswers, spent, uses, callback>>
  BY DEF OAuthInv, GoogleLogin, AuthorizationUrl
<1>2. /\ s \notin spent /\ s \notin inRedis /\ s \notin twice /\ ~InMemory(s) /\ uses[s] = 0
      /\ \A q \in Processes : ~Holds(q, s)
  BY <1>1 DEF OAuthInv, OAuthTypeOK, UsedIsSpent, InMemory, Holds, NoCallback
<1>3. /\ inRedis' \in {inRedis, inRedis \cup {s}} /\ twice' \in {twice, twice \cup {s}}
      /\ inMemory' \in {inMemory, [inMemory EXCEPT ![p] = @ \cup {s}]}
      /\ s \in inRedis' /\ inMemory' # inMemory => s \in twice'
      /\ s \in twice' => inMemory' # inMemory
  BY <1>1, <1>2 DEF StoreState, OAuthTypeOK, InMemory
<1>4. OAuthTypeOK'
  BY <1>1, <1>3 DEF OAuthTypeOK
<1>5. \A t \in States : t # s =>
        /\ t \in inRedis' <=> t \in inRedis
        /\ t \in twice' <=> t \in twice
        /\ \A q \in Processes : t \in inMemory'[q] <=> t \in inMemory[q]
  BY <1>1, <1>3 DEF OAuthTypeOK
<1>6. /\ \A q \in Processes : s \in inMemory'[q] => q = p /\ inMemory' # inMemory
      /\ Holding(s) = {}
  BY <1>1, <1>2, <1>3 DEF OAuthTypeOK, InMemory, Holding
<1>7. OneMemory'
  BY <1>1, <1>5, <1>6 DEF OAuthInv, OneMemory
<1>8. UsedIsSpent' /\ LateTwice'
  BY <1>1, <1>3 DEF OAuthInv, UsedIsSpent, LateTwice
<1>9. ASSUME NEW t \in States
      PROVE  /\ t \in inRedis' => uses'[t] + Room(t)' <= Spare(t)'
             /\ t \notin twice' /\ InMemory(t)' =>
                  uses'[t] = 0 /\ t \notin inRedis' /\ \A q \in Processes : ~Holds(q, t)'
             /\ uses'[t] + Cardinality(Holding(t)') + Room(t)' <= Cardinality(Processes) + Spare(t)'
  <2>1. Holding(t)' = Holding(t) /\ uses'[t] = uses[t] /\ \A q \in Processes : Holds(q, t)' = Holds(q, t)
    BY <1>1 DEF Holding, Holds
  <2>2. CASE t # s
    <3>1. Room(t)' = Room(t) /\ Spare(t)' = Spare(t) /\ (InMemory(t)' <=> InMemory(t))
      BY <1>5, <2>2 DEF Room, Spare, InMemory
    <3>2. MemoryCopy
      BY DEF OAuthInv
    <3> QED
      BY <1>5, <2>1, <2>2, <3>1, <3>2, Numbers DEF MemoryCopy
  <2>3. CASE t = s
    <3>1. /\ uses'[t] = 0 /\ Cardinality(Holding(t)') = 0 /\ \A q \in Processes : ~Holds(q, t)'
      BY <1>2, <1>6, <2>1, <2>3, FS_EmptySet
    <3>2. Cardinality(Processes) \in Nat /\ Cardinality(Processes) # 0
      BY OAuthAssumption, FS_EmptySet, FS_CardinalityType
    <3>3. /\ Room(t)' \in {0, 1} /\ Spare(t)' \in {0, 1}
          /\ Room(t)' = 1 => inMemory' # inMemory
          /\ InMemory(t)' => inMemory' # inMemory
          /\ t \in twice' => Spare(t)' = 1
      BY <1>6, <2>3 DEF Room, Spare, InMemory
    <3>4. t \in inRedis' => uses'[t] + Room(t)' <= Spare(t)'
      BY <1>3, <2>3, <3>1, <3>3
    <3>5. t \notin twice' /\ InMemory(t)' => t \notin inRedis'
      BY <1>3, <2>3, <3>3
    <3> QED
      BY <3>1, <3>2, <3>3, <3>4, <3>5
  <2> QED
    BY <2>2, <2>3
<1> QED
  BY <1>4, <1>7, <1>8, <1>9 DEF OAuthInv, RedisCopy, MemoryCopy, UsesAndHolds

\* The callback reads the state from Redis: nobody was answered with it yet,
\* or it was stored twice and the one answered took it from memory.
LEMMA ReadStep ==
    ASSUME OAuthInv, NEW p \in Processes, NEW s \in States, GetState(p, s),
           redisAnswers /\ s \in inRedis
    PROVE  OAuthInv'
<1> DEFINE late == s \in spent
<1>1. /\ callback[p] = NoCallback
      /\ callback' = [callback EXCEPT ![p] = [step |-> "delete", state |-> s, late |-> late]]
      /\ UNCHANGED <<stored, inRedis, twice, redisAnswers, inMemory, spent, uses>>
  BY DEF GetState
<1>2. OAuthTypeOK /\ s \in stored /\ late \in BOOLEAN
  BY DEF OAuthInv, OAuthTypeOK
<1>3. /\ late => s \in twice
      /\ s \in twice \/ ~InMemory(s)
  <2>1. uses[s] + Room(s) <= Spare(s) /\ uses[s] \in Nat /\ Room(s) \in {0, 1}
    BY Numbers
  <2>2. uses[s] # 0 <=> s \in spent
    BY DEF OAuthInv, UsedIsSpent
  <2>3. (s \notin twice => Spare(s) = 0) /\ (InMemory(s) => Room(s) = 1)
    BY DEF Spare, Room
  <2> QED
    BY <2>1, <2>2, <2>3
<1> HIDE DEF late
<1>4. OAuthTypeOK'
  <2> DEFINE next == [step |-> "delete", state |-> s, late |-> late]
  <2>1. next \in [step : {"delete"}, state : stored, late : BOOLEAN]
    BY <1>2
  <2> HIDE DEF next
  <2>2. callback' = [callback EXCEPT ![p] = next]
    BY <1>1 DEF next
  <2> QED
    BY <1>1, <1>2, <2>1, <2>2 DEF OAuthTypeOK
<1>5. OneMemory' /\ UsedIsSpent' /\ \A t \in States : Room(t)' = Room(t) /\ Spare(t)' = Spare(t)
  BY <1>1 DEF OAuthInv, OneMemory, UsedIsSpent, Room, InMemory, Spare
<1>6. RedisCopy'
  BY <1>1, <1>5 DEF OAuthInv, RedisCopy
<1>7. \A q \in Processes : \A t \in States : Holds(q, t)' => Holds(q, t) \/ t = s
  BY <1>1, <1>2 DEF OAuthTypeOK, Holds
<1>8. MemoryCopy'
  BY <1>1, <1>3, <1>7 DEF OAuthInv, MemoryCopy, InMemory
<1>9. LateTwice'
  BY <1>1, <1>2, <1>3 DEF OAuthInv, OAuthTypeOK, LateTwice
<1>10. UsesAndHolds'
  <2> SUFFICES ASSUME NEW t \in States
               PROVE  uses[t] + Cardinality(Holding(t)') + Room(t) <= Cardinality(Processes) + Spare(t)
    BY <1>1, <1>5 DEF UsesAndHolds
  <2>1. DOMAIN callback = Processes
    BY <1>2 DEF OAuthTypeOK
  <2>2. /\ Cardinality(Holding(t)') \in Nat
        /\ Cardinality(Holding(t)') <= Cardinality(Processes)
        /\ t # s => Cardinality(Holding(t)') = Cardinality(Holding(t))
    BY <1>1, <2>1, TakesHold
  <2>3. CASE t = s
    <3>1. /\ uses[t] + Room(t) <= Spare(t) /\ uses[t] \in Nat /\ Room(t) \in {0, 1}
          /\ Spare(t) \in {0, 1} /\ Cardinality(Processes) \in Nat
      BY <2>3, Numbers
    <3> QED
      BY <2>2, <3>1
  <2>4. CASE t # s
    BY <2>2, <2>4, Numbers
  <2> QED
    BY <2>3, <2>4
<1> QED
  BY <1>4, <1>5, <1>6, <1>8, <1>9, <1>10 DEF OAuthInv

\* The callback takes the state from the memory of its process: the copy that
\* was there counts as the use that is made of it.
LEMMA PopStep ==
    ASSUME OAuthInv, NEW p \in Processes, NEW s \in States, s \in inMemory[p],
           FromMemory(p, s), inRedis' \subseteq inRedis, UNCHANGED <<stored, twice, redisAnswers>>
    PROVE  OAuthInv'
<1>1. /\ callback' = [callback EXCEPT ![p] = NoCallback] /\ spent' = spent \cup {s}
      /\ uses' = [uses EXCEPT ![s] = @ + 1]
      /\ inMemory' = [inMemory EXCEPT ![p] = @ \ {s}]
  BY DEF FromMemory, Accepts
<1>2. OAuthTypeOK /\ s \in stored /\ InMemory(s) /\ \A q \in Processes : s \in inMemory[q] => q = p
  BY DEF OAuthInv, OAuthTypeOK, OneMemory, InMemory
<1>3. /\ inMemory' \in [Processes -> SUBSET stored] /\ uses' \in [States -> Nat]
      /\ \A t \in States : uses'[t] = uses[t] + (IF t = s THEN 1 ELSE 0)
      /\ \A q \in Processes : inMemory'[q] = inMemory[q] \ {s}
  BY <1>1, <1>2 DEF OAuthTypeOK
<1>4. OAuthTypeOK'
  BY <1>1, <1>2, <1>3 DEF OAuthTypeOK
<1>5. OneMemory'
  BY <1>3 DEF OAuthInv, OneMemory
<1>6. UsedIsSpent' /\ LateTwice'
  <2>1. \A t \in States : uses[t] \in Nat
    BY <1>2 DEF OAuthTypeOK
  <2>2. UsedIsSpent'
    BY <1>1, <1>3, <2>1 DEF OAuthInv, UsedIsSpent
  <2>3. LateTwice'
    BY <1>1, <1>2 DEF OAuthInv, OAuthTypeOK, LateTwice
  <2> QED
    BY <2>2, <2>3
<1>7. \A q \in Processes : \A t : Holds(q, t)' => Holds(q, t)
  BY <1>1, <1>2 DEF OAuthTypeOK, Holds, NoCallback
<1>8. MemoryCopy'
  BY <1>3, <1>7 DEF OAuthInv, MemoryCopy, InMemory
<1>9. ASSUME NEW t \in States
      PROVE  /\ uses'[t] + Room(t)' = uses[t] + Room(t) /\ Spare(t)' = Spare(t)
             /\ Room(t)' \in {0, 1} /\ uses'[t] \in Nat
  <2>1. uses[t] \in Nat
    BY <1>2 DEF OAuthTypeOK
  <2>2. CASE t = s
    <3>1. Room(t) = 1 /\ Room(t)' = 0
      BY <1>2, <1>3, <2>2 DEF Room, InMemory
    <3> QED
      BY <1>3, <2>1, <2>2, <3>1 DEF Spare
  <2>3. CASE t # s
    <3>1. Room(t)' = Room(t)
      BY <1>3, <2>3 DEF Room, InMemory
    <3> QED
      BY <1>3, <2>1, <2>3, <3>1 DEF Spare, Room
  <2> QED
    BY <2>2, <2>3
<1>10. RedisCopy'
  BY <1>9 DEF OAuthInv, RedisCopy
<1>11. UsesAndHolds'
  <2> SUFFICES ASSUME NEW t \in States
               PROVE  uses'[t] + Cardinality(Holding(t)') + Room(t)' <= Cardinality(Processes) + Spare(t)'
    BY DEF UsesAndHolds
  <2>1. DOMAIN callback = Processes
    BY <1>2 DEF OAuthTypeOK
  <2>2. Cardinality(Holding(t)') \in Nat /\ Cardinality(Holding(t)') <= Cardinality(Holding(t))
    BY <1>1, <2>1, LetGo
  <2> QED
    BY <1>9, <2>2, Numbers
<1> QED
  BY <1>4, <1>5, <1>6, <1>8, <1>10, <1>11 DEF OAuthInv

\* A callback that lets its state go unused: an unknown one, one Redis could
\* not delete, or one whose process dies; or a copy that goes by itself.
LEMMA GiveUpStep ==
    ASSUME OAuthInv,
           \/ callback' = callback
           \/ \E p \in Processes : callback' = [callback EXCEPT ![p] = NoCallback],
           inRedis' \subseteq inRedis, inMemory' \in [Processes -> SUBSET stored],
           \A q \in Processes : inMemory'[q] \subseteq inMemory[q],
           redisAnswers' \in BOOLEAN, UNCHANGED <<stored, twice, spent, uses>>
    PROVE  OAuthInv'
<1>1. OAuthTypeOK /\ DOMAIN callback = Processes
  BY DEF OAuthInv, OAuthTypeOK
<1>2. OAuthTypeOK'
  BY <1>1 DEF OAuthTypeOK
<1>3. OneMemory' /\ UsedIsSpent' /\ LateTwice'
  BY <1>1 DEF OAuthInv, OneMemory, UsedIsSpent, LateTwice
<1>4. /\ \A q \in Processes : \A t : Holds(q, t)' => Holds(q, t)
      /\ \A t : InMemory(t)' => InMemory(t)
  BY <1>1 DEF Holds, NoCallback, InMemory
<1>5. MemoryCopy'
  BY <1>4 DEF OAuthInv, MemoryCopy
<1>6. ASSUME NEW t \in States
      PROVE  Room(t)' \in {0, 1} /\ Room(t)' <= Room(t) /\ Spare(t)' = Spare(t)
  BY <1>4 DEF Room, Spare
<1>7. RedisCopy'
  <2> SUFFICES ASSUME NEW t \in States, t \in inRedis PROVE uses[t] + Room(t)' <= Spare(t)
    BY <1>6 DEF RedisCopy
  <2> QED
    BY <1>6, Numbers
<1>8. UsesAndHolds'
  <2> SUFFICES ASSUME NEW t \in States
               PROVE  uses[t] + Cardinality(Holding(t)') + Room(t)' <= Cardinality(Processes) + Spare(t)
    BY <1>6 DEF UsesAndHolds
  <2>1. Cardinality(Holding(t)') \in Nat /\ Cardinality(Holding(t)') <= Cardinality(Holding(t))
    <3>1. CASE callback' = callback
      <4>1. Holding(t)' = Holding(t)
        BY <3>1 DEF Holding, Holds
      <4> QED
        BY <4>1, Counted
    <3>2. ASSUME NEW p \in Processes, callback' = [callback EXCEPT ![p] = NoCallback]
          PROVE  /\ Cardinality(Holding(t)') \in Nat
                 /\ Cardinality(Holding(t)') <= Cardinality(Holding(t))
      BY <1>1, <3>2, LetGo
    <3> QED
      BY <3>1, <3>2
  <2> QED
    BY <1>6, <2>1, Numbers
<1> QED
  BY <1>2, <1>3, <1>5, <1>7, <1>8 DEF OAuthInv

\* The callback deletes the state in Redis and is answered: a use instead of
\* a hold.
LEMMA AnswerStep ==
    ASSUME OAuthInv, NEW p \in Processes, NEW s \in States, Holds(p, s), Accepts(p, s),
           inRedis' = inRedis \ {s}, UNCHANGED <<stored, twice, redisAnswers, inMemory>>
    PROVE  OAuthInv'
<1>1. /\ callback' = [callback EXCEPT ![p] = NoCallback]
      /\ spent' = spent \cup {s} /\ uses' = [uses EXCEPT ![s] = @ + 1]
  BY DEF Accepts
<1>2. OAuthTypeOK /\ DOMAIN callback = Processes /\ s \in stored
  BY DEF OAuthInv, OAuthTypeOK, Holds, NoCallback
<1>3. /\ uses' \in [States -> Nat]
      /\ \A t \in States : uses'[t] = uses[t] + (IF t = s THEN 1 ELSE 0) /\ uses[t] \in Nat
  BY <1>1, <1>2 DEF OAuthTypeOK
<1>4. OAuthTypeOK'
  BY <1>1, <1>2, <1>3 DEF OAuthTypeOK
<1>5. OneMemory' /\ UsedIsSpent' /\ LateTwice'
  <2>1. OneMemory'
    BY DEF OAuthInv, OneMemory
  <2>2. UsedIsSpent'
    BY <1>1, <1>3 DEF OAuthInv, UsedIsSpent
  <2>3. LateTwice'
    BY <1>1, <1>2 DEF OAuthInv, LateTwice
  <2> QED
    BY <2>1, <2>2, <2>3
<1>6. /\ \A q \in Processes : \A t : Holds(q, t)' => Holds(q, t)
      /\ s \in twice \/ ~InMemory(s)
      /\ \A t : /\ InMemory(t)' <=> InMemory(t)
                /\ Room(t)' = Room(t) /\ Spare(t)' = Spare(t)
  BY <1>1, <1>2 DEF OAuthInv, MemoryCopy, Holds, NoCallback, InMemory, Room, Spare
<1>7. MemoryCopy'
  <2> SUFFICES ASSUME NEW t \in States, t \notin twice, InMemory(t)
               PROVE  uses'[t] = 0 /\ t \notin inRedis' /\ \A q \in Processes : ~Holds(q, t)'
    BY <1>6 DEF MemoryCopy
  <2> QED
    BY <1>3, <1>6 DEF OAuthInv, MemoryCopy
<1>8. RedisCopy'
  <2> SUFFICES ASSUME NEW t \in States, t \in inRedis, t # s PROVE uses'[t] + Room(t) <= Spare(t)
    BY <1>6 DEF RedisCopy
  <2> QED
    BY <1>3, Numbers
<1>9. UsesAndHolds'
  <2> SUFFICES ASSUME NEW t \in States
               PROVE  uses'[t] + Cardinality(Holding(t)') + Room(t) <= Cardinality(Processes) + Spare(t)
    BY <1>6 DEF UsesAndHolds
  <2>1. /\ Cardinality(Holding(t)') \in Nat
        /\ Cardinality(Holding(t)') <= Cardinality(Holding(t))
        /\ Holds(p, t) => Cardinality(Holding(t)') + 1 = Cardinality(Holding(t))
    BY <1>1, <1>2, LetGo
  <2>2. uses'[t] = uses[t] + (IF t = s THEN 1 ELSE 0)
    BY <1>3
  <2> QED
    BY <2>1, <2>2, Numbers
<1> QED
  BY <1>4, <1>5, <1>7, <1>8, <1>9 DEF OAuthInv

\* A copy goes by itself, or nothing does.
LEMMA Unheld ==
    ASSUME OAuthInv, OAuthTypeOK,
           RedisToggles \/ (UNCHANGED oauthVars) \/ \E s \in States : ExpireState(s)
    PROVE  OAuthInv'
<1>1. /\ callback' = callback /\ inRedis' \subseteq inRedis /\ redisAnswers' \in BOOLEAN
      /\ UNCHANGED <<stored, twice, spent, uses>>
      /\ inMemory' \in [Processes -> SUBSET stored]
      /\ \A q \in Processes : inMemory'[q] \subseteq inMemory[q]
  <2>1. CASE RedisToggles
    BY <2>1 DEF RedisToggles, OAuthTypeOK
  <2>2. CASE UNCHANGED oauthVars
    BY <2>2 DEF oauthVars, OAuthTypeOK
  <2>3. CASE \E s \in States : ExpireState(s)
    <3>1. PICK s \in States : ExpireState(s)
      BY <2>3
    <3> QED
      BY <3>1 DEF ExpireState, OAuthTypeOK
  <2> QED
    BY <2>1, <2>2, <2>3
<1> QED
  BY <1>1, GiveUpStep

\* Every step keeps the invariant.
LEMMA NextOAuth == ASSUME OAuthInv, [OAuthNext]_oauthVars PROVE OAuthInv'
<1>1. OAuthTypeOK
  BY DEF OAuthInv
<1>2. ASSUME NEW p \in Processes, NEW s \in States, FromMemory(p, s), inRedis' \subseteq inRedis,
             UNCHANGED <<stored, twice, redisAnswers>>
      PROVE  OAuthInv'
  <2>1. CASE s \in inMemory[p]
    BY <1>2, <2>1, PopStep
  <2>2. CASE s \notin inMemory[p]
    <3>1. /\ callback' = [callback EXCEPT ![p] = NoCallback] /\ UNCHANGED <<spent, uses>>
          /\ inMemory' \in [Processes -> SUBSET stored] /\ redisAnswers' \in BOOLEAN
          /\ \A q \in Processes : inMemory'[q] \subseteq inMemory[q]
      BY <1>1, <1>2, <2>2 DEF FromMemory, OAuthTypeOK
    <3> QED
      BY <1>2, <3>1, GiveUpStep
  <2> QED
    BY <2>1, <2>2
<1>3. ASSUME NEW p \in Processes, NEW s \in States, GoogleLogin(p, s) PROVE OAuthInv'
  BY <1>3, LoginStep
<1>4. ASSUME NEW p \in Processes, NEW s \in States, GetState(p, s) PROVE OAuthInv'
  <2>1. CASE redisAnswers /\ s \in inRedis
    BY <1>4, <2>1, ReadStep
  <2>2. CASE ~(redisAnswers /\ s \in inRedis)
    <3>1. FromMemory(p, s) /\ inRedis' \subseteq inRedis /\ UNCHANGED <<stored, twice, redisAnswers>>
      BY <1>4, <2>2 DEF GetState
    <3> QED
      BY <1>2, <3>1
  <2> QED
    BY <2>1, <2>2
<1>5. ASSUME NEW p \in Processes, DeleteState(p) PROVE OAuthInv'
  <2> DEFINE s == callback[p].state
  <2>1. Holds(p, s) /\ s \in States
    BY <1>1, <1>5 DEF DeleteState, Holds, OAuthTypeOK, NoCallback
  <2>2. CASE redisAnswers
    <3>1. Accepts(p, s) /\ inRedis' = inRedis \ {s} /\ UNCHANGED <<stored, twice, redisAnswers, inMemory>>
      BY <1>5, <2>2 DEF DeleteState
    <3> HIDE DEF s
    <3> QED
      BY <2>1, <3>1, AnswerStep
  <2>3. CASE ~redisAnswers
    <3>1. FromMemory(p, s) /\ inRedis' \subseteq inRedis /\ UNCHANGED <<stored, twice, redisAnswers>>
      BY <1>5, <2>3 DEF DeleteState
    <3> HIDE DEF s
    <3> QED
      BY <1>2, <2>1, <3>1
  <2> QED
    BY <2>2, <2>3
<1>6. ASSUME NEW p \in Processes, Restart(p) PROVE OAuthInv'
  <2>1. /\ callback' = [callback EXCEPT ![p] = NoCallback] /\ inRedis' \subseteq inRedis
        /\ UNCHANGED <<stored, twice, spent, uses>> /\ redisAnswers' \in BOOLEAN
        /\ inMemory' \in [Processes -> SUBSET stored]
        /\ \A q \in Processes : inMemory'[q] \subseteq inMemory[q]
    BY <1>1, <1>6 DEF Restart, OAuthTypeOK
  <2> QED
    BY <2>1, GiveUpStep
<1>7. ASSUME NEW s \in States, ExpireState(s) PROVE OAuthInv'
  BY <1>1, <1>7, Unheld
<1>8. CASE RedisToggles
  BY <1>1, <1>8, Unheld
<1>9. CASE UNCHANGED oauthVars
  BY <1>1, <1>9, Unheld
<1> QED
  BY <1>3, <1>4, <1>5, <1>6, <1>7, <1>8, <1>9 DEF OAuthNext

-----------------------------------------------------------------------------

\* The invariant holds in every state.
THEOREM OAuthInvariant == OAuthSpec => []OAuthInv
  BY InitOAuth, NextOAuth, PTL DEF OAuthSpec

\* Once a callback was answered with a state, it is nowhere to be found, and
\* no callback that began later has it, however Redis comes and goes between
\* the read and the delete of get_oauth_state; a state that was stored in
\* Redis and in memory has one copy left at most.
THEOREM NoLateUseHolds == OAuthSpec => []NoLateUse
<1>1. ASSUME OAuthInv PROVE NoLateUse
  <2>1. ASSUME NEW s \in spent, NEW p \in Processes
        PROVE  /\ s \in inRedis => s \in twice /\ s \notin inMemory[p]
               /\ s \in inMemory[p] => s \in twice
    <3>1. s \in States /\ uses[s] # 0
      BY <1>1, <2>1 DEF OAuthInv, OAuthTypeOK, UsedIsSpent
    <3>2. s \in inMemory[p] => s \in twice /\ Room(s) = 1
      BY <1>1, <3>1 DEF OAuthInv, MemoryCopy, InMemory, Room
    <3>3. /\ uses[s] \in Nat /\ Room(s) \in {0, 1} /\ Spare(s) \in {0, 1}
          /\ s \in inRedis => uses[s] + Room(s) <= Spare(s)
      BY <1>1, <3>1, Numbers
    <3>4. Spare(s) = 1 => s \in twice
      BY DEF Spare
    <3> QED
      BY <3>1, <3>2, <3>3, <3>4
  <2>2. \A p \in Processes : callback[p] # NoCallback /\ callback[p].late => callback[p].state \in twice
    BY <1>1 DEF OAuthInv, LateTwice
  <2> QED
    BY <2>1, <2>2 DEF NoLateUse
<1> QED
  BY <1>1, OAuthInvariant, PTL

\* The read and the delete are two calls, so overlapping callbacks may share
\* a state, but never more of them than there are processes, and one more if
\* it was stored in Redis and in memory.
THEOREM UsesBoundedHolds == OAuthSpec => []UsesBounded
<1>1. ASSUME OAuthInv PROVE UsesBounded
  <2> SUFFICES ASSUME NEW s \in States PROVE uses[s] <= Cardinality(Processes) + Spare(s)
    BY DEF UsesBounded, Spare
  <2> QED
    BY <1>1, Numbers
<1> QED
  BY <1>1, OAuthInvariant, PTL

-----------------------------------------------------------------------------
(* Preferences                                                             *)

Requests ==
    [step : {"idle", "insert_defaults", "insert_changed", "reread"},
     changes : SUBSET Fields, reset : BOOLEAN]
Replies ==
    [code : {0, 200, 404, 500}, changes : SUBSET Fields, shown : SUBSET Fields, reset : BOOLEAN]

\* What a request asks, and what a reply shows, is in the document.
Asks(x) ==
    /\ x \in Requests
    /\ x.step \in {"idle", "insert_defaults"} => x.changes = {}
    /\ x.step = "idle" => x = Quiet
    /\ x.step = "reread" /\ ~x.reset => Exists /\ \A p \in prefs : x.changes \subseteq p
Shows(y) ==
    /\ y \in Replies
    /\ y.code = 200 /\ ~y.reset => y.changes \subseteq y.shown

PrefsInv ==
    /\ prefs \subseteq SUBSET Fields /\ \A p, q \in prefs : p = q
    /\ asking \in [Clients -> Requests] /\ replied \in [Clients -> Replies]
    /\ \A c \in Clients : Asks(asking[c]) /\ Shows(replied[c])

LEMMA IdleAsks == Quiet \in Requests /\ Quiet.step = "idle" /\ Quiet.changes = {} /\ Quiet.reset = FALSE
  BY DEF Quiet, Requests

LEMMA NoReplyShows == NoReply \in Replies /\ NoReply.code = 0
  BY DEF NoReply, Replies

\* A reply ends a request.  The document only grows, if it is there.
LEMMA RepliesKeep ==
    ASSUME PrefsInv, NEW c \in Clients, NEW code \in {200, 404, 500}, NEW shown \in SUBSET Fields,
           Respond(c, code, shown),
           prefs' = prefs \/ (~Exists /\ prefs' = {{}}),
           code = 200 /\ ~asking[c].reset => asking[c].changes \subseteq shown
    PROVE  PrefsInv' /\ UpdatesStay
<1> DEFINE y == [code |-> code, changes |-> asking[c].changes, shown |-> shown,
                 reset |-> asking[c].reset]
<1>1. asking[c] \in Requests
  BY DEF PrefsInv
<1>2. y \in Replies /\ Shows(y)
  BY <1>1 DEF Requests, Replies, Shows
<1>3. /\ asking' \in [Clients -> Requests]
      /\ \A d \in Clients : asking'[d] = IF d = c THEN Quiet ELSE asking[d]
  BY IdleAsks DEF Respond, PrefsInv
<1>4. /\ replied' \in [Clients -> Replies]
      /\ \A d \in Clients : replied'[d] = IF d = c THEN y ELSE replied[d]
  BY <1>2 DEF Respond, PrefsInv
<1> HIDE DEF y
<1>5. prefs' \subseteq SUBSET Fields /\ \A p, q \in prefs' : p = q
  BY DEF PrefsInv
<1>6. \A d \in Clients : Asks(asking[d])'
  <2> TAKE d \in Clients
  <2>1. CASE d = c
    BY <1>3, <2>1, IdleAsks DEF Asks
  <2>2. CASE d # c
    BY <1>3, <2>2 DEF Asks, PrefsInv, Exists
  <2> QED
    BY <2>1, <2>2
<1>7. \A d \in Clients : Shows(replied[d])'
  BY <1>2, <1>4 DEF Shows, PrefsInv
<1>8. PrefsInv'
  BY <1>3, <1>4, <1>5, <1>6, <1>7 DEF PrefsInv
<1>9. UpdatesStay
  BY <1>7 DEF UpdatesStay, Shows, Exists
<1> QED
  BY <1>8, <1>9

\* A request goes on.
LEMMA ContinuesKeep ==
    ASSUME PrefsInv, NEW c \in Clients, NEW changes \in SUBSET Fields,
           NEW step \in {"insert_defaults", "insert_changed", "reread"},
           Proceed(c, step, changes),
           step = "insert_defaults" => changes = {},
           prefs' \subseteq SUBSET Fields, \A p, q \in prefs' : p = q,
           \A p \in prefs : \E q \in prefs' : p \subseteq q,
           step = "reread" => prefs' # {} /\ \A q \in prefs' : changes \subseteq q
    PROVE  PrefsInv' /\ UpdatesStay
<1> DEFINE x == [asking[c] EXCEPT !.step = step, !.changes = changes]
<1>1. asking[c] \in Requests
  BY DEF PrefsInv
<1>2. x \in Requests /\ x.step = step /\ x.changes = changes
  BY <1>1 DEF Requests
<1>3. /\ asking' \in [Clients -> Requests]
      /\ \A d \in Clients : asking'[d] = IF d = c THEN x ELSE asking[d]
  BY <1>2 DEF Proceed, PrefsInv
<1>4. /\ replied' \in [Clients -> Replies]
      /\ \A d \in Clients : replied'[d] = IF d = c THEN NoReply ELSE replied[d]
  BY NoReplyShows DEF Proceed, PrefsInv
<1> HIDE DEF x
<1>6. \A d \in Clients : Asks(asking[d])'
  <2> TAKE d \in Clients
  <2>1. CASE d = c
    BY <1>2, <1>3, <2>1 DEF Asks, Exists
  <2>2. CASE d # c
    <3>1. Asks(asking[d]) /\ asking'[d] = asking[d]
      BY <1>3, <2>2 DEF PrefsInv
    <3>2. ASSUME Exists, NEW S, \A p \in prefs : S \subseteq p
          PROVE  prefs' # {} /\ \A q \in prefs' : S \subseteq q
      BY <3>2 DEF Exists
    <3> QED
      BY <3>1, <3>2 DEF Asks, Exists
  <2> QED
    BY <2>1, <2>2
<1>7. \A d \in Clients : Shows(replied[d])'
  BY <1>4, NoReplyShows DEF Shows, PrefsInv
<1>8. PrefsInv'
  BY <1>3, <1>4, <1>6, <1>7 DEF PrefsInv
<1>9. UpdatesStay
  BY <1>7 DEF UpdatesStay, Shows
<1> QED
  BY <1>8, <1>9

LEMMA DeletionKeeps ==
    ASSUME PrefsInv, NEW c \in Clients, DeletePreferences(c)
    PROVE  PrefsInv' /\ UpdatesStay
<1>1. \A d \in Clients : asking[d] \in Requests /\ Asks(asking[d])
  BY DEF PrefsInv
<1>2. \A d \in Clients : asking[d] # Quiet =>
        LET x == [asking[d] EXCEPT !.reset = TRUE]
        IN  x \in Requests /\ x.reset /\ x.step = asking[d].step /\ x.changes = asking[d].changes
  BY <1>1 DEF Requests
<1>3. /\ asking' = [d \in Clients |-> asking'[d]]
      /\ \A d \in Clients : asking'[d] = IF asking[d] = Quiet THEN Quiet
                                          ELSE [asking[d] EXCEPT !.reset = TRUE]
  BY DEF DeletePreferences
<1>4. \A d \in Clients : asking'[d] \in Requests
  BY <1>2, <1>3, IdleAsks
<1>5. \A d \in Clients : Asks(asking[d])'
  <2> TAKE d \in Clients
  <2>1. CASE asking[d] = Quiet
    BY <1>3, <2>1, IdleAsks DEF Asks
  <2>2. CASE asking[d] # Quiet
    <3> DEFINE x == [asking[d] EXCEPT !.reset = TRUE]
    <3>1. x \in Requests /\ x.reset /\ x.step = asking[d].step /\ x.changes = asking[d].changes
      BY <1>2, <2>2
    <3>2. asking'[d] = x
      BY <1>3, <2>2
    <3> HIDE DEF x
    <3>3. x.step # "idle" /\ (x.step = "insert_defaults" => x.changes = {})
      BY <1>1, <2>2, <3>1 DEF Asks
    <3> QED
      BY <3>1, <3>2, <3>3 DEF Asks
  <2> QED
    BY <2>1, <2>2
<1> DEFINE y == [NoReply EXCEPT !.code = 200]
<1>6. y \in Replies /\ y.changes = {}
  BY ZenonT(60) DEF NoReply, Replies
<1>7. /\ replied' \in [Clients -> Replies]
      /\ \A d \in Clients : replied'[d] = IF d = c THEN y ELSE replied[d]
  BY <1>6 DEF DeletePreferences, PrefsInv
<1> HIDE DEF y
<1>8. \A d \in Clients : Shows(replied[d])'
  BY <1>6, <1>7 DEF Shows, PrefsInv
<1>9. prefs' = {}
  BY DEF DeletePreferences
<1>10. asking' \in [Clients -> Requests]
  BY <1>3, <1>4
<1> QED
  BY <1>5, <1>7, <1>8, <1>9, <1>10 DEF PrefsInv, UpdatesStay, Shows

LEMMA PrefsStep ==
    ASSUME PrefsInv, PrefsNext
    PROVE  PrefsInv' /\ UpdatesStay
<1>0. PICK c \in Clients :
        \/ GetPreferences(c) \/ InsertDefaults(c) \/ PutNothing(c)
        \/ \E changes \in SUBSET Fields : UpdatePreferences(c, changes)
        \/ InsertChanged(c) \/ Reread(c) \/ DeletePreferences(c) \/ Aborts(c)
  BY DEF PrefsNext
<1>1. /\ Asks(asking[c]) /\ asking[c] \in Requests
      /\ prefs \subseteq SUBSET Fields /\ \A p, q \in prefs : p = q
  BY DEF PrefsInv
<1>2. CASE GetPreferences(c)
  BY <1>1, <1>2, IdleAsks, RepliesKeep, ContinuesKeep DEF GetPreferences
<1>3. CASE InsertDefaults(c)
  BY <1>1, <1>3, RepliesKeep DEF InsertDefaults, Asks
<1>4. CASE PutNothing(c)
  BY <1>1, <1>4, IdleAsks, RepliesKeep DEF PutNothing
<1>5. ASSUME NEW changes \in SUBSET Fields, UpdatePreferences(c, changes)
      PROVE  PrefsInv' /\ UpdatesStay
  <2>1. prefs' = {p \cup changes : p \in prefs}
    BY <1>5 DEF UpdatePreferences
  <2>2. /\ prefs' \subseteq SUBSET Fields /\ \A p, q \in prefs' : p = q
        /\ \A p \in prefs : \E q \in prefs' : p \subseteq q
        /\ \A q \in prefs' : changes \subseteq q
        /\ Exists => prefs' # {}
    <3>1. prefs' \subseteq SUBSET Fields
      BY <1>1, <2>1
    <3>2. \A p, q \in prefs' : p = q
      BY <1>1, <2>1
    <3>3. \A p \in prefs : p \cup changes \in prefs' /\ p \subseteq p \cup changes
      BY <2>1
    <3>4. \A q \in prefs' : changes \subseteq q
      BY <2>1
    <3> QED
      BY ZenonT(60), <3>1, <3>2, <3>3, <3>4 DEF Exists
  <2>3. Proceed(c, IF Exists THEN "reread" ELSE "insert_changed", changes)
    BY <1>5 DEF UpdatePreferences
  <2>4. CASE Exists
    BY <2>2, <2>3, <2>4, ContinuesKeep
  <2>5. CASE ~Exists
    BY <2>2, <2>3, <2>5, ContinuesKeep
  <2> QED
    BY <2>4, <2>5
<1>6. CASE InsertChanged(c)
  <2>1. CASE Exists /\ UNCHANGED prefs /\ Respond(c, 500, {})
    BY <2>1, RepliesKeep
  <2>2. CASE ~Exists /\ prefs' = {asking[c].changes} /\ Proceed(c, "reread", asking[c].changes)
    <3>1. asking[c].changes \in SUBSET Fields
      BY <1>1 DEF Requests
    <3> QED
      BY <2>2, <3>1, ContinuesKeep DEF Exists
  <2> QED
    BY <1>6, <2>1, <2>2 DEF InsertChanged
<1>7. CASE Reread(c)
  BY <1>1, <1>7, RepliesKeep DEF Reread, Asks
<1>8. CASE Aborts(c)
  BY <1>8, RepliesKeep DEF Aborts
<1> QED
  BY <1>0, <1>2, <1>3, <1>4, <1>5, <1>6, <1>7, <1>8, DeletionKeeps

\* Only a deletion takes a changed preference away, and an update answered 200
\* shows all it changed unless a deletion came in between.
THEOREM UpdatesAreKept == PrefsSpec => []PrefsTypeOK /\ UpdatesKept
<1>1. PrefsInit => PrefsInv
  BY IdleAsks, NoReplyShows DEF PrefsInit, PrefsInv, Asks, Shows
<1>2. PrefsInv /\ [PrefsNext]_prefsVars => PrefsInv' /\ [UpdatesStay]_prefsVars
  <2>1. CASE UNCHANGED prefsVars
    BY <2>1 DEF prefsVars, PrefsInv, Asks, Shows, Exists
  <2> QED
    BY <2>1, PrefsStep
<1>3. PrefsInv => PrefsTypeOK
  <2> SUFFICES ASSUME PrefsInv PROVE PrefsTypeOK
    OBVIOUS
  <2>1. Cardinality(prefs) <= 1
    <3>1. CASE prefs = {}
      BY <3>1, FS_EmptySet
    <3>2. CASE prefs # {}
      <4>1. PICK p \in prefs : TRUE
        BY <3>2
      <4>2. prefs = {p}
        BY <4>1 DEF PrefsInv
      <4> QED
        <5>1. Cardinality({p}) = 1
          BY FS_Singleton
        <5> QED
          BY <4>2, <5>1
    <3> QED
      BY <3>1, <3>2
  <2> QED
    BY <2>1 DEF PrefsInv, PrefsTypeOK, Requests, Replies
<1> QED
  BY <1>1, <1>2, <1>3, PTL DEF PrefsSpec, UpdatesKept

-----------------------------------------------------------------------------
(* Tokens                                                                  *)

Pairs == [at : 0 .. MaxTime, parent : 0 .. MaxPairs, checked : BOOLEAN]
RefreshTokens == (DOMAIN pairs) \X {"refresh"}
Sessions ==
    {[step |-> "idle"]} \cup [step : {"idle"}, loggedOut : DOMAIN pairs]
    \cup [step : {"refresh", "rotate"}, token : RefreshTokens, checked : BOOLEAN]
    \cup [step : {"logout"}, token : RefreshTokens]
    \cup [step : {"use"}, token : Tokens]

\* An entry of the blacklist lives until less than a second before the whole
\* second of the token's exp claim begins.
Outlives(t) == blacklist[t] \in Nat /\ blacklist[t] + Second > Second * Expiry(t)

TokenTypes ==
    /\ now \in 0 .. MaxTime
    /\ pairs \in Seq(Pairs) /\ Len(pairs) <= MaxPairs
    /\ \A n \in DOMAIN pairs : pairs[n].parent \in DOMAIN pairs \cup {NoParent}
    /\ DOMAIN blacklist \subseteq Tokens
    /\ \A t \in DOMAIN blacklist : Outlives(t)
    /\ redisUp \in BOOLEAN /\ redisFailed \in BOOLEAN
    /\ ~redisFailed => redisUp
    /\ session \in [Servers -> Sessions]

\* A token that is of no use any more, or about to be.
Over(t) == t \in DOMAIN blacklist \/ AlmostExpired(t)

OverTokens == {t \in Tokens : Over(t)}

\* What a session says of a logout is so, when the tokens over are these.
Word(x, over) ==
    /\ x.step = "logout" => <<x.token[1], "access">> \in over
    /\ "loggedOut" \in DOMAIN x => \A kind \in Kinds : <<x.loggedOut, kind>> \in over
LogoutsKeepTheirWord ==
    ~redisFailed => \A p \in Servers : Word(session[p], OverTokens)

Children(n) == {m \in DOMAIN pairs : pairs[m].parent = n /\ pairs[m].checked}
Within(n, step) ==
    {p \in Servers : session[p].step = step /\ session[p].token[1] = n /\ session[p].checked}

\* Until the first rotation of pair n has ended, every pair made from it
\* belongs to a process that has yet to revoke it; from then on only the
\* processes that had already verified its token make more.
Exchanges(n) ==
    /\ Cardinality(Children(n)) + Cardinality(Within(n, "refresh")) <= Cardinality(Servers)
    /\ ~Over(<<n, "refresh">>) =>
          Cardinality(Children(n)) <= Cardinality(Within(n, "rotate"))

TokensInv ==
    /\ TokenTypes /\ LogoutsKeepTheirWord
    /\ ~redisFailed => \A n \in DOMAIN pairs : Exchanges(n)

\* Fractions of a second are truncated.
LEMMA Truncated ==
    ASSUME TokenAssumption, NEW a \in Nat
    PROVE  /\ a \div Second \in Nat
           /\ Second * (a \div Second) <= a /\ a < Second * (a \div Second) + Second
<1>1. Second \in Nat \ {0}
  BY DEF TokenAssumption
<1> QED
  BY <1>1, Z3

LEMMA ExpiryIsNatural ==
    ASSUME TokenAssumption, TokenTypes, NEW t \in Tokens
    PROVE  Expiry(t) \in Nat /\ Second * Expiry(t) \in Nat /\ Second \in Nat \ {0}
<1>1. t[1] \in DOMAIN pairs
  BY DEF Tokens
<1>2. pairs[t[1]] \in Pairs
  BY <1>1 DEF TokenTypes
<1>3. pairs[t[1]].at \in Nat
  BY <1>2 DEF Pairs, TokenAssumption
<1>4. Life(t[2]) \in Nat /\ Second \in Nat \ {0}
  BY DEF Life, TokenAssumption
<1>5. pairs[t[1]].at + Life(t[2]) \in Nat
  BY <1>3, <1>4
<1>6. Expiry(t) \in Nat
  BY <1>5, Truncated DEF Expiry
<1> QED
  BY <1>4, <1>6

\* Issued pairs stay; time and the blacklist grow.
LEMMA NothingIsUndone ==
    ASSUME TokenAssumption, TokenTypes, TokensNext
    PROVE  /\ now' = now \/ (now < MaxTime /\ now' = now + 1)
           /\ DOMAIN blacklist \subseteq DOMAIN blacklist'
           /\ \/ pairs' = pairs
              \/ /\ Len(pairs) < MaxPairs /\ DOMAIN pairs' = DOMAIN pairs \cup {Len(pairs) + 1}
                 /\ \A n \in DOMAIN pairs : pairs'[n] = pairs[n]
           /\ \A n \in DOMAIN pairs : n \in DOMAIN pairs' /\ pairs'[n] = pairs[n]
<1>1. ASSUME NEW t, BlacklistToken(t) PROVE DOMAIN blacklist \subseteq DOMAIN blacklist'
  BY <1>1 DEF BlacklistToken, Listed
<1>2. ASSUME NEW parent, NEW checked, CreateTokenPair(parent, checked)
      PROVE  /\ Len(pairs) < MaxPairs /\ DOMAIN pairs' = DOMAIN pairs \cup {Len(pairs) + 1}
             /\ \A n \in DOMAIN pairs : pairs'[n] = pairs[n]
  BY <1>2 DEF CreateTokenPair, TokenTypes
<1>3. ASSUME NEW p \in Servers, SignIn(p) \/ RefreshIssues(p)
      PROVE  /\ now' = now /\ blacklist' = blacklist
             /\ \/ pairs' = pairs
                \/ /\ Len(pairs) < MaxPairs /\ DOMAIN pairs' = DOMAIN pairs \cup {Len(pairs) + 1}
                   /\ \A n \in DOMAIN pairs : pairs'[n] = pairs[n]
  BY <1>2, <1>3 DEF SignIn, RefreshIssues
<1>4. ASSUME NEW p \in Servers,
             RefreshRevokes(p) \/ LogoutRevokesRefresh(p)
             \/ \E n \in DOMAIN pairs, r \in BOOLEAN : Logout(p, n, r)
      PROVE  now' = now /\ pairs' = pairs /\ DOMAIN blacklist \subseteq DOMAIN blacklist'
  BY <1>1, <1>4 DEF RefreshRevokes, LogoutRevokesRefresh, Logout
<1>5. ASSUME NEW p \in Servers, UseFindsUser(p) \/ \E t \in Tokens : RefreshToken(p, t) \/ Use(p, t)
      PROVE  now' = now /\ pairs' = pairs /\ blacklist' = blacklist
  BY <1>5 DEF UseFindsUser, RefreshToken, Use
<1>6. CASE RedisFails \/ Tick
  BY <1>6 DEF RedisFails, Tick
<1> QED
  BY <1>3, <1>4, <1>5, <1>6 DEF TokensNext

LEMMA OverStaysOver ==
    ASSUME TokenAssumption, TokenTypes, TokensNext, NEW t \in Tokens
    PROVE  Expiry(t)' = Expiry(t) /\ (Over(t) => Over(t)')
<1>1. t[1] \in DOMAIN pairs /\ pairs'[t[1]] = pairs[t[1]]
  BY NothingIsUndone DEF Tokens
<1>2. Expiry(t)' = Expiry(t)
  BY <1>1 DEF Expiry, Life
<1>3. AlmostExpired(t) => AlmostExpired(t)'
  <2>1. /\ Second * Expiry(t) \in Nat /\ Second \in Nat /\ now \in Nat
        /\ now' = now \/ now' = now + 1
    BY NothingIsUndone, ExpiryIsNatural DEF TokenTypes
  <2> QED
    BY <1>2, <2>1 DEF AlmostExpired
<1> QED
  BY <1>2, <1>3, NothingIsUndone DEF Over

LEMMA BlacklistingWorks ==
    ASSUME TokenAssumption, TokenTypes, NEW t \in Tokens, BlacklistToken(t), UNCHANGED <<now, pairs>>
    PROVE  /\ redisUp => Over(t)'
           /\ DOMAIN blacklist' \subseteq Tokens
           /\ \A u \in DOMAIN blacklist' : Outlives(u)'
<1> DEFINE end == Second * Expiry(t)
<1>0. end \in Nat /\ Second \in Nat \ {0} /\ now \in Nat /\ \A u : Expiry(u)' = Expiry(u)
  BY ExpiryIsNatural DEF TokenTypes, Expiry, Life
<1>1. SecondsLeft(t) \in Nat /\ now + Second * SecondsLeft(t) \in Nat
      /\ now + Second * SecondsLeft(t) + Second > end
  <2>1. CASE end > now
    <3>1. end - now \in Nat /\ SecondsLeft(t) = (end - now) \div Second
      BY <1>0, <2>1 DEF SecondsLeft
    <3>2. SecondsLeft(t) \in Nat /\ end - now < Second * SecondsLeft(t) + Second
      BY <3>1, Truncated
    <3>3. Second * SecondsLeft(t) \in Nat
      BY <1>0, <3>2
    <3> HIDE DEF end
    <3> QED
      BY <1>0, <3>2, <3>3
  <2>2. CASE ~(end > now)
    <3>1. SecondsLeft(t) = 0 /\ Second * SecondsLeft(t) = 0
      BY <1>0, <2>2 DEF SecondsLeft
    <3> HIDE DEF end
    <3> QED
      BY <1>0, <2>2, <3>1
  <2> QED
    BY <2>1, <2>2
<1>2. Expired(t) \/ SecondsLeft(t) = 0 => AlmostExpired(t)'
  <2>1. CASE Expired(t)
    <3>1. /\ Expiry(t) \in Nat /\ now \div Second \in Nat /\ Second * (now \div Second) <= now
          /\ Expiry(t) < now \div Second
      BY <1>0, <2>1, Truncated, ExpiryIsNatural DEF Expired
    <3>2. Second * Expiry(t) <= Second * (now \div Second)
      BY <1>0, <3>1
    <3>3. Second * (now \div Second) \in Nat
      BY <1>0, <3>1
    <3> QED
      BY <1>0, <3>1, <3>2, <3>3 DEF AlmostExpired
  <2>2. CASE SecondsLeft(t) = 0
    <3>1. Second * SecondsLeft(t) = 0
      BY <1>0, <2>2
    <3> QED
      BY <1>0, <1>1, <3>1 DEF AlmostExpired
  <2> QED
    BY <2>1, <2>2
<1>3. CASE blacklist' = Listed(t)
  <2>1. /\ DOMAIN blacklist' = DOMAIN blacklist \cup {t}
        /\ \A u \in DOMAIN blacklist \cup {t} :
              blacklist'[u] = IF u = t THEN now + Second * SecondsLeft(t) ELSE blacklist[u]
    BY <1>3 DEF Listed
  <2> QED
    BY <1>0, <1>1, <2>1 DEF Over, Outlives, TokenTypes
<1>4. CASE blacklist' = blacklist /\ (redisUp => AlmostExpired(t)')
  BY <1>0, <1>4 DEF Over, Outlives, TokenTypes
<1> QED
  BY <1>2, <1>3, <1>4 DEF BlacklistToken

LEMMA SessionsGrow ==
    ASSUME TokenAssumption, TokenTypes, TokensNext
    PROVE  /\ Sessions \subseteq Sessions' /\ Tokens \subseteq Tokens'
           /\ session \in [Servers -> Sessions']
<1>1. DOMAIN pairs \subseteq DOMAIN pairs'
  BY NothingIsUndone
<1>2. Tokens \subseteq Tokens' /\ RefreshTokens \subseteq RefreshTokens'
  BY <1>1 DEF Tokens, RefreshTokens
<1>3. Sessions \subseteq Sessions'
  BY <1>1, <1>2 DEF Sessions
<1> QED
  BY <1>2, <1>3 DEF TokenTypes

LEMMA SessionGoes ==
    ASSUME TokenTypes, NEW p \in Servers, NEW s, Goes(p, s)
    PROVE  /\ \A q \in Servers : session'[q] = IF q = p THEN s ELSE session[q]
           /\ \A S : s \in S /\ session \in [Servers -> S] => session' \in [Servers -> S]
  BY DEF Goes, TokenTypes

LEMMA SessionShapes ==
    ASSUME TokenTypes, NEW p \in Servers
    PROVE  /\ session[p].step \in {"refresh", "rotate"} =>
                session[p] \in [step : {"refresh", "rotate"}, token : RefreshTokens, checked : BOOLEAN]
           /\ session[p].step = "logout" => session[p] \in [step : {"logout"}, token : RefreshTokens]
           /\ "loggedOut" \in DOMAIN session[p] =>
                session[p] \in [step : {"idle"}, loggedOut : DOMAIN pairs]
  BY DEF TokenTypes, Sessions

LEMMA TypesKept ==
    ASSUME TokenAssumption, TokenTypes, TokensNext
    PROVE  TokenTypes'
<1>0. /\ now \in 0 .. MaxTime /\ MaxTime \in Nat /\ MaxPairs \in Nat /\ pairs \in Seq(Pairs)
      /\ DOMAIN blacklist \subseteq Tokens /\ \A t \in DOMAIN blacklist : Outlives(t)
      /\ redisUp \in BOOLEAN /\ redisFailed \in BOOLEAN
  BY DEF TokenTypes, TokenAssumption
<1>1. now' \in 0 .. MaxTime
  BY <1>0, NothingIsUndone
<1>2. redisUp' \in BOOLEAN /\ redisFailed' \in BOOLEAN /\ (~redisFailed' => redisUp')
  <2>1. CASE RedisFails
    BY <1>0, <2>1 DEF RedisFails
  <2>2. CASE ~RedisFails
    <3>1. redisUp' = redisUp /\ redisFailed' = redisFailed
      BY <2>2 DEF TokensNext, SignIn, RefreshIssues, RefreshRevokes, LogoutRevokesRefresh,
                  UseFindsUser, RefreshToken, Use, Logout, Tick
    <3> QED
      BY <3>1 DEF TokenTypes
  <2> QED
    BY <2>1, <2>2
<1>3. /\ pairs' \in Seq(Pairs) /\ Len(pairs') <= MaxPairs
      /\ \A n \in DOMAIN pairs' : pairs'[n].parent \in DOMAIN pairs' \cup {NoParent}
  <2>1. ASSUME NEW parent \in DOMAIN pairs \cup {NoParent}, NEW checked \in BOOLEAN,
               CreateTokenPair(parent, checked)
        PROVE  /\ pairs' \in Seq(Pairs) /\ Len(pairs') <= MaxPairs
               /\ \A n \in DOMAIN pairs' : pairs'[n].parent \in DOMAIN pairs' \cup {NoParent}
    <3> DEFINE r == [at |-> now, parent |-> parent, checked |-> checked]
    <3>1. parent \in 0 .. MaxPairs
      BY <1>0, <2>1 DEF TokenTypes, NoParent
    <3>2. r \in Pairs /\ r.parent = parent
      BY <1>0, <3>1 DEF Pairs
    <3>3. pairs' = Append(pairs, r) /\ Len(pairs) < MaxPairs
      BY <2>1 DEF CreateTokenPair
    <3> HIDE DEF r
    <3>4. pairs' \in Seq(Pairs) /\ Len(pairs') = Len(pairs) + 1 /\ Len(pairs) \in Nat
          /\ pairs'[Len(pairs) + 1] = r /\ \A n \in DOMAIN pairs : pairs'[n] = pairs[n]
          /\ DOMAIN pairs' = DOMAIN pairs \cup {Len(pairs) + 1}
      BY <1>0, <3>2, <3>3
    <3> QED
      BY <1>0, <3>2, <3>3, <3>4 DEF TokenTypes
  <2>2. ASSUME NEW p \in Servers, RefreshIssues(p)
        PROVE  \/ pairs' = pairs
               \/ \E parent \in DOMAIN pairs, checked \in BOOLEAN : CreateTokenPair(parent, checked)
    <3>1. session[p] \in [step : {"refresh", "rotate"}, token : RefreshTokens, checked : BOOLEAN]
      BY <2>2, SessionShapes DEF RefreshIssues
    <3>2. session[p].token[1] \in DOMAIN pairs /\ session[p].checked \in BOOLEAN
      BY <3>1 DEF RefreshTokens
    <3> QED
      BY <2>2, <3>2 DEF RefreshIssues
  <2>3. \/ pairs' = pairs
        \/ \E parent \in DOMAIN pairs \cup {NoParent}, checked \in BOOLEAN :
              CreateTokenPair(parent, checked)
    BY <2>2 DEF TokensNext, SignIn, RefreshRevokes, LogoutRevokesRefresh, UseFindsUser,
                RefreshToken, Use, Logout, Tick, RedisFails
  <2> QED
    BY <2>1, <2>3 DEF TokenTypes
<1>4. DOMAIN blacklist' \subseteq Tokens' /\ \A t \in DOMAIN blacklist' : Outlives(t)'
  <2>1. CASE blacklist' = blacklist
    BY <1>0, <2>1, OverStaysOver, SessionsGrow DEF Outlives
  <2>2. ASSUME NEW t \in Tokens, BlacklistToken(t), UNCHANGED <<now, pairs>>
        PROVE  DOMAIN blacklist' \subseteq Tokens' /\ \A u \in DOMAIN blacklist' : Outlives(u)'
    BY <2>2, BlacklistingWorks, SessionsGrow
  <2>3. ASSUME NEW p \in Servers, RefreshRevokes(p) \/ LogoutRevokesRefresh(p)
        PROVE  /\ session[p].token \in Tokens /\ BlacklistToken(session[p].token)
               /\ UNCHANGED <<now, pairs>>
    BY <2>3, SessionShapes DEF RefreshRevokes, LogoutRevokesRefresh, RefreshTokens, Tokens, Kinds
  <2>4. ASSUME NEW p \in Servers, NEW n \in DOMAIN pairs, NEW r \in BOOLEAN, Logout(p, n, r)
        PROVE  /\ <<n, "access">> \in Tokens /\ BlacklistToken(<<n, "access">>)
               /\ UNCHANGED <<now, pairs>>
    BY <2>4 DEF Logout, Tokens, Kinds
  <2>5. \/ blacklist' = blacklist
        \/ \E t \in Tokens : BlacklistToken(t) /\ UNCHANGED <<now, pairs>>
    BY <2>3, <2>4 DEF TokensNext, SignIn, RefreshIssues, UseFindsUser, RefreshToken, Use, Tick,
                      RedisFails
  <2> QED
    BY <2>1, <2>2, <2>5
<1>5. session' \in [Servers -> Sessions']
  <2>0. [step |-> "idle"] \in Sessions' /\ Sessions \subseteq Sessions'
        /\ session \in [Servers -> Sessions']
    BY SessionsGrow DEF Sessions
  <2>1. ASSUME NEW p \in Servers, NEW s \in Sessions', Goes(p, s)
        PROVE  session' \in [Servers -> Sessions']
    BY <2>0, <2>1, SessionGoes
  <2>2. ASSUME NEW p \in Servers, NEW t \in Tokens, RefreshToken(p, t)
        PROVE  \E s \in Sessions' : Goes(p, s)
    <3> DEFINE s == [step |-> "refresh", token |-> t, checked |-> redisUp /\ ~AlmostExpired(t)]
    <3>1. t \in RefreshTokens
      BY <2>2 DEF RefreshToken, VerifyToken, Tokens, RefreshTokens
    <3>2. s \in Sessions
      BY <1>0, <3>1 DEF Sessions
    <3> QED
      BY <2>0, <2>2, <3>2 DEF RefreshToken
  <2>3. ASSUME NEW p \in Servers, RefreshIssues(p)
        PROVE  \E s \in Sessions' : Goes(p, s)
    <3> DEFINE s == [session[p] EXCEPT !.step = "rotate"]
    <3>1. session[p] \in [step : {"refresh", "rotate"}, token : RefreshTokens, checked : BOOLEAN]
      BY <2>3, SessionShapes DEF RefreshIssues
    <3>2. s \in Sessions
      BY <3>1 DEF Sessions
    <3> QED
      BY <2>0, <2>3, <3>2 DEF RefreshIssues, Ends
  <2>4. ASSUME NEW p \in Servers, NEW n \in DOMAIN pairs, NEW r \in BOOLEAN, Logout(p, n, r)
        PROVE  \E s \in Sessions' : Goes(p, s)
    <3>1. [step |-> "logout", token |-> <<n, "refresh">>] \in Sessions
      BY DEF Sessions, RefreshTokens
    <3> QED
      BY <2>0, <2>4, <3>1 DEF Logout, Ends
  <2>5. ASSUME NEW p \in Servers, LogoutRevokesRefresh(p)
        PROVE  \E s \in Sessions' : Goes(p, s)
    <3>1. session[p].token[1] \in DOMAIN pairs
      BY <2>5, SessionShapes DEF LogoutRevokesRefresh, RefreshTokens
    <3>2. [step |-> "idle", loggedOut |-> session[p].token[1]] \in Sessions
      BY <3>1 DEF Sessions
    <3> QED
      BY <2>0, <2>5, <3>2 DEF LogoutRevokesRefresh
  <2>6. ASSUME NEW p \in Servers, NEW t \in Tokens, Use(p, t)
        PROVE  \E s \in Sessions' : Goes(p, s)
    <3>1. [step |-> "use", token |-> t] \in Sessions
      BY DEF Sessions
    <3> QED
      BY <2>0, <2>6, <3>1 DEF Use
  <2>7. ASSUME NEW p \in Servers, RefreshRevokes(p) \/ UseFindsUser(p)
        PROVE  \E s \in Sessions' : Goes(p, s)
    BY <2>0, <2>7 DEF RefreshRevokes, UseFindsUser, Ends
  <2>8. ASSUME (\E p \in Servers : SignIn(p)) \/ RedisFails \/ Tick
        PROVE  session' = session
    BY <2>8 DEF SignIn, RedisFails, Tick
  <2> QED
    BY <2>0, <2>1, <2>2, <2>3, <2>4, <2>5, <2>6, <2>7, <2>8 DEF TokensNext
<1> QED
  BY <1>1, <1>2, <1>3, <1>4, <1>5 DEF TokenTypes

\* One step, and no revoked token passes in it.
LEMMA NoRevokedTokenPasses ==
    ASSUME TokenAssumption, TokenTypes, TokensNext
    PROVE  NoRevokedPasses
<1> SUFFICES ASSUME NEW p \in Servers, NEW t \in DOMAIN blacklist, redisUp, Passes(p, t)
             PROVE  AlmostExpired(t)
  BY DEF NoRevokedPasses
<1>1. Free(p) /\ session'[p].step \in {"refresh", "use"} /\ session'[p].token = t
  BY DEF Passes
<1>2. ~Blacklisted(t)
  <2>1. ASSUME NEW q \in Servers, NEW s, Goes(q, s), s.step \notin {"refresh", "use"}
        PROVE  session'[p].step \notin {"refresh", "use"}
    BY <1>1, <2>1, SessionGoes DEF Free
  <2>2. ASSUME NEW q \in Servers, NEW u \in Tokens, RefreshToken(q, u) \/ Use(q, u)
        PROVE  ~Blacklisted(t)
    <3>1. PICK x : Goes(q, x) /\ x.token = u
      <4>1. CASE RefreshToken(q, u)
        <5> WITNESS [step |-> "refresh", token |-> u, checked |-> redisUp /\ ~AlmostExpired(u)]
        <5> QED
          BY <4>1 DEF RefreshToken
      <4>2. CASE Use(q, u)
        <5> WITNESS [step |-> "use", token |-> u]
        <5> QED
          BY <4>2 DEF Use
      <4> QED
        BY <2>2, <4>1, <4>2
    <3>2. q = p
      BY <1>1, <3>1, SessionGoes DEF Free
    <3>3. u = t
      BY <1>1, <3>1, <3>2, SessionGoes
    <3> QED
      BY <2>2, <3>3 DEF RefreshToken, Use, VerifyToken
  <2>3. ASSUME NEW q \in Servers, RefreshIssues(q)
        PROVE  session'[p].step \notin {"refresh", "use"}
    <3> DEFINE s == [session[q] EXCEPT !.step = "rotate"]
    <3>1. s.step = "rotate"
      BY <2>3, SessionShapes DEF RefreshIssues
    <3> QED
      BY <2>1, <2>3, <3>1 DEF RefreshIssues, Ends
  <2>4. ASSUME NEW q \in Servers,
               RefreshRevokes(q) \/ UseFindsUser(q) \/ LogoutRevokesRefresh(q)
               \/ \E n \in DOMAIN pairs, r \in BOOLEAN : Logout(q, n, r)
        PROVE  session'[p].step \notin {"refresh", "use"}
    BY <2>1, <2>4 DEF RefreshRevokes, UseFindsUser, LogoutRevokesRefresh, Logout, Ends
  <2>5. ASSUME session' = session
        PROVE  session'[p].step \notin {"refresh", "use"}
    BY <1>1, <2>5 DEF Free
  <2> QED
    BY <1>1, <2>2, <2>3, <2>4, <2>5 DEF TokensNext, SignIn, RedisFails, Tick
<1>3. /\ now >= blacklist[t] /\ blacklist[t] + Second > Second * Expiry(t)
      /\ blacklist[t] \in Nat /\ now \in Nat
  BY <1>2 DEF Blacklisted, TokenTypes, Outlives
<1>4. Second * Expiry(t) \in Nat /\ Second \in Nat
  BY ExpiryIsNatural DEF TokenTypes
<1> QED
  BY <1>3, <1>4 DEF AlmostExpired

LEMMA LogoutsStep ==
    ASSUME TokenAssumption, TokenTypes, LogoutsKeepTheirWord, TokensNext
    PROVE  LogoutsKeepTheirWord'
<1>0. SUFFICES ASSUME ~redisFailed'
               PROVE  \A p \in Servers : Word(session'[p], OverTokens')
  BY DEF LogoutsKeepTheirWord
<1>1. ~redisFailed /\ redisUp
  BY <1>0 DEF TokenTypes, TokensNext, SignIn, RefreshIssues, RefreshRevokes, LogoutRevokesRefresh,
              UseFindsUser, RefreshToken, Use, Logout, Tick, RedisFails
<1>2. ASSUME NEW p \in Servers
      PROVE  Word(session[p], OverTokens')
  <2>1. OverTokens \subseteq OverTokens'
    BY OverStaysOver, SessionsGrow DEF OverTokens
  <2> QED
    BY <1>1, <2>1 DEF Word, LogoutsKeepTheirWord
<1>3. ASSUME NEW p \in Servers, NEW s, Goes(p, s), Word(s, OverTokens')
      PROVE  \A q \in Servers : Word(session'[q], OverTokens')
  BY <1>2, <1>3, SessionGoes
<1>4. ASSUME NEW s, DOMAIN s \subseteq {"step", "token", "checked"}, s.step # "logout"
      PROVE  Word(s, OverTokens')
  BY <1>4 DEF Word
<1>5. ASSUME NEW t \in Tokens, BlacklistToken(t), UNCHANGED <<now, pairs>>
      PROVE  t \in OverTokens'
  BY <1>1, <1>5, BlacklistingWorks, SessionsGrow DEF OverTokens
<1>6. ASSUME NEW p \in Servers, NEW n \in DOMAIN pairs, NEW r \in BOOLEAN, Logout(p, n, r)
      PROVE  \A q \in Servers : Word(session'[q], OverTokens')
  <2> DEFINE s == [step |-> "logout", token |-> <<n, "refresh">>]
  <2>1. <<n, "access">> \in OverTokens'
    BY <1>5, <1>6 DEF Logout, Tokens, Kinds
  <2>2. Word(s, OverTokens')
    BY <2>1 DEF Word
  <2>3. Goes(p, s) \/ Goes(p, [step |-> "idle"])
    BY <1>6 DEF Logout, Ends
  <2> HIDE DEF s
  <2> QED
    BY <1>3, <1>4, <2>2, <2>3
<1>7. ASSUME NEW p \in Servers, LogoutRevokesRefresh(p)
      PROVE  \A q \in Servers : Word(session'[q], OverTokens')
  <2>1. PICK n \in DOMAIN pairs : session[p].step = "logout" /\ session[p].token = <<n, "refresh">>
    BY <1>7, SessionShapes DEF LogoutRevokesRefresh, RefreshTokens
  <2> DEFINE s == [step |-> "idle", loggedOut |-> n]
  <2>2. <<n, "access">> \in OverTokens'
    BY <1>2, <2>1 DEF Word
  <2>3. <<n, "refresh">> \in OverTokens'
    BY <1>5, <1>7, <2>1 DEF LogoutRevokesRefresh, Tokens, Kinds
  <2>4. Word(s, OverTokens')
    BY <2>2, <2>3 DEF Word, Kinds
  <2>5. Goes(p, s)
    BY <1>7, <2>1 DEF LogoutRevokesRefresh
  <2> HIDE DEF s
  <2> QED
    BY <1>3, <2>4, <2>5
<1>8. ASSUME NEW p \in Servers, RefreshIssues(p)
      PROVE  \A q \in Servers : Word(session'[q], OverTokens')
  <2> DEFINE s == [session[p] EXCEPT !.step = "rotate"]
  <2>1. DOMAIN s = {"step", "token", "checked"} /\ s.step = "rotate"
    BY <1>8, SessionShapes DEF RefreshIssues
  <2>2. Goes(p, s) \/ Goes(p, [step |-> "idle"])
    BY <1>8 DEF RefreshIssues, Ends
  <2> HIDE DEF s
  <2> QED
    BY <1>3, <1>4, <2>1, <2>2
<1>9. ASSUME NEW p \in Servers, NEW t \in Tokens, RefreshToken(p, t) \/ Use(p, t)
      PROVE  \A q \in Servers : Word(session'[q], OverTokens')
  BY <1>3, <1>4, <1>9 DEF RefreshToken, Use
<1>10. ASSUME NEW p \in Servers, RefreshRevokes(p) \/ UseFindsUser(p)
       PROVE  \A q \in Servers : Word(session'[q], OverTokens')
  BY <1>3, <1>4, <1>10 DEF RefreshRevokes, UseFindsUser, Ends
<1>11. ASSUME session' = session
       PROVE  \A q \in Servers : Word(session'[q], OverTokens')
  BY <1>2, <1>11
<1> QED
  BY <1>6, <1>7, <1>8, <1>9, <1>10, <1>11 DEF TokensNext, SignIn, RedisFails, Tick

-----------------------------------------------------------------------------
(* Exchanges                                                               *)

LEMMA CountsAreNatural ==
    ASSUME TokenAssumption, TokenTypes, NEW n, NEW step
    PROVE  /\ IsFiniteSet(Children(n)) /\ Cardinality(Children(n)) \in Nat
           /\ IsFiniteSet(Within(n, step)) /\ Cardinality(Within(n, step)) \in Nat
           /\ Cardinality(Within(n, step)) <= Cardinality(Servers)
           /\ Cardinality(Servers) \in Nat
<1>1. IsFiniteSet(Servers) /\ Cardinality(Servers) \in Nat
  BY FS_CardinalityType DEF TokenAssumption
<1>2. IsFiniteSet(Within(n, step)) /\ Cardinality(Within(n, step)) <= Cardinality(Servers)
  BY <1>1, FS_Subset DEF Within
<1>3. IsFiniteSet(DOMAIN pairs)
  <2>1. Len(pairs) \in Nat /\ DOMAIN pairs = 1 .. Len(pairs)
    BY DEF TokenTypes
  <2> QED
    BY <2>1, FS_Interval
<1>4. IsFiniteSet(Children(n))
  BY <1>3, FS_Subset DEF Children
<1> QED
  BY <1>1, <1>2, <1>4, FS_CardinalityType

LEMMA WithinAfter ==
    ASSUME TokenTypes, NEW p \in Servers, NEW s, Goes(p, s), NEW n, NEW step
    PROVE  /\ \A q \in Servers \ {p} : q \in Within(n, step)' <=> q \in Within(n, step)
           /\ p \in Within(n, step)' <=> (s.step = step /\ s.token[1] = n /\ s.checked)
  BY SessionGoes DEF Within

\* Who was not in an exchange and does not begin one.
LEMMA WithinKept ==
    ASSUME TokenTypes, NEW p \in Servers, NEW s, Goes(p, s), NEW n, NEW step,
           session[p].step # step, s.step # step
    PROVE  Within(n, step)' = Within(n, step)
<1>1. p \notin Within(n, step) /\ p \notin Within(n, step)'
  BY WithinAfter DEF Within
<1>2. Within(n, step) \subseteq Servers /\ Within(n, step)' \subseteq Servers
  BY DEF Within
<1> QED
  BY <1>1, <1>2, WithinAfter

LEMMA ExchangesKept ==
    ASSUME TokenAssumption, TokenTypes, TokenTypes', NEW n, Exchanges(n),
           Children(n)' = Children(n),
           Within(n, "refresh")' \subseteq Within(n, "refresh"),
           Over(<<n, "refresh">>) => Over(<<n, "refresh">>)',
           Over(<<n, "refresh">>)' \/ Within(n, "rotate") \subseteq Within(n, "rotate")'
    PROVE  Exchanges(n)'
<1> DEFINE k == Cardinality(Children(n))
           f == Cardinality(Within(n, "refresh"))
           r == Cardinality(Within(n, "rotate"))
<1>1. k \in Nat /\ f \in Nat /\ r \in Nat /\ Cardinality(Servers) \in Nat
      /\ IsFiniteSet(Within(n, "refresh"))
  BY CountsAreNatural
<1>2. f' \in Nat /\ r' \in Nat /\ IsFiniteSet(Within(n, "rotate")')
  <2>1. IsFiniteSet(Within(n, "refresh")') /\ IsFiniteSet(Within(n, "rotate")')
    <3>1. Within(n, "refresh")' \in SUBSET Servers /\ Within(n, "rotate")' \in SUBSET Servers
      BY DEF Within
    <3>2. IsFiniteSet(Servers)
      BY DEF TokenAssumption
    <3> QED
      BY <3>1, <3>2, FS_Subset
  <2> QED
    BY <2>1, FS_CardinalityType
<1>3. f' <= f
  BY <1>1, FS_Subset
<1>4. Over(<<n, "refresh">>)' \/ r <= r'
  BY <1>2, FS_Subset
<1>5. k' = k
  OBVIOUS
<1> QED
  BY <1>1, <1>2, <1>3, <1>4, <1>5 DEF Exchanges

\* Nothing is made from a pair that is only now being issued.
LEMMA NewPairIsUnused ==
    ASSUME TokenAssumption, TokenTypes, NEW parent \in DOMAIN pairs \cup {NoParent}, NEW checked,
           CreateTokenPair(parent, checked), NEW n, n = Len(pairs) + 1,
           Within(n, "refresh")' = {}
    PROVE  Exchanges(n)'
<1>1. Len(pairs) \in Nat /\ DOMAIN pairs = 1 .. Len(pairs)
  BY DEF TokenTypes
<1>2. /\ DOMAIN pairs' = DOMAIN pairs \cup {n}
      /\ \A m \in DOMAIN pairs : pairs'[m] = pairs[m]
      /\ pairs'[n].parent = parent
  BY <1>1 DEF CreateTokenPair, TokenTypes
<1>3. \A m \in DOMAIN pairs' : pairs'[m].parent # n
  BY <1>1, <1>2 DEF TokenTypes, NoParent
<1>4. Children(n)' = {}
  BY <1>3 DEF Children
<1>5. Cardinality(Children(n)') = 0 /\ Cardinality(Within(n, "refresh")') = 0
  BY <1>4, FS_EmptySet
<1>6. Cardinality(Within(n, "rotate")') \in Nat
  <2>1. Within(n, "rotate")' \in SUBSET Servers
    BY DEF Within
  <2> QED
    BY <2>1, FS_Subset, FS_CardinalityType DEF TokenAssumption
<1>7. Cardinality(Servers) \in Nat
  BY CountsAreNatural
<1> QED
  BY <1>5, <1>6, <1>7 DEF Exchanges

LEMMA ExchangesStep ==
    ASSUME TokenAssumption, TokensInv, TokenTypes', TokensNext, ~redisFailed'
    PROVE  \A n \in DOMAIN pairs' : Exchanges(n)'
<1>0. TokenTypes
  BY DEF TokensInv
<1>1. ~redisFailed /\ redisUp /\ \A n \in DOMAIN pairs : Exchanges(n)
  BY DEF TokensInv, TokenTypes, TokensNext, SignIn, RefreshIssues, RefreshRevokes, LogoutRevokesRefresh,
         UseFindsUser, RefreshToken, Use, Logout, Tick, RedisFails
<1>2. \A n \in DOMAIN pairs : <<n, "refresh">> \in Tokens
        /\ (Over(<<n, "refresh">>) => Over(<<n, "refresh">>)')
  BY <1>0, OverStaysOver DEF Tokens, Kinds
<1>14. \A n, step : n = Len(pairs) + 1 /\ step \in {"refresh", "rotate"} => Within(n, step) = {}
  <2>1. Len(pairs) + 1 \notin DOMAIN pairs
    BY <1>0 DEF TokenTypes
  <2> QED
    BY <1>0, <2>1, SessionShapes DEF Within, RefreshTokens
<1>3. ASSUME pairs' = pairs, NEW n \in DOMAIN pairs,
             Within(n, "refresh")' \subseteq Within(n, "refresh"),
             Over(<<n, "refresh">>)' \/ Within(n, "rotate") \subseteq Within(n, "rotate")'
      PROVE  Exchanges(n)'
  <2>1. Children(n)' = Children(n)
    BY <1>3 DEF Children
  <2> QED
    BY <1>0, <1>1, <1>2, <1>3, <2>1, ExchangesKept
<1>4. ASSUME NEW p \in Servers, SignIn(p) PROVE \A n \in DOMAIN pairs' : Exchanges(n)'
  <2>1. CreateTokenPair(NoParent, TRUE) /\ session' = session
    BY <1>4 DEF SignIn
  <2>2. \A n, step : Within(n, step)' = Within(n, step)
    BY <2>1 DEF Within
  <2>3. ASSUME NEW n \in DOMAIN pairs PROVE Exchanges(n)'
    <3>1. Children(n)' = Children(n)
      <4>1. /\ DOMAIN pairs' = DOMAIN pairs \cup {Len(pairs) + 1} /\ pairs'[Len(pairs) + 1].parent = NoParent
            /\ \A m \in DOMAIN pairs : pairs'[m] = pairs[m]
        BY <1>0, <2>1 DEF CreateTokenPair, TokenTypes
      <4>2. n # NoParent
        BY <1>0 DEF TokenTypes, NoParent
      <4> QED
        BY <4>1, <4>2 DEF Children
    <3> QED
      BY <1>0, <1>1, <1>2, <2>2, <3>1, ExchangesKept
  <2>4. ASSUME NEW n, n = Len(pairs) + 1 PROVE Exchanges(n)'
    <3>1. Within(n, "refresh") = {}
      BY <1>0, <1>14, <2>4
    <3>2. Within(n, "refresh")' = {}
      BY <2>2, <3>1
    <3> QED
      BY <1>0, <2>1, <2>4, <3>2, NewPairIsUnused
  <2>5. DOMAIN pairs' = DOMAIN pairs \cup {Len(pairs) + 1}
    BY <1>0, <2>1 DEF CreateTokenPair, TokenTypes
  <2> QED
    BY <2>3, <2>4, <2>5
<1>5. ASSUME NEW p \in Servers, NEW t \in Tokens, RefreshToken(p, t)
      PROVE  \A n \in DOMAIN pairs' : Exchanges(n)'
  <2> DEFINE k == redisUp /\ ~AlmostExpired(t)
             s == [step |-> "refresh", token |-> t, checked |-> k]
  <2>1. /\ Goes(p, s) /\ session[p].step = "idle" /\ pairs' = pairs
        /\ VerifyToken(t, "refresh")
    BY <1>5 DEF RefreshToken, Free
  <2>2. s.step = "refresh" /\ s.token = t /\ s.checked = k /\ k \in BOOLEAN
    OBVIOUS
  <2>7. k => redisUp /\ ~AlmostExpired(t)
    OBVIOUS
  <2> HIDE DEF s, k
  <2>3. \A n : Within(n, "rotate")' = Within(n, "rotate")
    BY <1>0, <2>1, <2>2, WithinKept
  <2> SUFFICES ASSUME NEW n \in DOMAIN pairs PROVE Exchanges(n)'
    BY <2>1
  <2>4. p \notin Within(n, "refresh") /\ p \notin Within(n, "rotate")
    BY <2>1 DEF Within
  <2>5. CASE ~(t[1] = n /\ k)
    <3>1. p \notin Within(n, "refresh")'
      BY <1>0, <2>1, <2>2, <2>5, WithinAfter
    <3>2. Within(n, "refresh")' \subseteq Within(n, "refresh")
      BY <1>0, <2>1, <3>1, WithinAfter DEF Within
    <3> QED
      BY <1>3, <2>1, <2>3, <3>2
  <2>6. CASE t[1] = n /\ k
    <3>1. ~Over(t) /\ t = <<n, "refresh">>
      <4>1. t = <<n, "refresh">>
        BY <2>1, <2>6 DEF VerifyToken, Tokens
      <4>2. ~AlmostExpired(t) /\ ~Blacklisted(t)
        BY <1>1, <2>1, <2>6, <2>7 DEF VerifyToken
      <4>3. t \notin DOMAIN blacklist
        <5> SUFFICES ASSUME t \in DOMAIN blacklist PROVE FALSE
          OBVIOUS
        <5>1. /\ blacklist[t] \in Nat /\ blacklist[t] + Second > Second * Expiry(t)
              /\ now >= blacklist[t]
          BY <1>0, <4>2 DEF Blacklisted, TokenTypes, Outlives
        <5>2. Second * Expiry(t) \in Nat /\ Second \in Nat /\ now \in Nat
          BY <1>0, ExpiryIsNatural DEF TokenTypes
        <5> QED
          BY <4>2, <5>1, <5>2 DEF AlmostExpired
      <4> QED
        BY <4>1, <4>2, <4>3 DEF Over
    <3>2. Children(n)' = Children(n)
      BY <2>1 DEF Children
    <3>3. Cardinality(Children(n)) <= Cardinality(Within(n, "rotate"))
      BY <1>1, <3>1 DEF Exchanges
    <3> DEFINE F == Within(n, "refresh")'
               R == Within(n, "rotate")
    <3>4. IsFiniteSet(Servers) /\ F \in SUBSET Servers /\ R \in SUBSET Servers
      BY DEF Within, TokenAssumption
    <3>5. F \cap R = {}
      <4>1. \A q \in R : q \in Servers \ {p} /\ q \notin Within(n, "refresh")
        BY <2>4 DEF Within
      <4>2. \A q \in Servers \ {p} : q \in F <=> q \in Within(n, "refresh")
        BY <1>0, <2>1, WithinAfter
      <4> HIDE DEF F
      <4> QED
        BY <4>1, <4>2
    <3> HIDE DEF F, R
    <3>6. IsFiniteSet(F) /\ IsFiniteSet(R) /\ Cardinality(F \cup R) <= Cardinality(Servers)
      <4>1. IsFiniteSet(F) /\ IsFiniteSet(R)
        BY <3>4, FS_Subset
      <4>2. F \cup R \in SUBSET Servers
        BY <3>4
      <4> QED
        BY <3>4, <4>1, <4>2, FS_Subset
    <3>7. Cardinality(F \cup R) = Cardinality(F) + Cardinality(R) - Cardinality(F \cap R)
      BY <3>6, FS_Union
    <3>8. Cardinality(F \cap R) = 0
      BY <3>5, FS_EmptySet
    <3>9. /\ Cardinality(F) \in Nat /\ Cardinality(R) \in Nat /\ Cardinality(Children(n)) \in Nat
          /\ Cardinality(Servers) \in Nat
      BY <1>0, <3>4, <3>6, FS_CardinalityType, CountsAreNatural
    <3>10. Cardinality(Children(n)) + Cardinality(F) <= Cardinality(Servers)
      BY <3>3, <3>6, <3>7, <3>8, <3>9 DEF R
    <3> QED
      BY <2>3, <3>2, <3>3, <3>10 DEF Exchanges, F, R
  <2> QED
    BY <2>5, <2>6
<1>6. ASSUME NEW p \in Servers, RefreshIssues(p) PROVE \A n \in DOMAIN pairs' : Exchanges(n)'
  <2> DEFINE o == session[p].token[1]
             k == session[p].checked
             s == [session[p] EXCEPT !.step = "rotate"]
  <2>1. /\ session[p] \in [step : {"refresh", "rotate"}, token : RefreshTokens, checked : BOOLEAN]
        /\ session[p].step = "refresh"
    BY <1>0, <1>6, SessionShapes DEF RefreshIssues
  <2>2. o \in DOMAIN pairs /\ k \in BOOLEAN
        /\ s.step = "rotate" /\ s.token[1] = o /\ s.checked = k
    BY <2>1 DEF RefreshTokens
  <2>3. \A n : /\ p \notin Within(n, "rotate")
               /\ p \in Within(n, "refresh") <=> (o = n /\ k)
    BY <2>1 DEF Within
  <2> HIDE DEF s
  <2>4. CASE Ends(p) /\ UNCHANGED pairs
    <3>1. \A n : Within(n, "rotate")' = Within(n, "rotate")
      BY <1>0, <2>1, <2>4, WithinKept DEF Ends
    <3>2. \A n : Within(n, "refresh")' \subseteq Within(n, "refresh")
      <4>1. \A n : p \notin Within(n, "refresh")'
        BY <1>0, <2>4, WithinAfter DEF Ends
      <4> QED
        BY <1>0, <2>4, <4>1, WithinAfter DEF Ends, Within
    <3> QED
      BY <1>3, <2>4, <3>1, <3>2
  <2>5. CASE CreateTokenPair(o, k) /\ Goes(p, s)
    <3>1. \A n : /\ p \notin Within(n, "refresh")'
                 /\ p \in Within(n, "rotate")' <=> (o = n /\ k)
      BY <1>0, <2>2, <2>5, WithinAfter
    <3>2. \A n : /\ Within(n, "refresh")' = Within(n, "refresh") \ {p}
                 /\ Within(n, "rotate")' = Within(n, "rotate") \cup (IF o = n /\ k THEN {p} ELSE {})
      <4>1. \A n, step : Within(n, step) \subseteq Servers /\ Within(n, step)' \subseteq Servers
        BY DEF Within
      <4>2. \A n : \A q \in Servers \ {p} :
              /\ q \in Within(n, "refresh")' <=> q \in Within(n, "refresh")
              /\ q \in Within(n, "rotate")' <=> q \in Within(n, "rotate")
        BY <1>0, <2>5, WithinAfter
      <4>3. \A n : Within(n, "refresh")' = Within(n, "refresh") \ {p}
        BY <3>1, <4>1, <4>2
      <4>4. \A n : Within(n, "rotate")' = Within(n, "rotate") \cup (IF o = n /\ k THEN {p} ELSE {})
        <5> TAKE n
        <5>1. CASE o = n /\ k
          BY <3>1, <4>1, <4>2, <5>1
        <5>2. CASE ~(o = n /\ k)
          BY <2>3, <3>1, <4>1, <4>2, <5>2
        <5> QED
          BY <5>1, <5>2
      <4> QED
        BY <4>3, <4>4
    <3> DEFINE new == Len(pairs) + 1
    <3>3. /\ DOMAIN pairs' = DOMAIN pairs \cup {new} /\ new \notin DOMAIN pairs
          /\ pairs'[new].parent = o /\ pairs'[new].checked = k
          /\ \A m \in DOMAIN pairs : pairs'[m] = pairs[m]
      BY <1>0, <2>5 DEF CreateTokenPair, TokenTypes
    <3>4. \A n : Children(n)' = Children(n) \cup (IF o = n /\ k THEN {new} ELSE {})
      BY <3>3 DEF Children
    <3>5. ASSUME NEW n, n = new PROVE Exchanges(n)'
      <4>1. Within(n, "refresh")' = {}
        BY <1>14, <3>2, <3>5
      <4> QED
        BY <1>0, <2>2, <2>5, <3>5, <4>1, NewPairIsUnused
    <3>6. ASSUME NEW n \in DOMAIN pairs, ~(o = n /\ k) PROVE Exchanges(n)'
      <4>1. /\ Children(n)' = Children(n)
            /\ Within(n, "refresh")' \subseteq Within(n, "refresh")
            /\ Within(n, "rotate") \subseteq Within(n, "rotate")'
        BY <3>2, <3>4, <3>6
      <4> QED
        BY <1>0, <1>1, <1>2, <4>1, ExchangesKept
    <3>7. ASSUME NEW n \in DOMAIN pairs, o = n /\ k PROVE Exchanges(n)'
      <4> DEFINE C == Children(n)
                 F == Within(n, "refresh")
                 R == Within(n, "rotate")
      <4>1. /\ Children(n)' = C \cup {new} /\ new \notin C
            /\ Within(n, "refresh")' = F \ {p} /\ p \in F
            /\ Within(n, "rotate")' = R \cup {p} /\ p \notin R
        BY ZenonT(60), <2>3, <3>2, <3>3, <3>4, <3>7 DEF Children
      <4>2. /\ IsFiniteSet(C) /\ IsFiniteSet(F) /\ IsFiniteSet(R)
            /\ Cardinality(C) \in Nat /\ Cardinality(F) \in Nat /\ Cardinality(R) \in Nat
            /\ Cardinality(Servers) \in Nat
        BY <1>0, CountsAreNatural
      <4>3. Exchanges(n) /\ (Over(<<n, "refresh">>) => Over(<<n, "refresh">>)')
        BY <1>1, <1>2
      <4>4. Cardinality(Children(n)') = Cardinality(C) + 1
        BY <4>1, <4>2, FS_AddElement
      <4>5. Cardinality(Within(n, "refresh")') = Cardinality(F) - 1
        BY <4>1, <4>2, FS_RemoveElement
      <4>6. Cardinality(Within(n, "rotate")') = Cardinality(R) + 1
        BY <4>1, <4>2, FS_AddElement
      <4> QED
        BY <4>2, <4>3, <4>4, <4>5, <4>6 DEF Exchanges
    <3> QED
      BY <3>3, <3>5, <3>6, <3>7
  <2> QED
    BY <1>6, <2>4, <2>5 DEF RefreshIssues, s
<1>7. ASSUME NEW p \in Servers, RefreshRevokes(p) PROVE \A n \in DOMAIN pairs' : Exchanges(n)'
  <2>1. /\ session[p] \in [step : {"refresh", "rotate"}, token : RefreshTokens, checked : BOOLEAN]
        /\ session[p].step = "rotate" /\ pairs' = pairs /\ now' = now
        /\ BlacklistToken(session[p].token) /\ Ends(p)
    BY <1>0, <1>7, SessionShapes DEF RefreshRevokes
  <2>2. \A n : Within(n, "refresh")' = Within(n, "refresh")
    BY <1>0, <2>1, WithinKept DEF Ends
  <2> SUFFICES ASSUME NEW n \in DOMAIN pairs PROVE Exchanges(n)'
    BY <2>1
  <2>3. CASE session[p].token[1] = n
    <3>1. session[p].token = <<n, "refresh">>
      BY <2>1, <2>3 DEF RefreshTokens
    <3>2. Over(<<n, "refresh">>)'
      BY <1>0, <1>1, <1>2, <2>1, <3>1, BlacklistingWorks
    <3> QED
      BY <1>3, <2>1, <2>2, <3>2
  <2>4. CASE session[p].token[1] # n
    <3>1. p \notin Within(n, "rotate")
      BY <2>4 DEF Within
    <3>2. Within(n, "rotate") \subseteq Within(n, "rotate")'
      BY <1>0, <2>1, <3>1, WithinAfter DEF Ends, Within
    <3> QED
      BY <1>3, <2>1, <2>2, <3>2
  <2> QED
    BY <2>3, <2>4
<1>8. ASSUME NEW p \in Servers, NEW s, Goes(p, s), pairs' = pairs,
             session[p].step \notin {"refresh", "rotate"}, s.step \notin {"refresh", "rotate"}
      PROVE  \A n \in DOMAIN pairs' : Exchanges(n)'
  <2>1. \A n, step : step \in {"refresh", "rotate"} => Within(n, step)' = Within(n, step)
    BY <1>0, <1>8, WithinKept
  <2> QED
    BY <1>3, <1>8, <2>1
<1>9. ASSUME NEW p \in Servers, NEW n \in DOMAIN pairs, NEW r \in BOOLEAN, Logout(p, n, r)
      PROVE  \A m \in DOMAIN pairs' : Exchanges(m)'
  BY <1>8, <1>9 DEF Logout, Ends, Free
<1>10. ASSUME NEW p \in Servers, NEW t \in Tokens, Use(p, t)
       PROVE  \A m \in DOMAIN pairs' : Exchanges(m)'
  BY <1>8, <1>10 DEF Use, Free
<1>11. ASSUME NEW p \in Servers, UseFindsUser(p) \/ LogoutRevokesRefresh(p)
       PROVE  \A m \in DOMAIN pairs' : Exchanges(m)'
  BY <1>8, <1>11 DEF UseFindsUser, LogoutRevokesRefresh, Ends
<1>12. CASE Tick
  <2>1. pairs' = pairs /\ \A n, step : Within(n, step)' = Within(n, step)
    BY <1>12 DEF Tick, Within
  <2> QED
    BY <1>3, <2>1
<1>13. ~RedisFails
  BY <1>1 DEF RedisFails, TokensInv
<1> QED
  BY <1>4, <1>5, <1>6, <1>7, <1>9, <1>10, <1>11, <1>12, <1>13 DEF TokensNext

\* The invariant holds in every state, for any processes and life times.
THEOREM TokensInvariant ==
    ASSUME TokenAssumption
    PROVE  TokensSpec => []TokensInv
<1>1. TokensInit => TokensInv
  <2> SUFFICES ASSUME TokensInit PROVE TokensInv
    OBVIOUS
  <2>1. session \in [Servers -> Sessions] /\ \A p \in Servers : session[p] = [step |-> "idle"]
    BY DEF TokensInit, Sessions
  <2>2. pairs = <<>> /\ blacklist = <<>> /\ DOMAIN pairs = {} /\ DOMAIN blacklist = {} /\ Len(pairs) = 0
    BY DEF TokensInit
  <2>3. TokenTypes
    <3>1. now \in 0 .. MaxTime /\ Len(pairs) <= MaxPairs /\ pairs \in Seq(Pairs)
      BY <2>2 DEF TokensInit, TokenAssumption
    <3> QED
      BY <2>1, <2>2, <3>1 DEF TokensInit, TokenTypes
  <2>4. LogoutsKeepTheirWord
    BY <2>1 DEF LogoutsKeepTheirWord, Word
  <2> QED
    BY <2>2, <2>3, <2>4 DEF TokensInv
<1>2. TokensInv /\ [TokensNext]_tokenVars => TokensInv'
  <2> SUFFICES ASSUME TokensInv, [TokensNext]_tokenVars PROVE TokensInv'
    OBVIOUS
  <2>1. CASE TokensNext
    <3>1. TokenTypes'
      BY <2>1, TypesKept DEF TokensInv
    <3>2. LogoutsKeepTheirWord'
      BY <2>1, LogoutsStep DEF TokensInv
    <3>3. ~redisFailed' => \A n \in DOMAIN pairs' : Exchanges(n)'
      BY <2>1, <3>1, ExchangesStep
    <3> QED
      BY <3>1, <3>2, <3>3 DEF TokensInv
  <2>2. CASE UNCHANGED tokenVars
    BY ZenonT(60), <2>2 DEF tokenVars, TokensInv, TokenTypes, Pairs, Sessions, RefreshTokens, Tokens, Outlives, Expiry,
       Life, LogoutsKeepTheirWord, Word, OverTokens, Over, AlmostExpired, Exchanges, Children, Within
  <2> QED
    BY <2>1, <2>2
<1> QED
  BY <1>1, <1>2, PTL DEF TokensSpec

\* A logout that was answered has revoked both tokens while Redis never
\* failed, and a token that is on the blacklist passes no verification while
\* Redis answers, but in its last moments.
THEOREM RevocationsHold ==
    ASSUME TokenAssumption
    PROVE  TokensSpec => []TokensTypeOK /\ RevocationHolds
<1>1. TokensInv => TokensTypeOK
  BY DEF TokensInv, TokenTypes, TokensTypeOK, Pairs
<1>2. TokensInv => (~redisFailed => LogoutRevokesBoth)
  BY DEF TokensInv, LogoutsKeepTheirWord, Word, OverTokens, Over, LogoutRevokesBoth
<1>3. TokensInv /\ TokensInv' /\ [TokensNext]_tokenVars
        => [(~redisFailed => LogoutRevokesBoth)' /\ NoRevokedPasses]_tokenVars
  <2>1. TokensInv' => (~redisFailed => LogoutRevokesBoth)'
    BY <1>2, PTL
  <2>2. TokensInv /\ [TokensNext]_tokenVars => [NoRevokedPasses]_tokenVars
    BY NoRevokedTokenPasses DEF TokensInv
  <2> QED
    BY <2>1, <2>2
<1> QED
  BY <1>1, <1>2, <1>3, TokensInvariant, PTL DEF TokensSpec, RevocationHolds

\* While Redis never failed, a refresh token is exchanged at most once by
\* each server process: a rotation revokes its token last, after the others
\* may have verified it.
THEOREM ExchangesAreBounded ==
    ASSUME TokenAssumption
    PROVE  TokensSpec => []ExchangesBounded
<1>1. TokensInv => ExchangesBounded
  <2> SUFFICES ASSUME TokensInv, ~redisFailed, NEW n \in DOMAIN pairs
               PROVE  Cardinality(Children(n)) <= Cardinality(Servers)
    BY DEF ExchangesBounded, Children
  <2>1. TokenTypes /\ Exchanges(n)
    BY DEF TokensInv
  <2> QED
    BY <2>1, CountsAreNatural DEF Exchanges
<1> QED
  BY <1>1, TokensInvariant, PTL
=============================================================================
