---------------------------- MODULE Preferences -----------------------------
(***************************************************************************)
(* The notification preferences of a user (domains/alerts): the routes     *)
(* that read, change and reset them.  The driver is asynchronous and there *)
(* are several server processes; an action is the code from one database   *)
(* call to the next.  A document is told by the fields that were changed.  *)
(***************************************************************************)
EXTENDS Naturals, FiniteSets

CONSTANTS
    Clients,        \* requests for the same user in progress at a time
    Fields          \* what an update may change

VARIABLES
    prefs,          \* the collection notification_preferences: the user's document
    asking,         \* per client, the next step of its request and its locals
    replied         \* per client, the reply to its last request
prefsVars == <<prefs, asking, replied>>

\* reset: the preferences were deleted since the request began (history).
Quiet == [step |-> "idle", changes |-> {}, reset |-> FALSE]
NoReply == [code |-> 0, changes |-> {}, shown |-> {}, reset |-> FALSE]

PrefsInit ==
    /\ prefs = {}
    /\ asking = [c \in Clients |-> Quiet]
    /\ replied = [c \in Clients |-> NoReply]

Exists == prefs # {}
Proceed(c, step, changes) ==
    /\ asking' = [asking EXCEPT ![c].step = step, ![c].changes = changes]
    /\ replied' = [replied EXCEPT ![c] = NoReply]
Respond(c, code, shown) ==
    /\ asking' = [asking EXCEPT ![c] = Quiet]
    /\ replied' = [replied EXCEPT ![c] =
         [code |-> code, changes |-> asking[c].changes, shown |-> shown,
          reset |-> asking[c].reset]]

\* get_user_preferences: the defaults are stored when there is nothing.
GetPreferences(c) ==
    /\ asking[c] = Quiet
    /\ \/ \E p \in prefs : Respond(c, 200, p)
       \/ ~Exists /\ Proceed(c, "insert_defaults", {})
    /\ UNCHANGED prefs

InsertOverOther(c) ==   \* as if an existing document were replaced
    /\ asking[c].step = "insert_defaults"
    /\ prefs' = {{}} /\ Respond(c, 200, {})

\* insert_one: the unique index on user_id refuses a second document, and
\* nobody catches the error.  The reply has the ObjectId itself, where others
\* have its text: whether it can be encoded is the framework's choice.
InsertDefaults(c) ==
    /\ asking[c].step = "insert_defaults"
    /\ \/ ~Exists /\ prefs' = {{}} /\ \E code \in {200, 500} : Respond(c, code, {})
       \/ Exists /\ UNCHANGED prefs /\ Respond(c, 500, {})

\* An update without a value reads what there is.
PutNothing(c) ==
    /\ asking[c] = Quiet
    /\ \/ \E p \in prefs : Respond(c, 200, p)
       \/ ~Exists /\ Respond(c, 404, {})
    /\ UNCHANGED prefs

UpdatePreferences(c, changes) ==
    /\ asking[c] = Quiet /\ changes # {}
    /\ prefs' = {p \cup changes : p \in prefs}
    /\ Proceed(c, IF Exists THEN "reread" ELSE "insert_changed", changes)

InsertChanged(c) ==
    /\ asking[c].step = "insert_changed"
    /\ \/ ~Exists /\ prefs' = {asking[c].changes} /\ Proceed(c, "reread", asking[c].changes)
       \/ Exists /\ UNCHANGED prefs /\ Respond(c, 500, {})

Reread(c) ==
    /\ asking[c].step = "reread"
    /\ \/ \E p \in prefs : Respond(c, 200, p)
       \/ ~Exists /\ Respond(c, 500, {})
    /\ UNCHANGED prefs

DeletePreferences(c) ==
    /\ asking[c] = Quiet
    /\ prefs' = {}
    /\ replied' = [replied EXCEPT ![c] = [NoReply EXCEPT !.code = 200]]
    /\ asking' = [d \in Clients |->
                    IF asking[d] = Quiet THEN Quiet ELSE [asking[d] EXCEPT !.reset = TRUE]]

\* A database call fails, or the process dies: nothing is undone.
Aborts(c) ==
    /\ asking[c] # Quiet
    /\ Respond(c, 500, {})
    /\ UNCHANGED prefs

PrefsNext ==
    \E c \in Clients :
        \/ GetPreferences(c) \/ InsertDefaults(c) \/ PutNothing(c)
        \/ \E changes \in SUBSET Fields : UpdatePreferences(c, changes)
        \/ InsertChanged(c) \/ Reread(c) \/ DeletePreferences(c) \/ Aborts(c)
PrefsSpec == PrefsInit /\ [][PrefsNext]_prefsVars

-----------------------------------------------------------------------------
PrefsTypeOK ==
    /\ prefs \subseteq SUBSET Fields /\ Cardinality(prefs) <= 1
    /\ asking \in [Clients ->
         [step : {"idle", "insert_defaults", "insert_changed", "reread"},
          changes : SUBSET Fields, reset : BOOLEAN]]
    /\ replied \in [Clients ->
         [code : {0, 200, 404, 500}, changes : SUBSET Fields,
          shown : SUBSET Fields, reset : BOOLEAN]]

\* Requests of a user that race to create the document do not undo one
\* another: only a deletion takes a change away, and an update that is
\* answered 200 shows all it changed unless a deletion came in between.
UpdatesStay ==
    /\ \A p \in prefs : prefs' = {} \/ \E q \in prefs' : p \subseteq q
    /\ \A c \in Clients :
         replied'[c].code = 200 /\ ~replied'[c].reset =>
            replied'[c].changes \subseteq replied'[c].shown
UpdatesKept == [][UpdatesStay]_prefsVars
=============================================================================
