----------------------------- MODULE MCAccounts -----------------------------
(***************************************************************************)
(* Small instances of the parts that deal with clients and their accounts. *)
(* They share no state: a behaviour is one of a part, chosen in its        *)
(* initial state, while the others stand still, so that the states of this *)
(* run are the union of theirs.  Server processes are interchangeable.     *)
(***************************************************************************)
EXTENDS Accounts, OAuthState, TokenRotation, Preferences, RequestLimits, Sequences, TLC

CONSTANTS Explored, p1, p2, p3, u1, u2, e1, e2, g1, n1, n2, s1, s2

Two == {p1, p2}
Three == {p1, p2, p3}
TwoIds == {u1, u2}
TwoEmails == {e1, e2}
OneIdentity == {g1}
TwoParts == {n1, n2}
TwoStates == {s1, s2}
AllParts == {"users", "settings", "login", "race", "clock", "limits", "preferences"}
ServerSymmetry == Permutations(Two)

VARIABLE part

ASSUME TokenAssumption /\ LimitsAssumption

-----------------------------------------------------------------------------
\* Accounts and log-ins; and settings of accounts with a password.
UsersNext ==
    /\ AccountsNext
    /\ \A w \in Two : call'[w].step \notin {"get_settings", "put_name", "put_settings"}
SettingsNext == AccountsNext /\ UNCHANGED reported /\ Cardinality(usedIds') <= 1

\* Rotations that overlap, while Redis works, within a second; and one
\* rotation, up to the end of the tokens' lives, with Redis failing.
RaceNext == TokensNext /\ redisUp' /\ now' <= 1
ClockNext == TokensNext /\ Len(pairs') <= 2

Init ==
    /\ part \in Explored
    /\ AccountsInit /\ OAuthInit /\ TokensInit /\ PrefsInit
    /\ LimitsInit /\ (part # "limits" => mode = [p \in Two |-> "redis"])

\* What stays comes first: TLC then looks at it once for all steps of a part.
Next ==
    \/ part \in {"users", "settings"} /\ UNCHANGED <<part, oauthVars, tokenVars, limitVars, prefsVars>>
         /\ IF part = "users" THEN UsersNext ELSE SettingsNext
    \/ part = "login" /\ UNCHANGED <<part, accountVars, tokenVars, limitVars, prefsVars>>
         /\ OAuthNext
    \/ part \in {"race", "clock"} /\ UNCHANGED <<part, accountVars, oauthVars, limitVars, prefsVars>>
         /\ IF part = "race" THEN RaceNext ELSE ClockNext
    \/ part = "limits" /\ UNCHANGED <<part, accountVars, oauthVars, tokenVars, prefsVars>>
         /\ LimitsNext
    \/ part = "preferences" /\ UNCHANGED <<part, accountVars, oauthVars, tokenVars, limitVars>>
         /\ PrefsNext

vars == <<part, accountVars, oauthVars, tokenVars, limitVars, prefsVars>>
Spec == Init /\ [][Next]_vars

-----------------------------------------------------------------------------
\* Every part keeps the types of its variables.
TypeOK == AccountsTypeOK /\ OAuthTypeOK /\ TokensTypeOK /\ LimitsTypeOK /\ PrefsTypeOK
=============================================================================
