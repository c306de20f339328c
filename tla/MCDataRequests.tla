--------------------------- MODULE MCDataRequests ---------------------------
(***************************************************************************)
(* Small instances of DataRequests.  Server processes are interchangeable. *)
(***************************************************************************)
EXTENDS DataRequests, TLC

CONSTANTS w1, w2, u1, u2, r1, r2, t1, t2

OneWorkerSet == {w1}
TwoWorkers == {w1, w2}
OneUser == {u1}
TwoUsers == {u1, u2}
OneRequest == {r1}
TwoRequests == {r1, r2}
OneTitle == {t1}
TwoTitles == {t1, t2}
OneEdit == {t2}
SameEdit == {t1}
SameOrNull == {t1, NullTitle}
TwoStatuses == {"pending", "completed"}
OneStatus == {"pending"}
KnownCategory == {"transport"}
KnownAndUnknown == {"transport", "unknown"}

AllCalls == Operations
VoteOnly == {"create", "vote"}
RacingCalls == {"create", "vote", "edit", "delete"}
VotersAndOwner == Operations \ {"status"}

ServerSymmetry == Permutations(Workers)
=============================================================================
