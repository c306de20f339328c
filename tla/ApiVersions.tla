----------------------------- MODULE ApiVersions -----------------------------
(***************************************************************************)
(* API versions and the migration of requests and responses between them   *)
(* (core/api_integration/versioning.py).  A migration suspends between its *)
(* steps, and versions and migrations are registered meanwhile; nothing is *)
(* ever taken back, since deprecate_version only sets flags.  Calls meet   *)
(* in the registries alone, so that one is followed at a time.             *)
(***************************************************************************)
EXTENDS Naturals, FiniteSets, FiniteSetsExt, SequencesExt

CONSTANTS
    Versions, V1,
    Retired,        \* versions registered as not active
    Steps,          \* the migrations that may be registered: <<from, to>>
    Targets,        \* the versions asked for
    Incoming        \* the versions a request bears and names in path, header, query

ApiVersionsAssumption ==
    /\ V1 \in Versions \ Retired
    /\ IsFiniteSet(Versions)
    /\ Steps \subseteq Versions \X Versions /\ Targets \subseteq Versions
    /\ Incoming \subseteq Seq(Versions) \ {<<>>}

VARIABLES
    supported,      \* _supported_versions
    migrations,     \* _migrations: version -> where to, in order of registration
    default,        \* _default_version
    migrating       \* the last migrate_request or migrate_response
versionVars == <<supported, migrations, default, migrating>>

Registered == DOMAIN migrations
NoMigration == [step |-> "none"]

VersionsInit ==
    /\ supported = {V1} /\ default = V1
    /\ migrations = [v \in {V1} |-> <<>>]
    /\ migrating = NoMigration

Stay == UNCHANGED <<supported, migrations, default>>

-----------------------------------------------------------------------------
RegisterVersion(v) ==
    /\ v \notin Registered
    /\ migrations' = [u \in Registered \cup {v} |-> IF u = v THEN <<>> ELSE migrations[u]]
    /\ supported' = IF v \in Retired THEN supported ELSE supported \cup {v}
    /\ UNCHANGED <<default, migrating>>

\* Any registered version will do, one that is not supported included.
SetDefaultVersion(v) ==
    /\ v \in Registered
    /\ default' = v
    /\ UNCHANGED <<supported, migrations, migrating>>

\* A second migration between the same versions takes the place of the first.
RegisterMigration(from, to) ==
    /\ {from, to} \subseteq Registered
    /\ to \notin ToSet(migrations[from])
    /\ migrations' = [migrations EXCEPT ![from] = Append(@, to)]
    /\ UNCHANGED <<supported, default, migrating>>

\* The first place of a request that names a supported version.
ExtractVersion(request) ==
    LET named == {i \in DOMAIN request : request[i] \in supported} IN
    IF named = {} THEN default ELSE request[Min(named)]

DepthFirst(queue, path) == <<path>> \o queue   \* as if the queue were a stack
InTurn(queue, path) == Append(queue, path)

Enqueue(queue, path) == InTurn(queue, path)

Ways(version) == IF version \in Registered THEN migrations[version] ELSE <<>>

\* _find_migration_path: a search breadth first, each version reached by the
\* first path that comes to it.  It has a path in hand, the versions that the
\* last of that one leads to and that it has not looked at yet, and the paths
\* in its queue.  At the target nothing is left to look at.
FirstLook(source) ==
    [path |-> <<source>>, rest |-> Ways(source), queue |-> <<>>, visited |-> {source}, found |-> <<>>]
LookAt(s, version, target) ==
    IF version = target
    THEN [s EXCEPT !.rest = <<>>, !.queue = <<>>, !.found = Append(s.path, version)]
    ELSE IF version \in s.visited THEN [s EXCEPT !.rest = Tail(@)]
    ELSE [s EXCEPT !.rest = Tail(@), !.visited = @ \cup {version},
                   !.queue = Enqueue(@, Append(s.path, version))]
NextLook(s, target) ==
    IF s.rest # <<>> THEN LookAt(s, Head(s.rest), target)
    ELSE IF s.queue # <<>>
         THEN [s EXCEPT !.path = Head(s.queue), !.queue = Tail(@), !.rest = Ways(Last(Head(s.queue)))]
    ELSE s

\* <<>> stands for None.  Each version is taken from the queue once at most.
FindMigrationPath(source, target) ==
    LET most == Cardinality(Versions) * (Cardinality(Versions) + 1)
        look[n \in Nat] == IF n = 0 THEN FirstLook(source) ELSE NextLook(look[n - 1], target)
    IN  IF source = target THEN <<source>> ELSE look[most].found

\* What so many migrations lead to from a version at most, and the length of
\* the shortest way to another: 0 without one.
Reached(source) ==
    LET reached[n \in Nat] ==
            IF n = 0 THEN {source}
            ELSE reached[n - 1] \cup UNION {ToSet(Ways(v)) : v \in reached[n - 1]}
    IN  reached
Shortest(source, target) ==
    LET near == {n \in 0 .. Cardinality(Registered) - 1 : target \in Reached(source)[n]} IN
    IF near = {} THEN 0 ELSE 1 + Min(near)

SetsOut(kind, path, source, sent, target) ==
    migrating' = [step |-> IF Len(path) > 1 THEN kind ELSE "over", kind |-> kind,
                  path |-> path, left |-> IF path = <<>> THEN 0 ELSE Len(path) - 1,
                  source |-> source, version |-> sent, sent |-> sent, target |-> target,
                  least |-> Shortest(source, target)]

\* migrate_request and migrate_response, as far as the first migration, which
\* is the first to set the version: a request taken for a version that its
\* path names, say, bears till then the one it was sent with.  Without a path,
\* or with no way to go, both hand back what they were given.
MigrateRequest(request, target) ==
    /\ migrating.step \in {"none", "over"}
    /\ LET source == ExtractVersion(request) IN
       SetsOut("request", FindMigrationPath(source, target), source, request[1], target)
    /\ Stay
MigrateResponse(source, target) ==
    /\ migrating.step \in {"none", "over"}
    /\ SetsOut("response", FindMigrationPath(source, target), source, source, target)
    /\ Stay

Passes(version) ==
    migrating' = [migrating EXCEPT !.left = @ - 1, !.version = version,
                              !.step = IF migrating.left = 1 THEN "over" ELSE @]
\* One migration of a request, forward along the path.
RequestMigrates ==
    /\ migrating.step = "request"
    /\ Passes(migrating.path[Len(migrating.path) - migrating.left + 1])
    /\ Stay
\* One migration of a response: from the far end of the path backward, to
\* the version the response came with.
ResponseMigrates ==
    /\ migrating.step = "response"
    /\ Passes(migrating.path[migrating.left])
    /\ Stay
\* A migration raises; the caller's object keeps the version it had reached.
MigrationFails ==
    /\ migrating.step \in {"request", "response"}
    /\ migrating' = [migrating EXCEPT !.step = "over"]
    /\ Stay

VersionsNext ==
    \/ \E v \in Versions : RegisterVersion(v) \/ SetDefaultVersion(v)
    \/ \E s \in Steps : RegisterMigration(s[1], s[2])
    \/ \E r \in Incoming, t \in Targets : MigrateRequest(r, t)
    \/ \E s \in supported, t \in Targets : MigrateResponse(s, t)
    \/ RequestMigrates \/ ResponseMigrates \/ MigrationFails
VersionsSpec == VersionsInit /\ [][VersionsNext]_versionVars

-----------------------------------------------------------------------------
VersionsTypeOK ==
    /\ {V1, default} \subseteq Registered /\ Registered \subseteq Versions
    /\ supported = Registered \ Retired
    /\ \A v \in Registered : IsInjective(migrations[v]) /\ ToSet(migrations[v]) \subseteq Registered
    /\ migrating # NoMigration =>
         /\ migrating.step \in {"request", "response", "over"}
         /\ {migrating.source, migrating.sent, migrating.version, migrating.target} \subseteq Versions

\* However versions and migrations are registered while it is under way, a
\* request or a response goes step by step along registered migrations, by as
\* few of them as there could be when it set out, between the version asked
\* for and the one it was taken for; the version of a request is that of the
\* last migration it passed, and until there is one that it was sent with.
MigratesByTheShortestWay ==
    migrating # NoMigration =>
        /\ Len(migrating.path) = migrating.least
        /\ migrating.path # <<>> =>
             /\ migrating.path[1] = migrating.source /\ Last(migrating.path) = migrating.target
             /\ \A i \in 1 .. Len(migrating.path) - 1 :
                  migrating.path[i + 1] \in ToSet(migrations[migrating.path[i]])
        /\ migrating.kind = "request" =>
             migrating.version = IF migrating.left < Len(migrating.path) - 1
                                 THEN migrating.path[Len(migrating.path) - migrating.left]
                                 ELSE migrating.sent
=============================================================================
