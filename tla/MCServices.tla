----------------------------- MODULE MCServices -----------------------------
(***************************************************************************)
(* Small instances of the parts that collect, keep and serve data, and of  *)
(* the gateway's.  They share no state: a behaviour is one of a part,      *)
(* chosen in its initial state, while the others stand still, so that the  *)
(* states of a run are the union of theirs.                                *)
(***************************************************************************)
EXTENDS BatchCollection, Listing, Collection, ApiClient, DataSources, Container,
        EventBus, Pipeline, GatewayLimits, GatewayRequests, ApiProcessor, MessageBus,
        ApiVersions, Sequences, TLC

CONSTANTS Explored, c1, c2, c3, d1, d2, d3, e1, e2, h1, h2, h3, a1, s1, none, t1, t2, t3, t4, t5

Two == {c1, c2}
Three == {c1, c2, c3}
OneSource == {s1}
AllParts == {"batch", "listing", "fetch", "clean", "api", "sync", "sources",
             "bus", "gateway", "container", "gateway_limits", "messages",
             "processor", "requests", "versions"}
OnlyApi == {"api"}
UpToOne == {0, 1}
TwoEvents == {e1, e2}
ThreeHandlers == {h1, h2, h3}
TwoOfThem == {h2, h3}
TwoMiddlewares == {h1, h2}

\* A list, and an item by its number; a transformer that renames a parameter
\* knows nothing of the new name.
ListAndItem ==
    [path : {"item"}, query : {d1, d2}, named : {FALSE}, cacheable : BOOLEAN]
    \cup [path : {"list"}, query : {d1}, named : BOOLEAN, cacheable : {TRUE}]
Renamed == (d1 :> d2) @@ (d2 :> d3)
ListOrId == {"list", "{id}"}
ItemMatches(pattern, path) == pattern = path \/ (pattern = "{id}" /\ path = "item")

VARIABLE part

\* Fetches of a page that names an announcement twice, or once.
OneReader == {c1}
ThreeDocs == {d1, d2, d3}
OneAnnouncement == {a1}
OneCleaner == {c3}
PagesOfItems == {<<a1, a1>>, <<a1>>}
TwoEndpoints == {"announcement", "business"}

ThePhases ==
    (h1 :> {"pre_request", "post_response"}) @@ (h2 :> {"pre_request"}) @@ (h3 :> {"pre_request"})
TheOrder == (h1 :> 1) @@ (h2 :> 2) @@ (h3 :> 3)
PreRequest == <<"pre_request">>
PostResponse == <<"post_response">>

\* Two services with their repositories, which share an optional parameter
\* that is not registered, and a service that is not registered itself.
TheServices == {t1, t2, t5}
TheBound == {t1, t2, t3, t4}
TheNeeds == (t1 :> <<t3, a1>>) @@ (t2 :> <<t4, a1>>) @@ (t3 :> <<s1>>) @@ (t4 :> <<s1>>)
            @@ (t5 :> <<>>) @@ (a1 :> <<>>) @@ (s1 :> <<>>)

\* Two ways from t1 to t4, the longer through a version that is not active.
FiveVersions == {t1, t2, t3, t4, t5}
RetiredVersions == {t5}
TwoTargets == {t1, t4}
TwoWays == {<<t1, t2>>, <<t1, t3>>, <<t2, t4>>, <<t3, t5>>, <<t5, t4>>}
ThoseNamed == {<<t1>>, <<t5, t3>>}

ASSUME BusAssumption /\ GatewayAssumption /\ ApiProcessorAssumption /\ ApiVersionsAssumption
ASSUME ContainerAssumption /\ GatewayLimitsAssumption /\ PipelineAssumption
ASSUME ListingAssumption /\ CollectionAssumption /\ ApiAssumption

-----------------------------------------------------------------------------
\* The event bus, the command and query buses, an API processor, and the
\* gateway's requests.
TheCalls == <<messageBusVars, apiProcessorVars, gatewayVars>>
TheOthers == <<busVars, TheCalls, versionVars>>

\* Fetches that overlap, while editors create documents and change fetched
\* ones; and a clean-up while the batch stores documents and editors change
\* their numbers and deactivate them.
FetchNext ==
    /\ UNCHANGED <<cleaning, renumbered>> /\ CollectionNext
    /\ \A d \in Stored' : doc'[d].number = a1 /\ doc'[d].origin # "batch"
    /\ \A d \in Stored' \ Stored : doc'[d].business = a1
    /\ \A d \in Stored : doc[d].origin = "editor" => doc'[d] = doc[d]
    /\ doc' = doc => fetching' # fetching
CleanNext ==
    /\ UNCHANGED <<fetching, edits>> /\ CollectionNext
    /\ \A d \in Stored' : doc'[d].origin = "batch" /\ doc'[d].business = none

\* Of a part with several initial states, the other parts take one.
Init ==
    /\ part \in Explored
    /\ BatchInit /\ SourcesInit /\ PipelineInit
    /\ CollectionInit /\ ListingInit /\ (part # "listing" => rows = <<>>)
    /\ ApiInit /\ (part # "api" => endpoint = "business")
    /\ ContainerInit /\ GatewayLimitsInit
    /\ (part # "gateway_limits" => algorithm = "quota" /\ ~overRedis)
    /\ BusInit /\ (part # "bus" => handlers = <<>>)
    /\ MessageBusInit /\ (part # "messages" => ~caching)
    /\ ApiProcessorInit /\ GatewayInit /\ VersionsInit

\* What stays comes first: TLC then looks at it once for all steps of a part.
Next ==
    \/ part = "batch"
         /\ UNCHANGED <<part, listingVars, collectionVars, apiVars, sourceVars,
                        pipelineVars, containerVars, gatewayLimitVars, TheOthers>>
         /\ BatchNext
    \/ part = "listing"
         /\ UNCHANGED <<part, batchVars, collectionVars, apiVars, sourceVars,
                        pipelineVars, containerVars, gatewayLimitVars, TheOthers>>
         /\ ListingNext /\ writes' + errors' <= 2
    \/ part \in {"fetch", "clean"}
         /\ UNCHANGED <<part, batchVars, listingVars, apiVars, sourceVars,
                        pipelineVars, containerVars, gatewayLimitVars, TheOthers>>
         /\ \/ part = "fetch" /\ FetchNext
            \/ part = "clean" /\ CleanNext
    \/ part \in {"api", "sync"}
         /\ UNCHANGED <<part, batchVars, listingVars, collectionVars, sourceVars,
                        pipelineVars, containerVars, gatewayLimitVars, TheOthers>>
         /\ \/ part = "api" /\ AsyncNext
            \/ part = "sync" /\ SyncNext
    \/ part = "sources"
         /\ UNCHANGED <<part, batchVars, listingVars, collectionVars, apiVars,
                        pipelineVars, containerVars, gatewayLimitVars, TheOthers>>
         /\ SourcesNext
    \/ part = "gateway"
         /\ UNCHANGED <<part, batchVars, listingVars, collectionVars, apiVars, sourceVars,
                        containerVars, gatewayLimitVars, TheOthers>>
         /\ PipelineNext
    \/ part = "container"
         /\ UNCHANGED <<part, batchVars, listingVars, collectionVars, apiVars, sourceVars,
                        pipelineVars, gatewayLimitVars, TheOthers>>
         /\ ContainerNext
    \/ part = "gateway_limits"
         /\ UNCHANGED <<part, batchVars, listingVars, collectionVars, apiVars, sourceVars,
                        pipelineVars, containerVars, TheOthers>>
         /\ GatewayLimitsNext
    \/ part \in {"bus", "messages", "processor", "requests", "versions"}
         /\ UNCHANGED <<part, batchVars, listingVars, collectionVars, apiVars, sourceVars,
                        pipelineVars, containerVars, gatewayLimitVars>>
         /\ \/ part = "bus" /\ UNCHANGED <<TheCalls, versionVars>> /\ BusNext
            \/ part = "messages" /\ UNCHANGED <<busVars, apiProcessorVars, gatewayVars, versionVars>>
                 /\ MessageBusNext
            \/ part = "processor" /\ UNCHANGED <<busVars, messageBusVars, gatewayVars, versionVars>>
                 /\ ApiProcessorNext
            \/ part = "requests" /\ UNCHANGED <<busVars, messageBusVars, apiProcessorVars, versionVars>>
                 /\ GatewayNext
            \/ part = "versions" /\ UNCHANGED <<busVars, TheCalls>> /\ VersionsNext

vars == <<part, batchVars, listingVars, collectionVars, apiVars, sourceVars, pipelineVars,
          containerVars, gatewayLimitVars, TheOthers>>
Spec == Init /\ [][Next]_vars

\* The fairness of BatchCollection and of Listing, within their parts.
FairSpec ==
    /\ Spec
    /\ WF_batchVars(part = "batch" /\ BatchNext)
    /\ WF_listingVars(part = "listing" /\ Serve(c1))
    /\ \A p \in 1 .. 3 : WF_listingVars(part = "listing" /\ Expire(p))

-----------------------------------------------------------------------------
\* The part that moves keeps the types of its variables.
TypeOK ==
    CASE part = "batch" -> BatchTypeOK
      [] part = "listing" -> ListingTypeOK
      [] part \in {"fetch", "clean"} -> CollectionTypeOK
      [] part \in {"api", "sync"} -> ApiTypeOK
      [] part = "sources" -> SourcesTypeOK
      [] part = "bus" -> BusTypeOK
      [] part = "gateway" -> PipelineTypeOK
      [] part = "container" -> ContainerTypeOK
      [] part = "gateway_limits" -> GatewayLimitsTypeOK
      [] part = "messages" -> MessageBusTypeOK
      [] part = "processor" -> ApiProcessorTypeOK
      [] part = "requests" -> GatewayTypeOK
      [] part = "versions" -> VersionsTypeOK

\* A batch that began ends.
CollectionEnds == part = "batch" => BatchEnds
=============================================================================
