-------------------------- MODULE Services_proofs ---------------------------
(***************************************************************************)
(* What the services keep between their calls, for any number of callers,  *)
(* threads, documents and pages.                                           *)
(*                                                                         *)
(* The data source manager: the registry tells what the monitor and the    *)
(* factory hold, and loops end with the manager.                           *)
(*                                                                         *)
(* The API client: a call that nothing overlapped is answered from its own *)
(* endpoint with a client that is open, because between its steps the      *)
(* shared client and endpoint are those it set itself; and the nested      *)
(* loops of the synchronous client send what their two counters say.       *)
(*                                                                         *)
(* The listing: a walk that is answered from the database, while nothing   *)
(* is removed, misses no document.  Of what it owes, the rows before the   *)
(* page it asks for were all seen, and an insertion moves rows only back,  *)
(* among those it has yet to see.                                          *)
(*                                                                         *)
(* The collection: of two active copies a fetch stored, one is accounted   *)
(* for by an overlapping fetch, a failed check or an edit, because the     *)
(* copies and the fetches about to store one never exceed these; and one   *)
(* clean-up never lists every document of a numbered announcement, because *)
(* the one updated last is not outdated.                                   *)
(*                                                                         *)
(* The container: the threads' nested calls are what the stack they share  *)
(* holds, type by type, because each call removes as many entries as it    *)
(* appended, whichever these are; the types of one thread's calls go down  *)
(* the layers, so that it never waits for itself.                          *)
(*                                                                         *)
(* The batch: what is stored is what the report will count once the        *)
(* outcomes that wait for the end of their chunk are added, in whatever    *)
(* order they came, and what was inserted but answered as failed; the sum  *)
(* is taken apart by induction on the pages.                               *)
(***************************************************************************)
EXTENDS DataSources, ApiClient, Listing, Collection, Container, BatchCollection,
        Integers, FiniteSetTheorems, SequenceTheorems, TLAPS

-----------------------------------------------------------------------------
(* The data source manager                                                 *)

Ops ==
    {Idle} \cup [step : {"initializing", "waiting", "stopping"}]
    \cup [step : {"reloading"}, source : Sources]
    \cup [step : {"deactivating"}, left : SUBSET Sources]

StatusInv ==
    /\ status \in [Sources -> Statuses]
    /\ {monitored, cached, revived} \subseteq SUBSET Sources
    /\ StatusTellsTheRest

StandsAt(c, stage) == op[c].step = stage
NothingRuns == \A l \in Loops : running[l] = 0

\* Loops and who is about to begin or to end them.  Nothing is known of
\* them once raced, but that a remembered loop is one that is alive.
LoopsInv ==
    /\ started \in BOOLEAN /\ raced \in BOOLEAN
    /\ running \in [Loops -> 0 .. MaxLoops] /\ owned \in [Loops -> BOOLEAN]
    /\ op \in [Callers -> Ops]
    /\ \A l \in Loops : owned[l] => running[l] > 0
    /\ ~raced =>
        /\ \A l \in Loops : running[l] = IF owned[l] THEN 1 ELSE 0
        /\ ~started => NothingRuns
        /\ \A c \in Callers : StandsAt(c, "initializing") =>
             /\ ~started
             /\ \A d \in Callers : StandsAt(d, "initializing") => d = c
             /\ \A d \in Callers : ~StandsAt(d, "stopping") /\ ~StandsAt(d, "deactivating")
        /\ \A c \in Callers : StandsAt(c, "stopping") => running["discovery"] = 0
        /\ \A c \in Callers : StandsAt(c, "deactivating") => NothingRuns

ManagerInv == StatusInv /\ LoopsInv

-----------------------------------------------------------------------------
(* The registry                                                            *)

LEMMA BecomesKeeps ==
    ASSUME StatusInv, NEW s \in Sources, NEW new \in Statuses, Becomes(s, new),
           monitored' \in SUBSET Sources, cached' \in SUBSET Sources,
           monitored' \ {s} = monitored \ {s}, cached' \ {s} = cached \ {s},
           new = "active" => s \in monitored',
           new = "inactive" => s \notin monitored' \cup cached'
    PROVE  StatusInv'
<1>1. /\ status' \in [Sources -> Statuses] /\ revived' \in SUBSET Sources
      /\ \A x \in Sources : status'[x] = IF x = s THEN new ELSE status[x]
  BY DEF Becomes, StatusInv
<1>2. ASSUME NEW x \in Sources
      PROVE  /\ status'[x] = "active" /\ x \notin revived' => x \in monitored'
             /\ status'[x] = "inactive" => x \notin monitored' \cup cached'
  <2>1. CASE x = s
    BY <1>1, <2>1
  <2>2. CASE x # s
    BY <1>1, <2>2 DEF Becomes, StatusInv, StatusTellsTheRest
  <2> QED
    BY <2>1, <2>2
<1> QED
  BY <1>1, <1>2 DEF StatusInv, StatusTellsTheRest

LEMMA SameSources ==
    ASSUME StatusInv, UNCHANGED <<status, monitored, cached, revived>>
    PROVE  StatusInv'
  BY DEF StatusInv, StatusTellsTheRest

LEMMA ActivatedKeeps ==
    ASSUME StatusInv, NEW s \in Sources, Activated(s)
    PROVE  StatusInv'
<1>0. monitored \in SUBSET Sources /\ cached \in SUBSET Sources
  BY DEF StatusInv
<1>1. CASE FullStack(s, TRUE) /\ StartMonitoring(s)
  <2>1. PICK checked \in ClientChecked : Becomes(s, checked)
    BY <1>1 DEF StartMonitoring
  <2>2. monitored' = monitored \cup {s} /\ cached' = cached \cup {s}
    BY <1>1 DEF StartMonitoring, FullStack
  <2>3. checked \in Statuses /\ checked # "inactive"
    BY <2>1 DEF ClientChecked, Statuses
  <2> QED
    BY <1>0, <2>1, <2>2, <2>3, BecomesKeeps
<1>2. CASE FullStack(s, FALSE) /\ Becomes(s, "error") /\ UNCHANGED monitored
  <2>1. cached' = cached \cup {s} \/ cached' = cached
    BY <1>2 DEF FullStack
  <2> QED
    BY <1>0, <1>2, <2>1, BecomesKeeps DEF Statuses
<1>3. CASE UNCHANGED <<status, monitored, cached, revived>>
  BY <1>3, SameSources
<1> QED
  BY <1>1, <1>2, <1>3 DEF Activated

LEMMA DeactivatedKeeps ==
    ASSUME StatusInv, NEW s \in Sources, Deactivated(s)
    PROVE  StatusInv'
<1>0. monitored \in SUBSET Sources /\ cached \in SUBSET Sources
  BY DEF StatusInv
<1>1. CASE status[s] = "active"
  BY <1>0, <1>1, BecomesKeeps DEF Deactivated, StopMonitoring, ClearCache, Statuses
<1>2. CASE status[s] # "active"
  BY <1>2, SameSources DEF Deactivated
<1> QED
  BY <1>1, <1>2

LEMMA ValidateKeeps ==
    ASSUME StatusInv, NEW s \in Sources, Validate(s)
    PROVE  StatusInv'
<1>1. PICK checked \in ClientChecked : status' = [status EXCEPT ![s] = checked]
  BY DEF Validate
<1>2. /\ status' \in [Sources -> Statuses] /\ checked \in {"active", "error"}
      /\ \A x \in Sources : status'[x] = IF x = s THEN checked ELSE status[x]
  BY <1>1 DEF StatusInv, ClientChecked, Statuses
<1>3. monitored' = monitored /\ cached' = cached
  BY DEF Validate
<1>4. CASE status'[s] = "active" /\ status[s] # "active"
  <2>1. revived' = revived \cup {s}
    BY <1>4 DEF Validate
  <2> QED
    BY <1>2, <1>3, <2>1 DEF StatusInv, StatusTellsTheRest
<1>5. CASE ~(status'[s] = "active" /\ status[s] # "active")
  <2>1. revived' = revived \ {x \in {s} : status'[x] # "active"}
    BY <1>5 DEF Validate
  <2>2. \A x \in Sources \ {s} : x \in revived' <=> x \in revived
    BY <2>1
  <2>3. status'[s] = "active" => status[s] = "active" /\ (s \in revived' <=> s \in revived)
    BY <1>5, <2>1
  <2>4. revived' \in SUBSET Sources
    BY <2>1 DEF StatusInv
  <2> QED
    BY <1>2, <1>3, <2>2, <2>3, <2>4 DEF StatusInv, StatusTellsTheRest
<1> QED
  BY <1>4, <1>5

LEMMA RegistryStep ==
    ASSUME StatusInv, LoopsInv, SourcesNext
    PROVE  StatusInv'
<1>0. monitored \in SUBSET Sources /\ cached \in SUBSET Sources
  BY DEF StatusInv
<1>1. ASSUME NEW c \in Callers,
             \/ Initialize(c) \/ Returns(c) \/ \E success \in BOOLEAN : InitializeEnds(c, success)
             \/ Shutdown(c) \/ ShutdownStopsHealth(c) \/ ShutdownEnds(c)
      PROVE  StatusInv'
  BY <1>1, SameSources
  DEF Initialize, Returns, InitializeEnds, Shutdown, ShutdownStopsHealth, ShutdownEnds
<1>2. ASSUME NEW c \in Callers, ReloadActivates(c) PROVE StatusInv'
  <2>1. op[c].source \in Sources
    BY <1>2 DEF ReloadActivates, LoopsInv, Ops, Idle
  <2> QED
    BY <1>2, <2>1, ActivatedKeeps, SameSources DEF ReloadActivates
<1>3. ASSUME NEW c \in Callers, NEW s \in Sources, Activate(c, s) PROVE StatusInv'
  BY <1>3, ActivatedKeeps DEF Activate
<1>4. ASSUME NEW c \in Callers, NEW s \in Sources,
             Deactivate(c, s) \/ Reload(c, s) \/ ShutdownDeactivates(c, s)
      PROVE  StatusInv'
  BY <1>4, DeactivatedKeeps DEF Deactivate, Reload, ShutdownDeactivates
<1>5. ASSUME NEW s \in Sources, Discover(s) \/ CheckHealth(s) \/ Unregister(s) PROVE StatusInv'
  <2>1. UNCHANGED <<monitored, cached>>
    BY <1>5 DEF Discover, CheckHealth, Unregister
  <2>2. Becomes(s, "registered") \/ Becomes(s, "error") \/ Becomes(s, "absent")
    BY <1>5 DEF Discover, RegisterFromPlugin, CheckHealth, Unregister, Becomes
  <2> QED
    BY <1>0, <2>1, <2>2, BecomesKeeps DEF Statuses
<1> QED
  BY <1>1, <1>2, <1>3, <1>4, <1>5, ValidateKeeps DEF SourcesNext

-----------------------------------------------------------------------------
(* The loops                                                               *)

\* A caller goes on with something that neither begins nor ends a loop.
LEMMA GoesQuietly ==
    ASSUME LoopsInv, NEW c \in Callers, NEW o \in Ops, Goes(c, o), LoopsKept, UNCHANGED raced,
           o.step \notin {"initializing", "stopping"},
           o.step = "deactivating" => StandsAt(c, "deactivating")
    PROVE  LoopsInv'
<1>1. /\ op' \in [Callers -> Ops]
      /\ \A d \in Callers : op'[d] = IF d = c THEN o ELSE op[d]
  BY DEF Goes, LoopsInv
<1>2. \A d \in Callers : /\ StandsAt(d, "initializing")' => StandsAt(d, "initializing")
                         /\ StandsAt(d, "stopping")' => StandsAt(d, "stopping")
                         /\ StandsAt(d, "deactivating")' => StandsAt(d, "deactivating")
  BY <1>1 DEF StandsAt
<1> QED
  BY <1>1, <1>2 DEF LoopsInv, LoopsKept, NothingRuns, Loops

LEMMA LoopsStep ==
    ASSUME MaxLoops \in Nat \ {0}, LoopsInv, SourcesNext
    PROVE  LoopsInv'
<1>0. /\ \A c \in Callers : op[c] \in Ops
      /\ Idle \in Ops /\ [step |-> "waiting"] \in Ops /\ [step |-> "stopping"] \in Ops
      /\ [step |-> "initializing"] \in Ops /\ Idle.step = "idle"
  BY DEF LoopsInv, Ops, Idle
<1>1. ASSUME NEW c \in Callers, Initialize(c) PROVE LoopsInv'
  <2>1. /\ op' \in [Callers -> Ops]
        /\ \A d \in Callers : op'[d] = IF d = c THEN [step |-> "initializing"] ELSE op[d]
    BY <1>0, <1>1 DEF Initialize, Goes, LoopsInv
  <2>2. raced' = (raced \/ Starting \cup Stopping # {}) /\ ~started
        /\ UNCHANGED <<started, running, owned>>
    BY <1>1 DEF Initialize
  <2>3. ~raced' => ~raced /\ \A d \in Callers : ~StandsAt(d, "initializing") /\ ~StandsAt(d, "stopping")
                                               /\ ~StandsAt(d, "deactivating")
    BY <2>2 DEF Starting, Stopping, Doing, StandsAt
  <2>4. \A d \in Callers : /\ StandsAt(d, "initializing")' => d = c \/ StandsAt(d, "initializing")
                           /\ StandsAt(d, "stopping")' => StandsAt(d, "stopping")
                           /\ StandsAt(d, "deactivating")' => StandsAt(d, "deactivating")
    BY <2>1 DEF StandsAt
  <2>5. raced' \in BOOLEAN
    BY <2>2 DEF LoopsInv
  <2> QED
    BY <2>1, <2>2, <2>3, <2>4, <2>5 DEF LoopsInv, NothingRuns, Loops
<1>2. ASSUME NEW c \in Callers, NEW success \in BOOLEAN, InitializeEnds(c, success)
      PROVE  LoopsInv'
  <2>1. CASE ~success
    BY <1>0, <1>2, <2>1, GoesQuietly DEF InitializeEnds
  <2>2. CASE success
    <3>1. /\ op' \in [Callers -> Ops]
          /\ \A d \in Callers : op'[d] = IF d = c THEN Idle ELSE op[d]
      BY <1>0, <1>2 DEF InitializeEnds, Goes, LoopsInv
    <3>2. /\ \A l \in Loops : running[l] < MaxLoops /\ running'[l] = running[l] + 1 /\ owned'[l] = TRUE
          /\ started' = TRUE /\ raced' = raced
      BY <1>2, <2>2 DEF InitializeEnds, LoopsBegin
    <3>3. running' \in [Loops -> 0 .. MaxLoops] /\ owned' \in [Loops -> BOOLEAN]
      <4>1. \A l \in Loops : running[l] + 1 \in 0 .. MaxLoops
        BY <3>2 DEF LoopsInv
      <4> QED
        BY <1>2, <2>2, <4>1 DEF InitializeEnds, LoopsBegin
    <3>4. StandsAt(c, "initializing")
      BY <1>2 DEF InitializeEnds, StandsAt
    <3>5. ~raced => /\ \A l \in Loops : running[l] = 0
                    /\ \A d \in Callers : ~StandsAt(d, "initializing")' /\ ~StandsAt(d, "stopping")'
                                          /\ ~StandsAt(d, "deactivating")'
      BY <1>0, <3>1, <3>4 DEF LoopsInv, NothingRuns, StandsAt
    <3>6. \A l \in Loops : owned'[l] => running'[l] > 0
      BY <3>2 DEF LoopsInv
    <3> QED
      BY <3>1, <3>2, <3>3, <3>5, <3>6 DEF LoopsInv
  <2> QED
    BY <2>1, <2>2
<1>3. ASSUME NEW c \in Callers,
             Returns(c) \/ ReloadActivates(c) \/ \E s \in Sources : Activate(c, s) \/ Deactivate(c, s)
      PROVE  LoopsInv'
  <2>1. Goes(c, Idle) \/ Goes(c, [step |-> "waiting"])
    BY <1>3 DEF Returns, ReloadActivates, Activate, Deactivate
  <2>2. LoopsKept /\ UNCHANGED raced
    BY <1>3 DEF Returns, ReloadActivates, Activate, Deactivate
  <2> QED
    BY <1>0, <2>1, <2>2, GoesQuietly
<1>4. ASSUME NEW c \in Callers, NEW s \in Sources, Reload(c, s) PROVE LoopsInv'
  <2>1. [step |-> "reloading", source |-> s] \in Ops
    BY DEF Ops
  <2> QED
    BY <1>4, <2>1, GoesQuietly DEF Reload
<1>5. ASSUME NEW c \in Callers, NEW s \in Sources, ShutdownDeactivates(c, s) PROVE LoopsInv'
  <2> DEFINE o == [op[c] EXCEPT !.left = @ \ {s}]
  <2>1. op[c] \in [step : {"deactivating"}, left : SUBSET Sources]
    BY <1>0, <1>5 DEF ShutdownDeactivates, Ops, Idle
  <2>2. o \in Ops /\ o.step = "deactivating" /\ StandsAt(c, "deactivating")
    BY <2>1 DEF Ops, StandsAt
  <2> QED
    BY <1>5, <2>2, GoesQuietly DEF ShutdownDeactivates
<1>6. ASSUME NEW c \in Callers, ShutdownEnds(c) PROVE LoopsInv'
  <2>1. /\ op' \in [Callers -> Ops]
        /\ \A d \in Callers : op'[d] = IF d = c THEN Idle ELSE op[d]
    BY <1>0, <1>6 DEF ShutdownEnds, Goes, LoopsInv
  <2>2. StandsAt(c, "deactivating") /\ started' = FALSE /\ UNCHANGED <<running, owned, raced>>
    BY <1>6 DEF ShutdownEnds, StandsAt
  <2>3. \A d \in Callers : /\ StandsAt(d, "initializing")' => StandsAt(d, "initializing")
                           /\ StandsAt(d, "stopping")' => StandsAt(d, "stopping")
                           /\ StandsAt(d, "deactivating")' => StandsAt(d, "deactivating")
    BY <1>0, <2>1 DEF StandsAt
  <2> QED
    BY <2>1, <2>2, <2>3 DEF LoopsInv, NothingRuns, Loops
<1>7. ASSUME NEW c \in Callers, NEW l \in Loops, Cancelled(l)
      PROVE  /\ running' \in [Loops -> 0 .. MaxLoops] /\ owned' \in [Loops -> BOOLEAN]
             /\ \A k \in Loops : owned'[k] => running'[k] > 0
             /\ ~raced => /\ \A k \in Loops : running'[k] = IF owned'[k] THEN 1 ELSE 0
                          /\ running'[l] = 0
                          /\ \A k \in Loops : running[k] = 0 => running'[k] = 0
  <2>1. owned' \in [Loops -> BOOLEAN] /\ \A k \in Loops : owned'[k] = IF k = l THEN FALSE ELSE owned[k]
    BY <1>7 DEF Cancelled, LoopsInv
  <2>2. CASE owned[l]
    <3>1. running[l] - 1 \in 0 .. MaxLoops
      BY <2>2 DEF LoopsInv
    <3>2. /\ running' \in [Loops -> 0 .. MaxLoops]
          /\ \A k \in Loops : running'[k] = IF k = l THEN running[l] - 1 ELSE running[k]
      BY <1>7, <2>2, <3>1 DEF Cancelled, LoopsInv
    <3>3. \A k \in Loops : owned'[k] => k # l /\ owned[k] /\ running'[k] = running[k]
      BY <2>1, <3>2
    <3>4. ASSUME ~raced
          PROVE  /\ \A k \in Loops : running'[k] = IF owned'[k] THEN 1 ELSE 0
                 /\ running'[l] = 0
                 /\ \A k \in Loops : running[k] = 0 => running'[k] = 0
      <4>1. running[l] = 1 /\ \A k \in Loops : running[k] = IF owned[k] THEN 1 ELSE 0
        BY <2>2, <3>4 DEF LoopsInv
      <4>2. running'[l] = 0
        BY <3>2, <4>1
      <4>3. \A k \in Loops \ {l} : running'[k] = running[k] /\ owned'[k] = owned[k]
        BY <2>1, <3>2
      <4>4. ~owned'[l]
        BY <2>1
      <4> QED
        BY <4>1, <4>2, <4>3, <4>4
    <3> QED
      BY <2>1, <3>2, <3>3, <3>4 DEF LoopsInv
  <2>3. CASE ~owned[l]
    BY <1>7, <2>1, <2>3 DEF Cancelled, LoopsInv
  <2> QED
    BY <2>2, <2>3
<1>8. ASSUME NEW c \in Callers, Shutdown(c) PROVE LoopsInv'
  <2>1. /\ op' \in [Callers -> Ops]
        /\ \A d \in Callers : op'[d] = IF d = c THEN [step |-> "stopping"] ELSE op[d]
    BY <1>0, <1>8 DEF Shutdown, Goes, LoopsInv
  <2>2. /\ raced' = (raced \/ Starting # {}) /\ Cancelled("discovery") /\ started' = started
    BY <1>8 DEF Shutdown
  <2>3. ~raced' => ~raced /\ \A d \in Callers : ~StandsAt(d, "initializing")
    BY <2>2 DEF Starting, Doing, StandsAt
  <2>4. \A d \in Callers : /\ StandsAt(d, "initializing")' => StandsAt(d, "initializing")
                           /\ StandsAt(d, "stopping")' => d = c \/ StandsAt(d, "stopping")
                           /\ StandsAt(d, "deactivating")' => StandsAt(d, "deactivating")
    BY <2>1 DEF StandsAt
  <2>5. raced' \in BOOLEAN
    BY <2>2 DEF LoopsInv
  <2>6. "discovery" \in Loops
    BY DEF Loops
  <2> QED
    BY <1>7, <2>1, <2>2, <2>3, <2>4, <2>5, <2>6 DEF LoopsInv, NothingRuns
<1>9. ASSUME NEW c \in Callers, ShutdownStopsHealth(c) PROVE LoopsInv'
  <2> DEFINE o == [step |-> "deactivating", left |-> {s \in Sources : status[s] = "active"}]
  <2>0. o \in Ops /\ o.step = "deactivating"
    BY DEF Ops
  <2>1. /\ op' \in [Callers -> Ops]
        /\ \A d \in Callers : op'[d] = IF d = c THEN o ELSE op[d]
    BY <1>9, <2>0 DEF ShutdownStopsHealth, Goes, LoopsInv
  <2>2. StandsAt(c, "stopping") /\ Cancelled("health") /\ started' = started /\ raced' = raced
    BY <1>9 DEF ShutdownStopsHealth, StandsAt
  <2> HIDE DEF o
  <2>3. \A d \in Callers : /\ StandsAt(d, "initializing")' => StandsAt(d, "initializing")
                           /\ StandsAt(d, "stopping")' => StandsAt(d, "stopping")
                           /\ StandsAt(d, "deactivating")' => d = c \/ StandsAt(d, "deactivating")
    BY <2>0, <2>1 DEF StandsAt
  <2>4. Loops = {"discovery", "health"}
    BY DEF Loops
  <2>5. ~raced => NothingRuns'
    BY <1>7, <2>2, <2>4 DEF LoopsInv, NothingRuns
  <2> QED
    BY <1>7, <2>1, <2>2, <2>3, <2>4, <2>5 DEF LoopsInv, NothingRuns
<1>10. ASSUME NEW s \in Sources, Discover(s) \/ CheckHealth(s) \/ Validate(s) \/ Unregister(s)
       PROVE  LoopsInv'
  <2>1. LoopsKept /\ UNCHANGED <<op, raced>>
    BY <1>10 DEF Discover, CheckHealth, Validate, Unregister
  <2> QED
    BY <2>1 DEF LoopsKept, LoopsInv, NothingRuns, StandsAt
<1> QED
  BY <1>1, <1>2, <1>3, <1>4, <1>5, <1>6, <1>8, <1>9, <1>10 DEF SourcesNext

\* The invariant holds in every state, for any sources and callers.
THEOREM ManagerInvariant == SourcesSpec => []ManagerInv
<1>1. SourcesInit => ManagerInv
  <2> SUFFICES ASSUME SourcesInit PROVE ManagerInv
    OBVIOUS
  <2>1. StatusInv
    BY DEF SourcesInit, StatusInv, StatusTellsTheRest, Statuses
  <2>2. running \in [Loops -> 0 .. MaxLoops] /\ owned \in [Loops -> BOOLEAN]
    BY SourcesAssumption DEF SourcesInit
  <2>3. op \in [Callers -> Ops] /\ \A c \in Callers : op[c].step = "idle"
    BY DEF SourcesInit, Ops, Idle
  <2>4. LoopsInv
    BY <2>2, <2>3 DEF SourcesInit, LoopsInv, NothingRuns, StandsAt, Loops
  <2> QED
    BY <2>1, <2>4 DEF ManagerInv
<1>2. ManagerInv /\ [SourcesNext]_sourceVars => ManagerInv'
  <2>1. CASE UNCHANGED sourceVars
    BY <2>1 DEF sourceVars, ManagerInv, StatusInv, StatusTellsTheRest, LoopsInv, NothingRuns, StandsAt
  <2> QED
    BY <2>1, RegistryStep, LoopsStep, SourcesAssumption DEF ManagerInv
<1> QED
  BY <1>1, <1>2, PTL DEF SourcesSpec

\* An active source is monitored, unless a mere validation made it active, and
\* an inactive one is neither monitored nor kept by the factory; and a manager
\* at rest runs no loop, as long as no initialization overlapped another or a
\* shutdown.
THEOREM ManagerStaysInCharge == SourcesSpec => [](SourcesTypeOK /\ ManagerInCharge)
<1>1. ManagerInv => SourcesTypeOK
  BY DEF ManagerInv, StatusInv, LoopsInv, SourcesTypeOK
<1>2. ManagerInv => ManagerInCharge
  <2>1. LoopsInv => LoopsEndWithManager
    BY DEF LoopsInv, LoopsEndWithManager, NothingRuns
  <2> QED
    BY <2>1 DEF ManagerInv, StatusInv, ManagerInCharge
<1> QED
  BY <1>1, <1>2, ManagerInvariant, PTL

-----------------------------------------------------------------------------
(* The API client                                                          *)

Engaged(t) == call[t].at \in {"calling", "sleeping"}

\* A call nobody overlapped has the clients and the endpoint for itself.
ClientIsMine(t) ==
    /\ \A u \in Calls \ {t} : call[u].at = "idle"
    /\ Engaged(t) => /\ client = call[t].mine /\ client \in open
                     /\ endpoint = call[t].asked
    /\ call[t].at = "calling" => call[t].using = client

AloneInv == \A t \in Calls : call[t].alone => 
               /\ call[t].at # "idle" => ClientIsMine(t)
               /\ call[t].outcome \notin {"lost", "misread"}

\* What the type leaves out: an attempt that sleeps is not the last.
SleepersGoOn == \A t \in Calls : call[t].at = "sleeping" => call[t].attempt < MaxAttempts

\* The loops count the requests sent.
AttemptsCounted ==
    /\ sync.outer \in 1 .. MaxAttempts /\ sync.inner \in 1 .. MaxAttempts
    /\ ~sync.ended => sync.sent = (sync.outer - 1) * MaxAttempts + (sync.inner - 1)

ClientInv == ApiTypeOK /\ SleepersGoOn /\ AloneInv /\ AttemptsCounted

\* Only one call changes, and the others are as alone as they were.
LEMMA OneCallGoesOn ==
    ASSUME ClientInv, NEW t \in Calls, NEW c \in CallRecord,
           call' = [call EXCEPT ![t] = c], call[t].at # "idle",
           client' \in Clients \cup {NoClient}, open' \subseteq Clients,
           UNCHANGED <<endpoint, sync>>,
           c.alone = call[t].alone,
           c.at = "sleeping" => c.attempt < MaxAttempts,
           ClientIsMine(t) /\ c.alone =>
               /\ c.outcome \notin {"lost", "misread"}
               /\ c.at \in {"calling", "sleeping"} =>
                    client' = c.mine /\ client' \in open' /\ endpoint = c.asked
               /\ c.at = "calling" => c.using = client'
    PROVE  ClientInv'
<1>1. \A u \in Calls : call'[u] = IF u = t THEN c ELSE call[u]
  BY DEF ClientInv, ApiTypeOK
<1>2. ApiTypeOK' /\ AttemptsCounted'
  BY DEF ClientInv, ApiTypeOK, AttemptsCounted
<1>3. SleepersGoOn'
  BY <1>1 DEF ClientInv, SleepersGoOn
<1>4. AloneInv'
  <2> SUFFICES ASSUME NEW u \in Calls, call'[u].alone
               PROVE  /\ call'[u].at # "idle" => ClientIsMine(u)'
                      /\ call'[u].outcome \notin {"lost", "misread"}
    BY DEF AloneInv
  <2>1. CASE u = t
    <3>1. ClientIsMine(t) /\ c.alone /\ call'[t] = c
      BY <1>1, <2>1 DEF ClientInv, AloneInv
    <3>2. \A v \in Calls \ {t} : call'[v].at = "idle"
      BY <1>1, <3>1 DEF ClientIsMine
    <3> QED
      BY <2>1, <3>1, <3>2 DEF ClientIsMine, Engaged
  <2>2. CASE u # t
    <3>1. call'[u] = call[u]
      BY <1>1, <2>2
    <3>2. call[u].at = "idle"
      BY <3>1, <2>2 DEF ClientInv, AloneInv, ClientIsMine
    <3> QED
      BY <3>1, <3>2 DEF ClientInv, AloneInv
  <2> QED
    BY <2>1, <2>2
<1> QED
  BY <1>2, <1>3, <1>4 DEF ClientInv

\* A call that leaves with an outcome.  Alone, it is neither lost nor misread.
LEMMA LeavingKeeps ==
    ASSUME ClientInv, NEW t \in Calls, call[t].at \in {"calling", "sleeping"},
           NEW how \in {"answered", "misread", "failed", "lost"}, Leave(t, how),
           ClientIsMine(t) => how \notin {"lost", "misread"}
    PROVE  ClientInv'
<1> DEFINE c == [call[t] EXCEPT !.at = "closing", !.outcome = how]
<1>1. call[t] \in CallRecord
  BY DEF ClientInv, ApiTypeOK
<1>2. c \in CallRecord /\ c.alone = call[t].alone /\ c.at = "closing" /\ c.outcome = how
  BY <1>1 DEF CallRecord
<1>3. call' = [call EXCEPT ![t] = c]
  BY DEF Leave
<1>4. client' \in Clients \cup {NoClient} /\ open' \subseteq Clients /\ UNCHANGED <<endpoint, sync>>
  BY <1>1 DEF Leave, CallRecord, ClientInv, ApiTypeOK
<1> HIDE DEF c
<1> QED
  BY <1>2, <1>3, <1>4, OneCallGoesOn

\* A call that enters is alone only if nobody else is in.
LEMMA EnterKeeps ==
    ASSUME ApiAssumption, ClientInv, NEW t \in Calls, NEW e \in Endpoints, EnterClient(t, e)
    PROVE  ClientInv'
<1> DEFINE c == [at |-> "calling", mine |-> NewClient, found |-> client, using |-> NewClient,
                 asked |-> e, attempt |-> 1, alone |-> Busy = {}, outcome |-> "none"]
<1>1. NewClient \in Clients
  BY DEF EnterClient, NewClient
<1>2. c \in CallRecord
  <2>1. (Busy = {}) \in BOOLEAN
    OBVIOUS
  <2>2. 1 \in 0 .. MaxAttempts
    BY DEF ApiAssumption
  <2> QED
    BY <1>1, <2>1, <2>2 DEF CallRecord, ClientInv, ApiTypeOK
<1>3. \A u \in Calls \ {t} :
        /\ call'[u] \in CallRecord
        /\ call'[u].at = call[u].at /\ call'[u].outcome = call[u].outcome
        /\ call'[u].attempt = call[u].attempt
        /\ call'[u].alone => call[u].alone /\ call[u].at = "idle"
  <2> TAKE u \in Calls \ {t}
  <2>1. call'[u] = [call[u] EXCEPT !.alone = @ /\ u \notin Busy] /\ call[u] \in CallRecord
    BY DEF EnterClient, ClientInv, ApiTypeOK
  <2>2. call[u].alone \in BOOLEAN /\ (u \notin Busy) \in BOOLEAN
    BY <2>1 DEF CallRecord
  <2>3. call'[u].at = call[u].at /\ call'[u].outcome = call[u].outcome
        /\ call'[u].attempt = call[u].attempt
    BY <2>1 DEF CallRecord
  <2>4. call'[u].alone = (call[u].alone /\ u \notin Busy)
    BY <2>1, Zenon DEF CallRecord
  <2>5. call'[u] \in CallRecord
    BY <2>1, <2>2, Zenon DEF CallRecord
  <2> QED
    BY <2>3, <2>4, <2>5 DEF Busy
<1>4. call'[t] = c /\ DOMAIN call' = Calls /\ call' = [u \in Calls |-> call'[u]]
  BY DEF EnterClient
<1>5. c.alone => \A u \in Calls : call[u].at = "idle"
  BY DEF Busy
<1>6. c.at = "calling" /\ c.mine = NewClient /\ c.using = NewClient /\ c.asked = e /\ c.outcome = "none"
  OBVIOUS
<1>7. client' = NewClient /\ open' = open \cup {NewClient} /\ endpoint' = e /\ UNCHANGED sync
  BY DEF EnterClient
<1> HIDE DEF c
<1>8. call' \in [Calls -> CallRecord]
  <2>1. \A u \in Calls : call'[u] \in CallRecord
    BY <1>2, <1>3, <1>4
  <2> QED
    BY <1>4, <2>1
<1>9. ApiTypeOK'
  BY <1>1, <1>7, <1>8 DEF ClientInv, ApiTypeOK
<1>10. SleepersGoOn'
  BY <1>3, <1>4, <1>6 DEF ClientInv, SleepersGoOn
<1>11. AloneInv'
  <2> SUFFICES ASSUME NEW u \in Calls, call'[u].alone
               PROVE  /\ call'[u].at # "idle" => ClientIsMine(u)'
                      /\ call'[u].outcome \notin {"lost", "misread"}
    BY DEF AloneInv
  <2>1. CASE u = t
    <3>1. \A v \in Calls \ {t} : call'[v].at = "idle"
      BY <1>3, <1>4, <1>5, <2>1
    <3> QED
      BY <1>4, <1>6, <1>7, <2>1, <3>1 DEF ClientIsMine, Engaged
  <2>2. CASE u # t
    BY <1>3, <2>2 DEF ClientInv, AloneInv
  <2> QED
    BY <2>1, <2>2
<1> QED
  BY <1>7, <1>9, <1>10, <1>11 DEF ClientInv, AttemptsCounted

\* The steps of a call, of which the overlapped ones promise nothing.
LEMMA CallStepKeeps ==
    ASSUME ApiAssumption, ClientInv, NEW t \in Calls,
           Answered(t) \/ FailsForNow(t) \/ FailsForGood(t) \/ Retry(t) \/ Close(t)
    PROVE  ClientInv'
<1>0. call[t] \in CallRecord
  BY DEF ClientInv, ApiTypeOK
<1>1. CASE Answered(t)
  BY <1>1, LeavingKeeps DEF Answered, ClientIsMine, Engaged
<1>2. CASE FailsForNow(t)
  <2>1. CASE call[t].attempt < MaxAttempts
    <3> DEFINE c == [call[t] EXCEPT !.at = "sleeping"]
    <3>1. c \in CallRecord /\ c.alone = call[t].alone /\ c.at = "sleeping" /\ c.attempt = call[t].attempt
          /\ c.mine = call[t].mine /\ c.asked = call[t].asked /\ c.outcome = call[t].outcome
      BY <1>0 DEF CallRecord
    <3>2. call' = [call EXCEPT ![t] = c] /\ UNCHANGED <<client, endpoint, open, sync>>
          /\ call[t].at = "calling"
      BY <1>2, <2>1 DEF FailsForNow
    <3>3. client \in Clients \cup {NoClient} /\ open \subseteq Clients
      BY DEF ClientInv, ApiTypeOK
    <3>4. call[t].alone => call[t].outcome \notin {"lost", "misread"}
      BY DEF ClientInv, AloneInv
    <3> HIDE DEF c
    <3> QED
      BY <2>1, <3>1, <3>2, <3>3, <3>4, OneCallGoesOn DEF ClientIsMine, Engaged
  <2>2. CASE ~(call[t].attempt < MaxAttempts)
    BY <1>2, <2>2, LeavingKeeps DEF FailsForNow
  <2> QED
    BY <2>1, <2>2
<1>3. CASE FailsForGood(t)
  BY <1>3, LeavingKeeps DEF FailsForGood, ClientIsMine, Engaged
<1>4. CASE Retry(t)
  <2>1. CASE client \in open
    <3> DEFINE c == [call[t] EXCEPT !.at = "calling", !.using = client, !.attempt = @ + 1]
    <3>1. call[t].attempt \in 0 .. MaxAttempts /\ call[t].attempt < MaxAttempts
          /\ call[t].at = "sleeping"
      BY <1>0, <1>4 DEF Retry, ClientInv, SleepersGoOn, CallRecord
    <3>2. call[t].attempt + 1 \in 0 .. MaxAttempts
      BY <3>1 DEF ApiAssumption
    <3>3. client \in Clients \cup {NoClient} /\ open \subseteq Clients
      BY DEF ClientInv, ApiTypeOK
    <3>4. c \in CallRecord /\ c.alone = call[t].alone /\ c.at = "calling" /\ c.using = client
          /\ c.mine = call[t].mine /\ c.asked = call[t].asked /\ c.outcome = call[t].outcome
      BY <1>0, <3>2, <3>3 DEF CallRecord
    <3>5. call' = [call EXCEPT ![t] = c] /\ UNCHANGED <<client, endpoint, open, sync>>
      BY <1>4, <2>1 DEF Retry
    <3>6. call[t].alone => call[t].outcome \notin {"lost", "misread"}
      BY DEF ClientInv, AloneInv
    <3> HIDE DEF c
    <3> QED
      BY <3>1, <3>3, <3>4, <3>5, <3>6, OneCallGoesOn DEF ClientIsMine, Engaged
  <2>2. CASE client \notin open
    BY <1>4, <2>2, LeavingKeeps DEF Retry, ClientIsMine, Engaged
  <2> QED
    BY <2>1, <2>2
<1>5. CASE Close(t)
  <2> DEFINE c == [call[t] EXCEPT !.at = "idle", !.mine = NoClient, !.found = NoClient,
                                  !.using = NoClient]
  <2>1. c \in CallRecord /\ c.alone = call[t].alone /\ c.at = "idle" /\ c.outcome = call[t].outcome
    BY <1>0 DEF CallRecord
  <2>2. call' = [call EXCEPT ![t] = c] /\ UNCHANGED <<client, endpoint, sync>>
        /\ open' = open \ {call[t].mine} /\ call[t].at = "closing"
    BY <1>5 DEF Close
  <2>3. client \in Clients \cup {NoClient} /\ open \subseteq Clients
    BY DEF ClientInv, ApiTypeOK
  <2>4. call[t].alone => call[t].outcome \notin {"lost", "misread"}
    BY DEF ClientInv, AloneInv
  <2> HIDE DEF c
  <2> QED
    BY <2>1, <2>2, <2>3, <2>4, OneCallGoesOn
<1> QED
  BY <1>1, <1>2, <1>3, <1>4, <1>5

\* Of a full inner loop the outer one goes on.
LEMMA LoopsMultiply ==
    ASSUME NEW M \in Nat, NEW outer \in 1 .. M, NEW inner \in 1 .. M
    PROVE  /\ (outer - 1) * M + (inner - 1) + 1 \in 0 .. M * M
           /\ (outer - 1) * M + (M - 1) + 1 = outer * M
<1>1. PICK k \in Nat : M = outer + k
  <2>1. M - outer \in Nat /\ M = outer + (M - outer)
    OBVIOUS
  <2> QED
    BY <2>1
<1>2. M * M = outer * M + k * M /\ k * M \in Nat
  BY <1>1
<1>3. (outer - 1) * M = outer * M - M /\ (outer - 1) * M \in Nat
  OBVIOUS
<1>4. outer * M \in Nat /\ M * M \in Nat
  OBVIOUS
<1> QED
  BY <1>2, <1>3, <1>4

\* The synchronous loops count what they send.
LEMMA SyncKeeps ==
    ASSUME ApiAssumption, ClientInv, SyncNext
    PROVE  ClientInv'
<1>0. UNCHANGED <<client, endpoint, open, call>>
  BY DEF SyncNext, SyncAttempt, SyncStart
<1>1. SleepersGoOn' /\ AloneInv'
  BY <1>0 DEF ClientInv, SleepersGoOn, AloneInv, ClientIsMine, Engaged
<1> DEFINE Syncs == [outer: 0 .. MaxAttempts, inner: 0 .. MaxAttempts,
                     sent: 0 .. MaxAttempts * MaxAttempts, ended: BOOLEAN]
<1>2. MaxAttempts \in Nat /\ 1 \in 1 .. MaxAttempts /\ 0 \in 0 .. MaxAttempts * MaxAttempts
  BY DEF ApiAssumption
<1>3. sync' \in Syncs /\ AttemptsCounted'
  <2>1. ASSUME NEW retryable \in BOOLEAN, SyncAttempt(retryable)
        PROVE  sync' \in Syncs /\ AttemptsCounted'
    <3> DEFINE inner == IF retryable /\ sync.inner < MaxAttempts THEN sync.inner + 1 ELSE 1
               outer == IF retryable /\ sync.inner = MaxAttempts /\ sync.outer < MaxAttempts
                        THEN sync.outer + 1 ELSE sync.outer
               ended == ~retryable \/ (sync.inner = MaxAttempts /\ sync.outer = MaxAttempts)
    <3>1. sync \in Syncs /\ ~sync.ended
      BY <2>1 DEF ClientInv, ApiTypeOK, SyncAttempt
    <3>2. /\ sync'.sent = sync.sent + 1 /\ sync'.inner = inner /\ sync'.outer = outer
          /\ sync'.ended = ended
          /\ sync' = [outer |-> sync'.outer, inner |-> sync'.inner, sent |-> sync'.sent,
                      ended |-> sync'.ended]
      BY <2>1, <3>1 DEF SyncAttempt
    <3>3. /\ sync.outer \in 1 .. MaxAttempts /\ sync.inner \in 1 .. MaxAttempts
          /\ sync.sent = (sync.outer - 1) * MaxAttempts + (sync.inner - 1)
      BY <3>1 DEF ClientInv, AttemptsCounted
    <3>4. outer \in 1 .. MaxAttempts /\ inner \in 1 .. MaxAttempts /\ ended \in BOOLEAN
      BY <1>2, <3>3
    <3>5. sync.sent + 1 \in 0 .. MaxAttempts * MaxAttempts
      BY <1>2, <3>3, LoopsMultiply
    <3>6. sync' \in Syncs
      <4>1. sync'.outer \in 0 .. MaxAttempts /\ sync'.inner \in 0 .. MaxAttempts
        BY <1>2, <3>2, <3>4
      <4>2. sync'.sent \in 0 .. MaxAttempts * MaxAttempts /\ sync'.ended \in BOOLEAN
        BY <3>2, <3>4, <3>5
      <4> QED
        BY <3>2, <4>1, <4>2
    <3>7. ~ended => sync.sent + 1 = (outer - 1) * MaxAttempts + (inner - 1)
      <4>1. CASE retryable /\ sync.inner < MaxAttempts
        <5>1. inner = sync.inner + 1 /\ outer = sync.outer
          BY <4>1, <3>3
        <5>2. (sync.outer - 1) * MaxAttempts \in Int
          BY <1>2, <3>3
        <5> HIDE DEF inner, outer
        <5> QED
          BY <3>3, <5>1, <5>2
      <4>2. CASE retryable /\ sync.inner = MaxAttempts /\ sync.outer < MaxAttempts
        <5>1. inner = 1 /\ outer = sync.outer + 1
          BY <1>2, <3>3, <4>2
        <5>2. sync.sent + 1 = sync.outer * MaxAttempts
          BY <1>2, <3>3, <4>2, LoopsMultiply
        <5>3. sync.outer * MaxAttempts \in Int /\ (outer - 1) * MaxAttempts = sync.outer * MaxAttempts
          BY <1>2, <3>3, <5>1
        <5> HIDE DEF inner, outer
        <5> QED
          BY <5>1, <5>2, <5>3
      <4>3. CASE ~retryable \/ (sync.inner = MaxAttempts /\ sync.outer = MaxAttempts)
        BY <4>3
      <4>4. \/ retryable /\ sync.inner < MaxAttempts
            \/ retryable /\ sync.inner = MaxAttempts /\ sync.outer < MaxAttempts
            \/ ~retryable \/ (sync.inner = MaxAttempts /\ sync.outer = MaxAttempts)
        BY <1>2, <3>3
      <4> HIDE DEF inner, outer, ended
      <4> QED
        BY <4>1, <4>2, <4>3, <4>4
    <3>8. AttemptsCounted'
      BY <3>2, <3>4, <3>7 DEF AttemptsCounted
    <3> QED
      BY <3>6, <3>8
  <2>2. CASE SyncStart
    <3>1. sync' = NoCall /\ (1 - 1) * MaxAttempts + (1 - 1) = 0
      BY <2>2, <1>2 DEF SyncStart
    <3>2. sync' \in Syncs
      BY <1>2, <3>1 DEF NoCall
    <3> QED
      BY <1>2, <3>1, <3>2 DEF NoCall, AttemptsCounted
  <2> QED
    BY <2>1, <2>2 DEF SyncNext
<1>4. ApiTypeOK'
  BY <1>0, <1>3 DEF ClientInv, ApiTypeOK
<1> QED
  BY <1>1, <1>3, <1>4 DEF ClientInv

\* The invariant holds in every state, for any callers and any number of attempts.
THEOREM ClientInvariant ==
    ASSUME ApiAssumption
    PROVE  ApiSpec => []ClientInv
<1>1. ApiInit => ClientInv
  <2> SUFFICES ASSUME ApiInit PROVE ClientInv
    OBVIOUS
  <2>1. /\ MaxAttempts \in Nat /\ 1 \in 1 .. MaxAttempts /\ 0 \in 0 .. MaxAttempts
        /\ 0 \in 0 .. MaxAttempts * MaxAttempts /\ (1 - 1) * MaxAttempts + (1 - 1) = 0
    BY DEF ApiAssumption
  <2>2. call \in [Calls -> CallRecord]
    BY <2>1 DEF ApiInit, CallRecord
  <2>3. sync \in [outer: 0 .. MaxAttempts, inner: 0 .. MaxAttempts,
                  sent: 0 .. MaxAttempts * MaxAttempts, ended: BOOLEAN]
    BY <2>1 DEF ApiInit, NoCall
  <2>4. AttemptsCounted
    BY <2>1 DEF ApiInit, NoCall, AttemptsCounted
  <2>5. SleepersGoOn /\ AloneInv
    BY DEF ApiInit, SleepersGoOn, AloneInv
  <2> QED
    BY <2>2, <2>3, <2>4, <2>5 DEF ApiInit, ClientInv, ApiTypeOK
<1>2. ClientInv /\ [ApiNext]_apiVars => ClientInv'
  <2> SUFFICES ASSUME ClientInv, [ApiNext]_apiVars PROVE ClientInv'
    OBVIOUS
  <2>1. CASE AsyncNext
    BY <2>1, EnterKeeps, CallStepKeeps DEF AsyncNext
  <2>2. CASE SyncNext
    BY <2>2, SyncKeeps
  <2>3. CASE UNCHANGED apiVars
    BY <2>3 DEF apiVars, ClientInv, ApiTypeOK, SleepersGoOn, AloneInv, ClientIsMine,
                Engaged, AttemptsCounted
  <2> QED
    BY <2>1, <2>2, <2>3 DEF ApiNext
<1> QED
  BY <1>1, <1>2, PTL DEF ApiSpec

\* A call that no other call overlapped is not lost to a missing or closed client,
\* nor parsed as another endpoint's response; and a synchronous call sends at most
\* MaxAttempts requests for each of MaxAttempts attempts, for any callers.
THEOREM ClientCallsAreKept ==
    ASSUME ApiAssumption
    PROVE  ApiSpec => [](ApiTypeOK /\ ClientCallsKept)
<1>1. ClientInv => ApiTypeOK /\ ClientCallsKept
  <2> SUFFICES ASSUME ClientInv PROVE ApiTypeOK /\ ClientCallsKept
    OBVIOUS
  <2>1. SyncCallsBounded
    <3>1. MaxAttempts * MaxAttempts \in Nat
      BY DEF ApiAssumption
    <3> QED
      BY <3>1 DEF ClientInv, ApiTypeOK, SyncCallsBounded
  <2> QED
    BY <2>1 DEF ClientInv, AloneInv, AloneKept, ClientCallsKept
<1> QED
  BY <1>1, ClientInvariant, PTL

-----------------------------------------------------------------------------
(* The listing                                                             *)

\* Where the other elements go when one is inserted or removed.
LEMMA InsertedAt ==
    ASSUME NEW S, NEW s \in Seq(S), NEW i \in 1 .. Len(s) + 1, NEW e \in S
    PROVE  /\ InsertAt(s, i, e) \in Seq(S)
           /\ Len(InsertAt(s, i, e)) = Len(s) + 1
           /\ \A j \in 1 .. Len(s) + 1 :
                InsertAt(s, i, e)[j] = IF j < i THEN s[j] ELSE IF j = i THEN e ELSE s[j - 1]
<1> DEFINE left == SubSeq(s, 1, i - 1)  right == SubSeq(s, i, Len(s))
<1>1. Len(s) \in Nat
  OBVIOUS
<1>2. /\ left \in Seq(S) /\ Len(left) = i - 1
      /\ \A j \in 1 .. i - 1 : left[j] = s[j]
  BY <1>1, SubSeqProperties
<1>3. /\ right \in Seq(S) /\ Len(right) = Len(s) - i + 1
      /\ \A j \in 1 .. Len(s) - i + 1 : right[j] = s[i + j - 1]
  BY <1>1, SubSeqProperties
<1> HIDE DEF left, right
<1>4. /\ left \o <<e>> \in Seq(S) /\ Len(left \o <<e>>) = i
      /\ \A j \in 1 .. i : (left \o <<e>>)[j] = IF j < i THEN s[j] ELSE e
  BY <1>1, <1>2, ConcatProperties
<1>5. InsertAt(s, i, e) = (left \o <<e>>) \o right
  BY DEF InsertAt, left, right
<1> DEFINE most == left \o <<e>>
           all == most \o right
<1>6. /\ most \in Seq(S) /\ Len(most) = i
      /\ \A j \in 1 .. i : most[j] = IF j < i THEN s[j] ELSE e
  BY <1>4
<1> HIDE DEF most
<1>7. /\ all \in Seq(S) /\ Len(all) = Len(most) + Len(right)
      /\ \A j \in 1 .. Len(most) + Len(right) :
           all[j] = IF j <= Len(most) THEN most[j] ELSE right[j - Len(most)]
  BY <1>3, <1>6, ConcatProperties
<1> HIDE DEF all
<1>8. Len(most) + Len(right) = Len(s) + 1
  BY <1>1, <1>3, <1>6
<1>9. \A j \in 1 .. Len(s) + 1 : all[j] = IF j <= i THEN most[j] ELSE right[j - i]
  BY <1>6, <1>7, <1>8
<1>10. ASSUME NEW j \in 1 .. Len(s) + 1
       PROVE  all[j] = IF j < i THEN s[j] ELSE IF j = i THEN e ELSE s[j - 1]
  <2>1. CASE j <= i
    <3>1. j \in 1 .. i /\ all[j] = most[j]
      BY <1>1, <1>9, <2>1
    <3> QED
      BY <1>1, <1>6, <2>1, <3>1
  <2>2. CASE j > i
    <3>1. j - i \in 1 .. Len(s) - i + 1 /\ i + (j - i) - 1 = j - 1
      BY <1>1, <2>2
    <3>2. all[j] = right[j - i]
      BY <1>1, <1>9, <2>2
    <3> QED
      BY <1>1, <1>3, <2>2, <3>1, <3>2
  <2> QED
    BY <1>1, <2>1, <2>2
<1> QED
  BY <1>5, <1>7, <1>8, <1>10 DEF all, most

LEMMA RemovedAt ==
    ASSUME NEW S, NEW s \in Seq(S), NEW i \in 1 .. Len(s)
    PROVE  /\ RemoveAt(s, i) \in Seq(S)
           /\ Len(RemoveAt(s, i)) = Len(s) - 1
           /\ \A j \in 1 .. Len(s) - 1 : RemoveAt(s, i)[j] = IF j < i THEN s[j] ELSE s[j + 1]
<1> DEFINE left == SubSeq(s, 1, i - 1)  right == SubSeq(s, i + 1, Len(s))
<1>1. Len(s) \in Nat
  OBVIOUS
<1>2. /\ left \in Seq(S) /\ Len(left) = i - 1
      /\ \A j \in 1 .. i - 1 : left[j] = s[j]
  BY <1>1, SubSeqProperties
<1>3. /\ right \in Seq(S) /\ Len(right) = Len(s) - i
      /\ \A j \in 1 .. Len(s) - i : right[j] = s[i + j]
  BY <1>1, SubSeqProperties
<1>4. RemoveAt(s, i) = left \o right
  BY DEF RemoveAt
<1> HIDE DEF left, right
<1> DEFINE t == left \o right
<1>5. /\ t \in Seq(S) /\ Len(t) = Len(left) + Len(right)
      /\ \A j \in 1 .. Len(left) + Len(right) :
           t[j] = IF j <= Len(left) THEN left[j] ELSE right[j - Len(left)]
  BY <1>2, <1>3, ConcatProperties
<1> HIDE DEF t
<1>6. Len(left) = i - 1 /\ Len(right) = Len(s) - i /\ Len(left) + Len(right) = Len(s) - 1
  BY <1>1, <1>2, <1>3
<1>7. \A j \in 1 .. Len(s) - 1 : t[j] = IF j <= i - 1 THEN left[j] ELSE right[j - (i - 1)]
  BY <1>5, <1>6
<1>8. ASSUME NEW j \in 1 .. Len(s) - 1 PROVE t[j] = IF j < i THEN s[j] ELSE s[j + 1]
  <2>1. CASE j < i
    BY <1>1, <1>2, <1>7, <2>1
  <2>2. CASE ~(j < i)
    <3>1. j - (i - 1) \in 1 .. Len(s) - i /\ i + (j - (i - 1)) = j + 1
      BY <1>1, <2>2
    <3>2. t[j] = right[j - (i - 1)]
      BY <1>1, <1>7, <2>2
    <3> QED
      BY <1>3, <2>2, <3>1, <3>2
  <2> QED
    BY <2>1, <2>2
<1> QED
  BY <1>4, <1>5, <1>6, <1>8 DEF t

LEMMA InsertedInjective ==
    ASSUME NEW S, NEW s \in Seq(S), IsInjective(s), NEW i \in 1 .. Len(s) + 1, NEW e \in S,
           \A j \in 1 .. Len(s) : s[j] # e
    PROVE  IsInjective(InsertAt(s, i, e))
<1> DEFINE t == InsertAt(s, i, e)
<1>1. /\ Len(s) \in Nat /\ \A j, k \in 1 .. Len(s) : s[j] = s[k] => j = k
  BY DEF IsInjective
<1>2. /\ DOMAIN t = 1 .. Len(s) + 1
      /\ \A j \in 1 .. Len(s) + 1 :
           t[j] = IF j < i THEN s[j] ELSE IF j = i THEN e ELSE s[j - 1]
  BY InsertedAt
<1> HIDE DEF t
<1> SUFFICES ASSUME NEW j \in 1 .. Len(s) + 1, NEW k \in 1 .. Len(s) + 1, j < k, t[j] = t[k]
             PROVE  FALSE
  BY <1>1, <1>2 DEF IsInjective, t
<1>3. CASE k < i
  BY <1>1, <1>2, <1>3
<1>4. CASE k = i
  BY <1>1, <1>2, <1>4
<1>5. CASE k > i
  <2>1. t[k] = s[k - 1] /\ k - 1 \in 1 .. Len(s)
    BY <1>1, <1>2, <1>5
  <2>2. CASE j < i
    BY <1>1, <1>2, <1>5, <2>1, <2>2
  <2>3. CASE j = i
    BY <1>1, <1>2, <2>1, <2>3
  <2>4. CASE j > i
    BY <1>1, <1>2, <2>1, <2>4
  <2> QED
    BY <2>2, <2>3, <2>4
<1> QED
  BY <1>1, <1>3, <1>4, <1>5

LEMMA RemovedInjective ==
    ASSUME NEW S, NEW s \in Seq(S), IsInjective(s), NEW i \in 1 .. Len(s)
    PROVE  IsInjective(RemoveAt(s, i))
<1> DEFINE t == RemoveAt(s, i)
<1>1. Len(s) \in Nat /\ \A j, k \in 1 .. Len(s) : s[j] = s[k] => j = k
  BY DEF IsInjective
<1>2. /\ DOMAIN t = 1 .. Len(s) - 1
      /\ \A j \in 1 .. Len(s) - 1 : t[j] = IF j < i THEN s[j] ELSE s[j + 1]
  <2>1. /\ t \in Seq(S) /\ Len(t) = Len(s) - 1
        /\ \A j \in 1 .. Len(s) - 1 : t[j] = IF j < i THEN s[j] ELSE s[j + 1]
    BY RemovedAt
  <2> HIDE DEF t
  <2> QED
    BY <1>1, <2>1
<1> HIDE DEF t
<1>3. \A j, k \in 1 .. Len(s) - 1 : t[j] = t[k] => j = k
  <2> SUFFICES ASSUME NEW j \in 1 .. Len(s) - 1, NEW k \in 1 .. Len(s) - 1, t[j] = t[k]
               PROVE  j = k
    OBVIOUS
  <2>1. PICK x \in 1 .. Len(s) : t[j] = s[x] /\ x = IF j < i THEN j ELSE j + 1
    BY <1>1, <1>2
  <2>2. PICK y \in 1 .. Len(s) : t[k] = s[y] /\ y = IF k < i THEN k ELSE k + 1
    BY <1>1, <1>2
  <2>3. x = y
    BY <1>1, <2>1, <2>2
  <2> QED
    BY <1>1, <2>1, <2>2, <2>3
<1> QED
  BY <1>2, <1>3 DEF IsInjective, t

\* A sequence of different elements is no longer than they are many.
LEMMA InjectiveBounded ==
    ASSUME NEW S, IsFiniteSet(S), NEW s \in Seq(S), IsInjective(s)
    PROVE  Len(s) \in 0 .. Cardinality(S)
<1>1. Len(s) \in Nat /\ s \in [1 .. Len(s) -> S]
  BY LenProperties
<1>2. s \in Injection(1 .. Len(s), S)
  BY <1>1 DEF Injection
<1>3. Cardinality(1 .. Len(s)) <= Cardinality(S) /\ Cardinality(1 .. Len(s)) = Len(s)
  <2>1. Cardinality(1 .. Len(s)) <= Cardinality(S)
    BY <1>2, FS_Injection
  <2>2. Cardinality(1 .. Len(s)) = Len(s)
    BY <1>1, FS_Interval
  <2> QED
    BY <2>1, <2>2
<1>4. Cardinality(S) \in Nat
  BY FS_CardinalityType
<1> QED
  BY <1>1, <1>3, <1>4

LEMMA SetAsSequence ==
    ASSUME NEW S, IsFiniteSet(S)
    PROVE  SetToSeq(S) \in Seq(S) /\ IsInjective(SetToSeq(S))
<1>1. Cardinality(S) \in Nat /\ ExistsBijection(1 .. Cardinality(S), S)
  BY FS_CardinalityType
<1>2. \E f \in [1 .. Cardinality(S) -> S] : IsInjective(f)
  BY <1>1 DEF ExistsBijection, Bijection, Injection
<1>3. SetToSeq(S) \in [1 .. Cardinality(S) -> S] /\ IsInjective(SetToSeq(S))
  BY <1>2 DEF SetToSeq
<1> QED
  BY <1>1, <1>3

-----------------------------------------------------------------------------
\* Where a page begins: the multiplication is used nowhere else.
LEMMA Offsets ==
    ASSUME ListingAssumption
    PROVE  /\ PageSize \in Nat \ {0} /\ MaxPage \in Nat \ {0}
           /\ 1 \in Pages /\ Pages \subseteq Nat /\ Skip(1) = 0
           /\ \A p \in Pages : Skip(p) \in Nat /\ Skip(p + 1) = Skip(p) + PageSize
           /\ \A p \in Pages : p # MaxPage => p + 1 \in Pages
<1>1. /\ PageSize \in Nat \ {0} /\ MaxPage \in Nat \ {0}
      /\ 1 \in Pages /\ Pages \subseteq Nat
      /\ \A p \in Pages : p >= 1 /\ p <= MaxPage
      /\ \A p \in Pages : p # MaxPage => p + 1 \in Pages
  BY DEF ListingAssumption, Pages
<1>2. Skip(1) = 0
  BY <1>1 DEF Skip
<1>3. ASSUME NEW p \in Pages PROVE Skip(p) \in Nat /\ Skip(p + 1) = Skip(p) + PageSize
  <2>1. PICK q \in Nat : p = q + 1
    <3>1. p - 1 \in Nat /\ p = (p - 1) + 1
      BY <1>1
    <3> QED
      BY <3>1
  <2>2. Skip(p) = q * PageSize /\ Skip(p + 1) = (q + 1) * PageSize
    BY <2>1 DEF Skip
  <2>3. q * PageSize \in Nat /\ (q + 1) * PageSize = q * PageSize + PageSize
    BY <1>1, <2>1
  <2> QED
    BY <2>2, <2>3
<1> QED
  BY <1>1, <1>2, <1>3

LEMMA ResponseTyped ==
    ASSUME NEW response \in Responses \cup {NoPage}
    PROVE  response.docs \subseteq Docs /\ response.next \in BOOLEAN
<1>1. CASE response = NoPage
  BY <1>1 DEF NoPage
<1>2. CASE response \in Responses
  BY <1>2 DEF Responses
<1> QED
  BY <1>1, <1>2

LEMMA ReceivedTyped ==
    ASSUME ListingAssumption, NEW s \in ReaderStates,
           NEW response \in Responses \cup {NoPage}, NEW fromCache \in BOOLEAN
    PROVE  Received(s, response, fromCache) \in ReaderStates
<1>1. response.docs \subseteq Docs /\ response.next \in BOOLEAN
  BY ResponseTyped
<1>2. /\ s.page \in Pages /\ s.owed \subseteq Docs /\ s.seen \subseteq Docs
      /\ s.disturbed \in BOOLEAN
  BY DEF ReaderStates
<1>3. /\ s.page < MaxPage => s.page + 1 \in Pages
      /\ 0 \in 0 .. Cardinality(Docs)
  BY <1>2, Offsets, FS_CardinalityType DEF ListingAssumption
<1> DEFINE at == IF response.next /\ s.page < MaxPage THEN "asking" ELSE "idle"
           page == IF response.next /\ s.page < MaxPage THEN s.page + 1 ELSE s.page
           seen == s.seen \cup response.docs
           disturbed == s.disturbed \/ fromCache \/ (response.next /\ s.page = MaxPage)
<1>4. /\ at \in {"idle", "asking", "finding", "storing"} /\ page \in Pages
      /\ seen \subseteq Docs /\ disturbed \in BOOLEAN
  BY <1>1, <1>2, <1>3
<1>5. Received(s, response, fromCache) =
        [s EXCEPT !.seen = seen, !.at = at, !.page = page, !.response = NoPage, !.total = 0,
                  !.disturbed = disturbed]
  BY DEF Received, ReaderStates
<1> HIDE DEF at, page, seen, disturbed
<1> QED
  BY <1>3, <1>4, <1>5 DEF ReaderStates

\* What a reader whose walk nothing disturbed has, and has still to come to: the
\* rows it must not miss are listed, and it has seen those of the pages it is past.
Owing(s) ==
  ~s.disturbed =>
    /\ s.owed \subseteq ToSet(rows)
    /\ s.at = "idle" => s.owed \subseteq s.seen
    /\ s.at # "idle" =>
         \A i \in DOMAIN rows : i <= Skip(s.page) /\ rows[i] \in s.owed => rows[i] \in s.seen
    /\ s.at = "finding" => s.total = Len(rows)
    /\ s.at = "storing" =>
         /\ \A i \in DOMAIN rows :
              i <= Skip(s.page) + PageSize /\ rows[i] \in s.owed
                => rows[i] \in s.seen \cup s.response.docs
         /\ ~s.response.next => s.owed \subseteq s.seen \cup s.response.docs

WalkInv ==
  /\ ListingTypeOK
  /\ \A r \in Readers : Owing(reader[r])

\* What every proof about a reader's step uses of the reader.
LEMMA ReaderTyped ==
    ASSUME ListingTypeOK, NEW r \in Readers
    PROVE  /\ reader[r] \in ReaderStates
           /\ reader[r].page \in Pages /\ reader[r].seen \subseteq Docs
           /\ reader[r].owed \subseteq Docs /\ reader[r].disturbed \in BOOLEAN
           /\ reader[r].response \in Responses \cup {NoPage}
           /\ reader[r].response.next \in BOOLEAN
<1>1. reader[r] \in ReaderStates
  BY DEF ListingTypeOK
<1>2. /\ reader[r].page \in Pages /\ reader[r].seen \subseteq Docs
      /\ reader[r].owed \subseteq Docs /\ reader[r].disturbed \in BOOLEAN
      /\ reader[r].response \in Responses \cup {NoPage}
  BY <1>1 DEF ReaderStates
<1> QED
  BY <1>1, <1>2, ResponseTyped

\* A step of one reader that leaves the list alone.
LEMMA ReaderStepKeeps ==
    ASSUME WalkInv, rows' = rows, writes' = writes, errors' \in 0 .. MaxErrors,
           listed' \in [Pages -> Responses \cup {NoPage}], NEW r \in Readers,
           NEW s \in ReaderStates, reader' = [reader EXCEPT ![r] = s], Owing(s)
    PROVE  WalkInv'
<1>1. reader' \in [Readers -> ReaderStates]
  BY DEF WalkInv, ListingTypeOK
<1>2. ListingTypeOK'
  BY <1>1 DEF WalkInv, ListingTypeOK
<1>3. ASSUME NEW q \in Readers PROVE Owing(reader[q])'
  <2>1. reader'[q] = reader[q] \/ reader'[q] = s
    BY DEF WalkInv, ListingTypeOK
  <2>2. Owing(reader[q]) /\ Owing(s)
    BY DEF WalkInv
  <2> QED
    BY <2>1, <2>2 DEF Owing
<1> QED
  BY <1>2, <1>3 DEF WalkInv

\* The steps of a walk, each of which changes one reader.
LEMMA StartWalkKeeps ==
    ASSUME ListingAssumption, WalkInv, NEW r \in Readers, StartWalk(r)
    PROVE  WalkInv'
<1> DEFINE s == [reader[r] EXCEPT !.at = "asking", !.page = 1, !.seen = {},
                                  !.owed = ToSet(rows), !.disturbed = FALSE]
<1>1. reader[r] \in ReaderStates /\ rows \in Seq(Docs)
  BY ReaderTyped DEF WalkInv, ListingTypeOK
<1>2. ToSet(rows) \subseteq Docs
  BY <1>1 DEF ToSet
<1>3. s \in ReaderStates
  BY <1>1, <1>2, Offsets DEF ReaderStates
<1>4. Owing(s)
  <2>1. s.at = "asking" /\ s.page = 1 /\ s.owed = ToSet(rows)
    BY <1>1 DEF ReaderStates
  <2>2. \A i \in DOMAIN rows : ~(i <= Skip(1))
    BY <1>1, Offsets
  <2> HIDE DEF s
  <2> QED
    BY <2>1, <2>2 DEF Owing
<1>5. reader' = [reader EXCEPT ![r] = s] /\ UNCHANGED <<rows, listed, writes, errors>>
  BY DEF StartWalk
<1>6. listed' \in [Pages -> Responses \cup {NoPage}] /\ errors' \in 0 .. MaxErrors
  BY <1>5 DEF WalkInv, ListingTypeOK
<1> HIDE DEF s
<1> QED
  BY <1>3, <1>4, <1>5, <1>6, ReaderStepKeeps

LEMMA ServeCachedKeeps ==
    ASSUME ListingAssumption, WalkInv, NEW r \in Readers, ServeCached(r)
    PROVE  WalkInv'
<1> DEFINE hit == listed[reader[r].page]
           s == Received(reader[r], hit, TRUE)
<1>1. reader[r] \in ReaderStates /\ hit \in Responses \cup {NoPage}
  BY ReaderTyped DEF WalkInv, ListingTypeOK
<1>2. s \in ReaderStates
  BY <1>1, ReceivedTyped
<1>3. s.disturbed
  BY <1>1 DEF Received, ReaderStates
<1>4. Owing(s)
  BY <1>3 DEF Owing
<1>5. reader' = [reader EXCEPT ![r] = s] /\ UNCHANGED <<rows, listed, writes, errors>>
  BY DEF ServeCached
<1>6. listed' \in [Pages -> Responses \cup {NoPage}] /\ errors' \in 0 .. MaxErrors
  BY <1>5 DEF WalkInv, ListingTypeOK
<1> HIDE DEF s
<1> QED
  BY <1>2, <1>4, <1>5, <1>6, ReaderStepKeeps

LEMMA CountRowsKeeps ==
    ASSUME ListingAssumption, WalkInv, NEW r \in Readers, CountRows(r)
    PROVE  WalkInv'
<1> DEFINE s == [reader[r] EXCEPT !.at = "finding", !.total = Len(rows)]
<1>1. /\ reader[r] \in ReaderStates /\ reader[r].at = "asking" /\ Owing(reader[r])
      /\ rows \in Seq(Docs) /\ IsInjective(rows)
  BY ReaderTyped DEF WalkInv, ListingTypeOK, CountRows
<1>2. Len(rows) \in 0 .. Cardinality(Docs)
  BY <1>1, InjectiveBounded DEF ListingAssumption
<1>3. s \in ReaderStates
  BY <1>1, <1>2 DEF ReaderStates
<1>4. /\ s.at = "finding" /\ s.total = Len(rows) /\ s.page = reader[r].page
      /\ s.owed = reader[r].owed /\ s.seen = reader[r].seen
      /\ s.disturbed = reader[r].disturbed
  BY <1>1 DEF ReaderStates
<1>5. reader' = [reader EXCEPT ![r] = s] /\ UNCHANGED <<rows, listed, writes, errors>>
  BY DEF CountRows
<1>6. listed' \in [Pages -> Responses \cup {NoPage}] /\ errors' \in 0 .. MaxErrors
  BY <1>5 DEF WalkInv, ListingTypeOK
<1> HIDE DEF s
<1>7. Owing(s)
  BY <1>1, <1>4 DEF Owing
<1> QED
  BY <1>3, <1>5, <1>6, <1>7, ReaderStepKeeps

\* The page found holds what the client must see of it; when the count taken
\* before says that none follows, none does.
LEMMA FindRowsKeeps ==
    ASSUME ListingAssumption, WalkInv, NEW r \in Readers, FindRows(r)
    PROVE  WalkInv'
<1> DEFINE p == reader[r].page
           found == [docs |-> RowsOf(p), next |-> HasNext(p, reader[r].total), stored |-> TRUE]
           s == [reader[r] EXCEPT !.at = "storing", !.response = found]
<1>1. /\ reader[r] \in ReaderStates /\ reader[r].at = "finding" /\ Owing(reader[r])
      /\ rows \in Seq(Docs) /\ p \in Pages /\ Skip(p) \in Nat /\ PageSize \in Nat
  BY ReaderTyped, Offsets DEF WalkInv, ListingTypeOK, FindRows
<1>2. found \in Responses
  <2>1. RowsOf(p) \subseteq Docs
    BY <1>1 DEF RowsOf
  <2>2. HasNext(p, reader[r].total) \in BOOLEAN
    BY DEF HasNext
  <2> QED
    BY <2>1, <2>2 DEF Responses
<1>3. s \in ReaderStates
  BY <1>1, <1>2 DEF ReaderStates
<1>4. /\ s.at = "storing" /\ s.page = p /\ s.owed = reader[r].owed
      /\ s.seen = reader[r].seen /\ s.disturbed = reader[r].disturbed
      /\ s.response.docs = RowsOf(p)
      /\ s.response.next = HasNext(p, reader[r].total)
  BY <1>1 DEF ReaderStates
<1>5. reader' = [reader EXCEPT ![r] = s] /\ UNCHANGED <<rows, listed, writes, errors>>
  BY DEF FindRows
<1>6. listed' \in [Pages -> Responses \cup {NoPage}] /\ errors' \in 0 .. MaxErrors
  BY <1>5 DEF WalkInv, ListingTypeOK
<1> HIDE DEF s, found
<1>7. Owing(s)
  <2> SUFFICES ASSUME ~reader[r].disturbed PROVE Owing(s)
    BY <1>4 DEF Owing
  <2>1. /\ reader[r].owed \subseteq ToSet(rows) /\ reader[r].total = Len(rows)
        /\ \A i \in DOMAIN rows :
             i <= Skip(p) /\ rows[i] \in reader[r].owed => rows[i] \in reader[r].seen
    BY <1>1 DEF Owing
  <2>2. \A i \in DOMAIN rows :
          i <= Skip(p) + PageSize /\ rows[i] \in reader[r].owed
            => rows[i] \in reader[r].seen \cup RowsOf(p)
    BY <1>1, <2>1 DEF RowsOf
  <2>3. ASSUME ~HasNext(p, Len(rows))
        PROVE  reader[r].owed \subseteq reader[r].seen \cup RowsOf(p)
    <3>1. \A i \in DOMAIN rows : i <= Skip(p) + PageSize
      BY <1>1, <2>3 DEF HasNext
    <3>2. ToSet(rows) = {rows[i] : i \in DOMAIN rows}
      BY <1>1 DEF ToSet
    <3> QED
      BY <2>1, <2>2, <3>1, <3>2
  <2> QED
    BY <1>4, <2>1, <2>2, <2>3 DEF Owing
<1> QED
  BY <1>3, <1>5, <1>6, <1>7, ReaderStepKeeps

\* A failed query ends the walk early, and counts as a disturbance.
LEMMA QueryFailsKeeps ==
    ASSUME ListingAssumption, WalkInv, NEW r \in Readers, QueryFails(r)
    PROVE  WalkInv'
<1> DEFINE s == [reader[r] EXCEPT !.at = "storing", !.response = NothingFound, !.disturbed = TRUE]
<1>1. reader[r] \in ReaderStates /\ NothingFound \in Responses
  BY ReaderTyped DEF WalkInv, NothingFound, Responses
<1>2. s \in ReaderStates /\ s.disturbed
  BY <1>1 DEF ReaderStates
<1>3. /\ reader' = [reader EXCEPT ![r] = s] /\ UNCHANGED <<rows, listed, writes>>
      /\ errors < MaxErrors /\ errors' = errors + 1
  BY DEF QueryFails
<1>4. listed' \in [Pages -> Responses \cup {NoPage}] /\ errors' \in 0 .. MaxErrors
  BY <1>3 DEF WalkInv, ListingTypeOK, ListingAssumption
<1> HIDE DEF s
<1>5. Owing(s)
  BY <1>2 DEF Owing
<1> QED
  BY <1>2, <1>3, <1>4, <1>5, ReaderStepKeeps

LEMMA StoreAndServeKeeps ==
    ASSUME ListingAssumption, WalkInv, NEW r \in Readers, StoreAndServe(r)
    PROVE  WalkInv'
<1> DEFINE s == reader[r]
           t == Received(s, s.response, FALSE)
<1>1. /\ s \in ReaderStates /\ s.at = "storing" /\ Owing(s) /\ s.page \in Pages
      /\ s.response \in Responses \cup {NoPage} /\ s.response.next \in BOOLEAN
      /\ MaxPage \in Nat /\ s.page \in Nat /\ s.page <= MaxPage
      /\ Skip(s.page + 1) = Skip(s.page) + PageSize
  BY ReaderTyped, Offsets DEF WalkInv, ListingTypeOK, StoreAndServe, Pages
<1>2. t \in ReaderStates
  BY <1>1, ReceivedTyped
<1>3. /\ t.at = IF s.response.next /\ s.page < MaxPage THEN "asking" ELSE "idle"
      /\ t.page = IF s.response.next /\ s.page < MaxPage THEN s.page + 1 ELSE s.page
      /\ t.seen = s.seen \cup s.response.docs /\ t.owed = s.owed
      /\ t.disturbed <=> s.disturbed \/ (s.response.next /\ s.page = MaxPage)
  BY <1>1 DEF Received, ReaderStates
<1>4. reader' = [reader EXCEPT ![r] = t] /\ UNCHANGED <<rows, writes, errors>>
  BY DEF StoreAndServe
<1>5. listed' \in [Pages -> Responses \cup {NoPage}] /\ errors' \in 0 .. MaxErrors
  BY <1>1 DEF StoreAndServe, WalkInv, ListingTypeOK
<1> HIDE DEF s, t
<1>6. Owing(t)
  <2> SUFFICES ASSUME ~t.disturbed PROVE Owing(t)
    BY DEF Owing
  <2>1. /\ s.owed \subseteq ToSet(rows)
        /\ \A i \in DOMAIN rows :
             i <= Skip(s.page) + PageSize /\ rows[i] \in s.owed
               => rows[i] \in s.seen \cup s.response.docs
        /\ ~s.response.next => s.owed \subseteq s.seen \cup s.response.docs
    BY <1>1, <1>3 DEF Owing
  <2>2. CASE s.response.next
    <3>1. s.page < MaxPage
      BY <1>1, <1>3, <2>2
    <3>2. t.at = "asking" /\ t.page = s.page + 1
      BY <1>3, <2>2, <3>1
    <3> QED
      BY <1>1, <1>3, <2>1, <3>2 DEF Owing
  <2>3. CASE ~s.response.next
    BY <1>1, <1>3, <2>1, <2>3 DEF Owing
  <2> QED
    BY <1>1, <2>2, <2>3
<1> QED
  BY <1>2, <1>4, <1>5, <1>6, ReaderStepKeeps

\* An insertion moves rows back and never forward, so what a reader is past stays so.
LEMMA InsertKeeps ==
    ASSUME ListingAssumption, WalkInv, NEW d \in Docs, NEW i \in 1 .. Len(rows) + 1, Insert(d, i)
    PROVE  WalkInv'
<1> DEFINE n == Len(rows)
<1>1. /\ rows \in Seq(Docs) /\ IsInjective(rows) /\ d \notin ToSet(rows) /\ n \in Nat
      /\ rows' = InsertAt(rows, i, d) /\ writes \in 0 .. MaxWrites /\ writes < MaxWrites
      /\ writes' = writes + 1 /\ UNCHANGED <<listed, errors>> /\ MaxWrites \in Nat
      /\ reader' = [r \in Readers |->
           [reader[r] EXCEPT !.disturbed = @ \/ r \in {q \in Readers : reader[q].at = "finding"}]]
  BY DEF WalkInv, ListingTypeOK, Insert, Disturb, ListingAssumption
<1>2. /\ DOMAIN rows = 1 .. n /\ ToSet(rows) = {rows[j] : j \in 1 .. n}
      /\ \A j \in 1 .. n : rows[j] # d
  BY <1>1 DEF ToSet
<1>3. /\ rows' \in Seq(Docs) /\ Len(rows') = n + 1 /\ DOMAIN rows' = 1 .. n + 1
      /\ \A j \in 1 .. n + 1 :
           rows'[j] = IF j < i THEN rows[j] ELSE IF j = i THEN d ELSE rows[j - 1]
  <2>1. rows \in Seq(Docs)
    BY <1>1
  <2>2. /\ InsertAt(rows, i, d) \in Seq(Docs)
        /\ Len(InsertAt(rows, i, d)) = Len(rows) + 1
        /\ \A j \in 1 .. Len(rows) + 1 :
             InsertAt(rows, i, d)[j] = IF j < i THEN rows[j] ELSE IF j = i THEN d ELSE rows[j - 1]
    BY <2>1, InsertedAt
  <2> DEFINE t == InsertAt(rows, i, d)
  <2>3. rows' = t
    BY <1>1
  <2> HIDE DEF t
  <2>4. /\ t \in Seq(Docs) /\ Len(t) = n + 1
        /\ \A j \in 1 .. n + 1 :
             t[j] = IF j < i THEN rows[j] ELSE IF j = i THEN d ELSE rows[j - 1]
    BY <2>2 DEF t
  <2> QED
    BY <2>3, <2>4
<1>4. IsInjective(rows')
  BY <1>1, <1>2, InsertedInjective
<1>5. ASSUME NEW r \in Readers
      PROVE  /\ reader'[r] \in ReaderStates
             /\ reader[r].at = "finding" => reader'[r].disturbed
             /\ reader[r].disturbed => reader'[r].disturbed
             /\ \A f \in {"at", "page", "total", "response", "seen", "owed"} :
                  reader'[r][f] = reader[r][f]
  BY <1>1, ReaderTyped DEF ReaderStates, WalkInv
<1>6. ListingTypeOK'
  <2>1. reader' \in [Readers -> ReaderStates]
    BY <1>1, <1>5
  <2>2. writes' \in 0 .. MaxWrites
    BY <1>1
  <2>3. listed' \in [Pages -> Responses \cup {NoPage}] /\ errors' \in 0 .. MaxErrors
    BY <1>1 DEF WalkInv, ListingTypeOK
  <2> QED
    BY <1>3, <1>4, <2>1, <2>2, <2>3 DEF ListingTypeOK
<1>7. \A j \in DOMAIN rows' : rows'[j] = d \/ \E k \in DOMAIN rows : k <= j /\ rows'[j] = rows[k]
  <2> TAKE j \in DOMAIN rows'
  <2>1. j \in 1 .. n + 1
    BY <1>3
  <2>2. CASE j < i
    <3>1. j \in DOMAIN rows /\ j <= j /\ rows'[j] = rows[j]
      BY <1>1, <1>2, <1>3, <2>1, <2>2
    <3> QED
      BY <3>1
  <2>3. CASE j = i
    BY <1>3, <2>1, <2>3
  <2>4. CASE j > i
    <3>1. j - 1 \in DOMAIN rows /\ j - 1 <= j /\ rows'[j] = rows[j - 1]
      BY <1>1, <1>2, <1>3, <2>1, <2>4
    <3> QED
      BY <3>1
  <2> QED
    BY <2>1, <2>2, <2>3, <2>4
<1>8. ToSet(rows) \subseteq ToSet(rows')
  <2> SUFFICES ASSUME NEW k \in 1 .. n PROVE rows[k] \in ToSet(rows')
    BY <1>2
  <2>1. \E j \in 1 .. n + 1 : rows'[j] = rows[k]
    <3>1. CASE k < i
      <4>1. k \in 1 .. n + 1
        BY <1>1
      <4> QED
        BY <1>3, <3>1, <4>1
    <3>2. CASE k >= i
      <4>1. k + 1 \in 1 .. n + 1 /\ ~(k + 1 < i) /\ k + 1 # i /\ (k + 1) - 1 = k
        BY <1>1, <3>2
      <4> QED
        BY <1>3, <4>1
    <3> QED
      BY <1>1, <3>1, <3>2
  <2> QED
    BY <1>3, <2>1 DEF ToSet
<1>9. ASSUME NEW r \in Readers PROVE Owing(reader[r])'
  <2> DEFINE s == reader[r]  t == reader'[r]
  <2>1. /\ s \in ReaderStates /\ Owing(s) /\ t \in ReaderStates
        /\ s.at = "finding" => t.disturbed
        /\ s.disturbed => t.disturbed
        /\ t.at = s.at /\ t.page = s.page /\ t.total = s.total
        /\ t.response = s.response /\ t.seen = s.seen /\ t.owed = s.owed
    BY <1>5, ReaderTyped DEF WalkInv
  <2>2. Skip(s.page) \in Nat /\ PageSize \in Nat
    BY ReaderTyped, Offsets DEF WalkInv
  <2> HIDE DEF s, t
  <2> SUFFICES ASSUME ~t.disturbed PROVE Owing(reader[r])'
    BY DEF Owing, t
  <2>3. ~s.disturbed /\ s.at # "finding" /\ s.owed \subseteq ToSet(rows)
    BY <2>1 DEF Owing
  <2>4. d \notin s.owed
    BY <1>1, <2>3
  <2>5. s.owed \subseteq ToSet(rows')
    BY <1>8, <2>3
  <2>6. ASSUME NEW b \in Nat, NEW D,
               \A k \in DOMAIN rows : k <= b /\ rows[k] \in s.owed => rows[k] \in D
        PROVE  \A j \in DOMAIN rows' : j <= b /\ rows'[j] \in s.owed => rows'[j] \in D
    <3> TAKE j \in DOMAIN rows'
    <3> HAVE j <= b /\ rows'[j] \in s.owed
    <3>1. PICK k \in DOMAIN rows : k <= j /\ rows'[j] = rows[k]
      BY <1>7, <2>4
    <3>2. k <= b
      BY <1>1, <1>2, <1>3, <3>1
    <3> QED
      BY <2>6, <3>1, <3>2
  <2>7. s.at # "idle" =>
          \A j \in DOMAIN rows' : j <= Skip(s.page) /\ rows'[j] \in s.owed => rows'[j] \in s.seen
    BY <2>1, <2>2, <2>3, <2>6 DEF Owing
  <2>8. s.at = "storing" =>
          \A j \in DOMAIN rows' :
            j <= Skip(s.page) + PageSize /\ rows'[j] \in s.owed
              => rows'[j] \in s.seen \cup s.response.docs
    <3>1. Skip(s.page) + PageSize \in Nat
      BY <2>2
    <3> QED
      BY <2>1, <2>3, <2>6, <3>1 DEF Owing
  <2>9. /\ s.at = "idle" => s.owed \subseteq s.seen
        /\ s.at = "storing" /\ ~s.response.next => s.owed \subseteq s.seen \cup s.response.docs
    BY <2>1, <2>3 DEF Owing
  <2> QED
    BY <2>1, <2>3, <2>5, <2>7, <2>8, <2>9 DEF Owing, Skip, t
<1> QED
  BY <1>6, <1>9 DEF WalkInv

LEMMA DeactivateKeeps ==
    ASSUME ListingAssumption, WalkInv, NEW i \in DOMAIN rows, DeactivateRow(i)
    PROVE  WalkInv'
<1>1. /\ rows \in Seq(Docs) /\ IsInjective(rows) /\ i \in 1 .. Len(rows)
      /\ rows' = RemoveAt(rows, i) /\ writes \in 0 .. MaxWrites /\ writes < MaxWrites
      /\ writes' = writes + 1 /\ UNCHANGED <<listed, errors>> /\ MaxWrites \in Nat
      /\ reader' = [r \in Readers |-> [reader[r] EXCEPT !.disturbed = @ \/ r \in Readers]]
  BY DEF WalkInv, ListingTypeOK, DeactivateRow, Disturb, ListingAssumption
<1>2. rows' \in Seq(Docs) /\ IsInjective(rows')
  BY <1>1, RemovedAt, RemovedInjective
<1>3. ASSUME NEW r \in Readers PROVE reader'[r] \in ReaderStates /\ reader'[r].disturbed
  BY <1>1, ReaderTyped DEF ReaderStates, WalkInv
<1>4. ListingTypeOK'
  <2>1. reader' \in [Readers -> ReaderStates] /\ writes' \in 0 .. MaxWrites
    BY <1>1, <1>3
  <2>2. listed' \in [Pages -> Responses \cup {NoPage}] /\ errors' \in 0 .. MaxErrors
    BY <1>1 DEF WalkInv, ListingTypeOK
  <2> QED
    BY <1>2, <2>1, <2>2 DEF ListingTypeOK
<1> QED
  BY <1>3, <1>4 DEF WalkInv, Owing

LEMMA ExpireKeeps ==
    ASSUME WalkInv, NEW p \in Pages, Expire(p)
    PROVE  WalkInv'
<1>1. listed' \in [Pages -> Responses \cup {NoPage}] /\ UNCHANGED <<rows, reader, writes, errors>>
  BY DEF Expire, WalkInv, ListingTypeOK
<1> QED
  BY <1>1 DEF WalkInv, ListingTypeOK, Owing

\* A walk that nothing disturbed comes to its end with all that was listed when it
\* began, for any clients, announcements, page size and interleaving with writes.
THEOREM WalksAreComplete ==
    ASSUME ListingAssumption PROVE ListingSpec => [](ListingTypeOK /\ WalkComplete)
<1>1. ListingInit => WalkInv
  <2> SUFFICES ASSUME ListingInit PROVE WalkInv
    OBVIOUS
  <2>1. rows \in Seq(Docs) /\ IsInjective(rows)
    <3>1. PICK D \in SUBSET Docs : rows = SetToSeq(D)
      BY DEF ListingInit
    <3>2. IsFiniteSet(D)
      BY <3>1, FS_Subset DEF ListingAssumption
    <3>3. rows \in Seq(D) /\ IsInjective(rows)
      BY <3>1, <3>2, SetAsSequence
    <3> QED
      BY <3>3
  <2>2. /\ listed \in [Pages -> Responses \cup {NoPage}]
        /\ writes \in 0 .. MaxWrites /\ errors \in 0 .. MaxErrors
    BY DEF ListingInit, ListingAssumption
  <2>3. ASSUME NEW r \in Readers
        PROVE  /\ reader[r] \in ReaderStates /\ reader[r].at = "idle" /\ reader[r].owed = {}
    <3>1. Cardinality(Docs) \in Nat
      BY FS_CardinalityType DEF ListingAssumption
    <3> QED
      BY <3>1, Offsets DEF ListingInit, ReaderStates
  <2>4. reader \in [Readers -> ReaderStates]
    BY <2>3 DEF ListingInit
  <2>5. \A r \in Readers : Owing(reader[r])
    BY <2>3 DEF Owing
  <2> QED
    BY <2>1, <2>2, <2>4, <2>5 DEF WalkInv, ListingTypeOK
<1>2. WalkInv /\ [ListingNext]_listingVars => WalkInv'
  <2> SUFFICES ASSUME WalkInv, [ListingNext]_listingVars PROVE WalkInv'
    OBVIOUS
  <2>1. CASE UNCHANGED listingVars
    BY <2>1 DEF listingVars, WalkInv, ListingTypeOK, Owing
  <2>2. CASE ListingNext
    BY <2>2, StartWalkKeeps, ServeCachedKeeps, CountRowsKeeps, FindRowsKeeps,
       QueryFailsKeeps, StoreAndServeKeeps, InsertKeeps, DeactivateKeeps, ExpireKeeps DEF ListingNext
  <2> QED
    BY <2>1, <2>2
<1>3. WalkInv => ListingTypeOK /\ WalkComplete
  BY DEF WalkInv, WalkComplete, Owing
<1> QED
  BY <1>1, <1>2, <1>3, PTL DEF ListingSpec

-----------------------------------------------------------------------------
(* The collection: what fetching stores                                    *)

FetcherStates ==
    {NotFetching} \cup [step : {"check", "insert"}, rest : Seq(Announcements) \ {<<>>}]
DocStates == [number : Numbers, business : Businesses, origin : Origins, active : BOOLEAN]

DocsInv ==
    /\ IsFiniteSet(Stored) /\ Stored \subseteq usedDocs /\ usedDocs \subseteq DocIds
    /\ \A d \in Stored : doc[d] \in DocStates
    /\ fetching \in [Fetchers -> FetcherStates]
    /\ cleaning \in [Cleaners -> SUBSET usedDocs]
    /\ renumbered \subseteq Numbers
    /\ failures \in 0 .. MaxFailures /\ edits \in 0 .. MaxEdits

\* The copies fetching stored, and the fetchers about to store another.
Copies(a) == {d \in Matching(a) : doc[d].origin = "fetch"}
Inserting(a) == {f \in Fetchers : fetching[f].step = "insert" /\ Head(fetching[f].rest) = a}
Budget == Cardinality(Fetchers) + failures + edits
Accounted(a) == Cardinality(Copies(a)) + Cardinality(Inserting(a)) <= Budget

FetchInv == DocsInv /\ \A a \in Announcements : Accounted(a)

LEMMA FetchFacts ==
    ASSUME CollectionAssumption, DocsInv, NEW a
    PROVE  /\ IsFiniteSet(Copies(a)) /\ IsFiniteSet(Inserting(a)) /\ IsFiniteSet(Fetchers)
           /\ Cardinality(Copies(a)) \in Nat /\ Cardinality(Inserting(a)) \in Nat
           /\ Cardinality(Inserting(a)) <= Cardinality(Fetchers)
           /\ failures \in Nat /\ edits \in Nat /\ Cardinality(Fetchers) \in Nat
           /\ MaxFailures \in Nat /\ MaxEdits \in Nat
<1>1. IsFiniteSet(Fetchers) /\ MaxFailures \in Nat /\ MaxEdits \in Nat
  BY DEF CollectionAssumption
<1>2. Copies(a) \subseteq Stored /\ Inserting(a) \subseteq Fetchers /\ IsFiniteSet(Stored)
  BY DEF Copies, Matching, Inserting, DocsInv
<1>3. IsFiniteSet(Copies(a)) /\ IsFiniteSet(Inserting(a))
      /\ Cardinality(Inserting(a)) <= Cardinality(Fetchers)
  BY <1>1, <1>2, FS_Subset
<1> QED
  BY <1>1, <1>3, FS_CardinalityType DEF DocsInv

\* A step keeps the account of an announcement if it adds nothing to it; if
\* what it adds was accounted for before; or if there is no copy at all.
LEMMA AccountKept ==
    ASSUME CollectionAssumption, DocsInv, DocsInv', NEW a, Accounted(a),
           failures' >= failures, edits' >= edits,
           \/ Copies(a)' \subseteq Copies(a) /\ Inserting(a)' \subseteq Inserting(a)
           \/ /\ Budget' >= Budget + 1 /\ Inserting(a)' \subseteq Inserting(a)
              /\ \E d : Copies(a)' \subseteq Copies(a) \cup {d}
           \/ /\ Budget' >= Budget + 1 /\ Copies(a)' \subseteq Copies(a)
              /\ \E f : Inserting(a)' \subseteq Inserting(a) \cup {f}
           \/ /\ \E d : Copies(a)' \subseteq Copies(a) \cup {d}
              /\ \E f \in Inserting(a) : Inserting(a)' \subseteq Inserting(a) \ {f}
           \/ Copies(a)' = {}
    PROVE  Accounted(a)'
<1> DEFINE C == Copies(a)  I == Inserting(a)  CC == Copies(a)'  II == Inserting(a)'
<1>1. /\ IsFiniteSet(C) /\ IsFiniteSet(I) /\ Cardinality(C) \in Nat /\ Cardinality(I) \in Nat
      /\ failures \in Nat /\ edits \in Nat /\ Cardinality(Fetchers) \in Nat
  BY FetchFacts
<1>2. /\ IsFiniteSet(CC) /\ IsFiniteSet(II) /\ Cardinality(CC) \in Nat /\ Cardinality(II) \in Nat
      /\ Cardinality(II) <= Cardinality(Fetchers)
      /\ failures' \in Nat /\ edits' \in Nat
  <2>1. CC \subseteq Stored' /\ II \subseteq Fetchers /\ IsFiniteSet(Stored)' /\ IsFiniteSet(Fetchers)
    BY DEF Copies, Matching, Inserting, DocsInv, CollectionAssumption
  <2>2. IsFiniteSet(CC) /\ IsFiniteSet(II) /\ Cardinality(II) <= Cardinality(Fetchers)
    BY <2>1, FS_Subset
  <2>3. failures' \in Nat /\ edits' \in Nat
    BY DEF DocsInv
  <2> QED
    BY <2>2, <2>3, FS_CardinalityType
<1>3. /\ Cardinality(C) + Cardinality(I) <= Budget /\ Budget \in Nat
      /\ Budget' \in Nat /\ Budget' >= Budget /\ Budget' >= Cardinality(Fetchers)
  BY <1>1, <1>2 DEF Accounted, Budget
<1>4. SUFFICES Cardinality(CC) + Cardinality(II) <= Budget'
  BY DEF Accounted
<1>5. ASSUME NEW S, NEW T, IsFiniteSet(S), T \subseteq S
      PROVE  Cardinality(T) <= Cardinality(S)
  BY <1>5, FS_Subset
<1>6. ASSUME NEW S, NEW T, NEW x, IsFiniteSet(S), T \subseteq S \cup {x}
      PROVE  Cardinality(T) <= Cardinality(S) + 1
  <2>1. /\ IsFiniteSet(S \cup {x}) /\ Cardinality(S) \in Nat
        /\ Cardinality(S \cup {x}) = Cardinality(S) \/ Cardinality(S \cup {x}) = Cardinality(S) + 1
    BY <1>6, FS_AddElement, FS_CardinalityType
  <2>2. Cardinality(T) <= Cardinality(S \cup {x}) /\ Cardinality(T) \in Nat
    BY <1>6, <2>1, FS_Subset, FS_CardinalityType
  <2> QED
    BY <2>1, <2>2
<1>7. ASSUME NEW S, NEW T, NEW x \in S, IsFiniteSet(S), T \subseteq S \ {x}
      PROVE  Cardinality(T) + 1 <= Cardinality(S)
  <2>1. /\ IsFiniteSet(S \ {x}) /\ Cardinality(S \ {x}) = Cardinality(S) - 1
        /\ Cardinality(S) \in Nat
    BY <1>7, FS_RemoveElement, FS_CardinalityType
  <2>2. Cardinality(T) <= Cardinality(S \ {x}) /\ Cardinality(T) \in Nat
    BY <1>7, <2>1, FS_Subset, FS_CardinalityType
  <2> QED
    BY <2>1, <2>2
<1>a. CASE CC \subseteq C /\ II \subseteq I
  <2>1. Cardinality(CC) <= Cardinality(C) /\ Cardinality(II) <= Cardinality(I)
    BY <1>1, <1>5, <1>a
  <2> QED
    BY <1>1, <1>2, <1>3, <2>1
<1>b. CASE Budget' >= Budget + 1 /\ II \subseteq I /\ \E d : CC \subseteq C \cup {d}
  <2>1. Cardinality(CC) <= Cardinality(C) + 1 /\ Cardinality(II) <= Cardinality(I)
    BY <1>1, <1>5, <1>6, <1>b
  <2> QED
    BY <1>1, <1>2, <1>3, <1>b, <2>1
<1>c. CASE Budget' >= Budget + 1 /\ CC \subseteq C /\ \E f : II \subseteq I \cup {f}
  <2>1. Cardinality(CC) <= Cardinality(C) /\ Cardinality(II) <= Cardinality(I) + 1
    BY <1>1, <1>5, <1>6, <1>c
  <2> QED
    BY <1>1, <1>2, <1>3, <1>c, <2>1
<1>d. CASE (\E d : CC \subseteq C \cup {d}) /\ (\E f \in I : II \subseteq I \ {f})
  <2>1. Cardinality(CC) <= Cardinality(C) + 1 /\ Cardinality(II) + 1 <= Cardinality(I)
    BY <1>1, <1>6, <1>7, <1>d
  <2> QED
    BY <1>1, <1>2, <1>3, <2>1
<1>e. CASE CC = {}
  <2>1. Cardinality(CC) = 0
    BY <1>e, FS_EmptySet
  <2> QED
    BY <1>1, <1>2, <1>3, <2>1
<1> QED
  BY <1>a, <1>b, <1>c, <1>d, <1>e

\* What a fetcher's step changes of those about to insert.
LEMMA FetcherGoesOn ==
    ASSUME DocsInv, NEW f \in Fetchers, NEW s \in FetcherStates, FetcherBecomes(f, s)
    PROVE  /\ fetching' \in [Fetchers -> FetcherStates]
           /\ \A a : /\ Inserting(a)' \subseteq Inserting(a) \cup {f}
                     /\ s.step # "insert" \/ Head(s.rest) # a =>
                          Inserting(a)' \subseteq Inserting(a) \ {f}
<1>1. /\ fetching' \in [Fetchers -> FetcherStates]
      /\ \A g \in Fetchers : fetching'[g] = IF g = f THEN s ELSE fetching[g]
  BY DEF DocsInv, FetcherBecomes
<1> QED
  BY <1>1 DEF Inserting

LEMMA FetcherStateFacts ==
    ASSUME DocsInv, NEW f \in Fetchers, fetching[f].step \in {"check", "insert"}
    PROVE  /\ fetching[f].rest \in Seq(Announcements) /\ Head(fetching[f].rest) \in Announcements
           /\ After(fetching[f].rest) \in FetcherStates
           /\ After(fetching[f].rest).step # "insert"
           /\ [step |-> "insert", rest |-> fetching[f].rest] \in FetcherStates
<1> DEFINE r == fetching[f].rest
<1>1. r \in Seq(Announcements) /\ r # <<>>
  BY DEF DocsInv, FetcherStates, NotFetching
<1>2. Head(r) \in Announcements /\ Tail(r) \in Seq(Announcements)
  BY <1>1
<1>3. After(r) \in FetcherStates /\ After(r).step # "insert"
  BY <1>2 DEF After, FetcherStates, NotFetching
<1> QED
  BY <1>1, <1>2, <1>3 DEF FetcherStates

LEMMA FetchPageKeeps ==
    ASSUME CollectionAssumption, FetchInv, NEW f \in Fetchers, NEW items \in ApiPages,
           FetchPage(f, items)
    PROVE  FetchInv'
<1> DEFINE s == [step |-> "check", rest |-> items]
<1>1. s \in FetcherStates /\ s.step # "insert" /\ FetcherBecomes(f, s)
  BY DEF CollectionAssumption, FetcherStates, FetchPage
<1> HIDE DEF s
<1>2. fetching' \in [Fetchers -> FetcherStates] /\ \A a : Inserting(a)' \subseteq Inserting(a)
  BY <1>1, FetcherGoesOn DEF FetchInv
<1>3. UNCHANGED <<doc, byUpdate, usedDocs, cleaning, renumbered, failures, edits>>
  BY DEF FetchPage
<1>4. DocsInv'
  BY <1>2, <1>3 DEF FetchInv, DocsInv, Stored
<1>5. \A a : Copies(a)' = Copies(a)
  BY <1>3 DEF Copies, Matching, Stored
<1>6. failures \in Nat /\ edits \in Nat
  BY FetchFacts DEF FetchInv
<1>7. ASSUME NEW a \in Announcements PROVE Accounted(a)'
  BY <1>2, <1>3, <1>4, <1>5, <1>6, AccountKept DEF FetchInv
<1> QED
  BY <1>4, <1>7 DEF FetchInv

LEMMA CheckDuplicateKeeps ==
    ASSUME CollectionAssumption, FetchInv, NEW f \in Fetchers, CheckDuplicate(f)
    PROVE  FetchInv'
<1> DEFINE rest == fetching[f].rest
           inserts == [step |-> "insert", rest |-> rest]
<1>1. DocsInv /\ failures \in Nat /\ edits \in Nat /\ Cardinality(Fetchers) \in Nat
  BY FetchFacts DEF FetchInv
<1>2. /\ After(rest) \in FetcherStates /\ After(rest).step # "insert" /\ inserts \in FetcherStates
      /\ inserts.step = "insert" /\ inserts.rest = rest
  BY <1>1, FetcherStateFacts DEF CheckDuplicate
<1>3. UNCHANGED <<doc, byUpdate, usedDocs, cleaning, renumbered, edits>>
  BY DEF CheckDuplicate
<1>4. \A a : Copies(a)' = Copies(a) /\ (Matching(a) = {} => Copies(a) = {})
  BY <1>3 DEF Copies, Matching, Stored
<1>5. ASSUME fetching' \in [Fetchers -> FetcherStates], failures' \in 0 .. MaxFailures
      PROVE  DocsInv'
  BY <1>1, <1>3, <1>5 DEF DocsInv, Stored
<1>6. CASE FetcherBecomes(f, After(rest)) /\ UNCHANGED failures
  <2>1. fetching' \in [Fetchers -> FetcherStates] /\ \A a : Inserting(a)' \subseteq Inserting(a)
    BY <1>1, <1>2, <1>6, FetcherGoesOn
  <2>2. DocsInv'
    BY <1>1, <1>5, <1>6, <2>1 DEF DocsInv
  <2>3. ASSUME NEW a \in Announcements PROVE Accounted(a)'
    BY <1>1, <1>3, <1>4, <1>6, <2>1, <2>2, AccountKept DEF FetchInv
  <2> QED
    BY <2>2, <2>3 DEF FetchInv
<1>7. CASE Matching(Head(rest)) = {} /\ UNCHANGED failures /\ FetcherBecomes(f, inserts)
  <2>1. /\ fetching' \in [Fetchers -> FetcherStates]
        /\ \A a : a # Head(rest) => Inserting(a)' \subseteq Inserting(a)
    BY <1>1, <1>2, <1>7, FetcherGoesOn
  <2>2. DocsInv'
    BY <1>1, <1>5, <1>7, <2>1 DEF DocsInv
  <2>3. ASSUME NEW a \in Announcements PROVE Accounted(a)'
    <3>1. Copies(a)' = {} \/ (Copies(a)' \subseteq Copies(a) /\ Inserting(a)' \subseteq Inserting(a))
      BY <1>4, <1>7, <2>1
    <3> QED
      BY <1>1, <1>3, <1>7, <2>2, <3>1, AccountKept DEF FetchInv
  <2> QED
    BY <2>2, <2>3 DEF FetchInv
<1>8. CASE CallFails /\ FetcherBecomes(f, inserts)
  <2>1. /\ fetching' \in [Fetchers -> FetcherStates]
        /\ \A a : Inserting(a)' \subseteq Inserting(a) \cup {f}
    BY <1>1, <1>2, <1>8, FetcherGoesOn
  <2>2. /\ failures' = failures + 1 /\ failures' \in 0 .. MaxFailures /\ Budget' >= Budget + 1
        /\ failures' >= failures /\ edits' >= edits
    <3>1. failures' = failures + 1 /\ failures < MaxFailures
      BY <1>8 DEF CallFails
    <3>2. MaxFailures \in Nat
      BY DEF CollectionAssumption
    <3> QED
      BY <1>1, <1>3, <3>1, <3>2 DEF Budget
  <2>3. DocsInv'
    BY <1>5, <2>1, <2>2
  <2>4. ASSUME NEW a \in Announcements PROVE Accounted(a)'
    <3>1. Copies(a)' \subseteq Copies(a) /\ Inserting(a)' \subseteq Inserting(a) \cup {f} /\ Accounted(a)
      BY <1>4, <2>1 DEF FetchInv
    <3> QED
      BY <1>1, <2>2, <2>3, <3>1, AccountKept
  <2> QED
    BY <2>3, <2>4 DEF FetchInv
<1> QED
  BY <1>6, <1>7, <1>8 DEF CheckDuplicate

LEMMA Inserted ==
    ASSUME DocsInv, NEW n \in Numbers, NEW a \in Businesses, NEW origin \in Origins,
           InsertDoc(n, a, origin)
    PROVE  /\ NewDoc \in DocIds /\ NewDoc \notin usedDocs /\ NewDoc \notin Stored
           /\ Stored' = Stored \cup {NewDoc} /\ usedDocs' = usedDocs \cup {NewDoc}
           /\ doc'[NewDoc] = [number |-> n, business |-> a, origin |-> origin, active |-> TRUE]
           /\ \A d \in Stored : doc'[d] = doc[d]
           /\ IsFiniteSet(Stored)' /\ (Stored \subseteq usedDocs)' /\ usedDocs' \subseteq DocIds
           /\ \A d \in Stored' : doc'[d] \in DocStates
           /\ \A b : /\ Copies(b)' \subseteq Copies(b) \cup {NewDoc}
                     /\ b # a \/ origin # "fetch" => Copies(b)' \subseteq Copies(b)
<1> DEFINE m == NewDoc
           new == [number |-> n, business |-> a, origin |-> origin, active |-> TRUE]
<1>1. m \in DocIds /\ m \notin usedDocs
  BY DEF InsertDoc, NewDoc
<1>2. doc' = [e \in Stored \cup {m} |-> IF e = m THEN new ELSE doc[e]] /\ usedDocs' = usedDocs \cup {m}
  BY DEF InsertDoc
<1> HIDE DEF m
<1>3. m \notin Stored /\ Stored' = Stored \cup {m} /\ doc'[m] = new /\ \A d \in Stored : doc'[d] = doc[d]
  BY <1>1, <1>2 DEF DocsInv, Stored
<1>4. IsFiniteSet(Stored)' /\ (Stored \subseteq usedDocs)' /\ usedDocs' \subseteq DocIds
  BY <1>1, <1>2, <1>3, FS_AddElement DEF DocsInv
<1>5. new \in DocStates
  BY DEF DocStates
<1>6. \A d \in Stored' : doc'[d] \in DocStates
  BY <1>3, <1>5 DEF DocsInv
<1>7. ASSUME NEW b
      PROVE  /\ Copies(b)' \subseteq Copies(b) \cup {m}
             /\ b # a \/ origin # "fetch" => Copies(b)' \subseteq Copies(b)
  BY <1>3 DEF Copies, Matching
<1> QED
  BY <1>1, <1>2, <1>3, <1>4, <1>6, <1>7 DEF m

LEMMA InsertFetchedKeeps ==
    ASSUME CollectionAssumption, FetchInv, NEW f \in Fetchers, InsertFetched(f)
    PROVE  FetchInv'
<1> DEFINE rest == fetching[f].rest
<1>1. DocsInv /\ failures \in Nat /\ edits \in Nat /\ Cardinality(Fetchers) \in Nat
  BY FetchFacts DEF FetchInv
<1>2. /\ After(rest) \in FetcherStates /\ After(rest).step # "insert" /\ Head(rest) \in Announcements
      /\ fetching[f].step = "insert"
  BY <1>1, FetcherStateFacts DEF InsertFetched
<1>3. FetcherBecomes(f, After(rest)) /\ UNCHANGED <<cleaning, renumbered, edits>>
  BY DEF InsertFetched
<1>4. fetching' \in [Fetchers -> FetcherStates] /\ \A a : Inserting(a)' \subseteq Inserting(a) \ {f}
  BY <1>1, <1>2, <1>3, FetcherGoesOn
<1>5. CASE InsertDoc(Number(Head(rest)), Head(rest), "fetch") /\ UNCHANGED failures
  <2>1. PICK n \in Numbers, a \in Businesses, origin \in Origins :
          a = Head(rest) /\ origin = "fetch" /\ InsertDoc(n, a, origin)
    BY <1>2, <1>5 DEF Origins, Number, Numbers, Businesses
  <2>2. /\ usedDocs' = usedDocs \cup {NewDoc} /\ usedDocs' \subseteq DocIds
        /\ IsFiniteSet(Stored)' /\ (Stored \subseteq usedDocs)'
        /\ \A d \in Stored' : doc'[d] \in DocStates
        /\ \A b : /\ Copies(b)' \subseteq Copies(b) \cup {NewDoc}
                  /\ b # a => Copies(b)' \subseteq Copies(b)
    BY <1>1, <2>1, Inserted
  <2>3. DocsInv'
    BY <1>1, <1>3, <1>4, <1>5, <2>2 DEF DocsInv
  <2>4. ASSUME NEW b \in Announcements PROVE Accounted(b)'
    <3>1. \/ Copies(b)' \subseteq Copies(b) /\ Inserting(b)' \subseteq Inserting(b)
          \/ /\ \E d : Copies(b)' \subseteq Copies(b) \cup {d}
             /\ \E g \in Inserting(b) : Inserting(b)' \subseteq Inserting(b) \ {g}
      <4>1. CASE b # a
        BY <1>4, <2>2, <4>1
      <4>2. CASE b = a
        <5>1. f \in Inserting(b)
          BY <1>2, <2>1, <4>2 DEF Inserting
        <5> QED
          BY <1>4, <2>2, <5>1
      <4> QED
        BY <4>1, <4>2
    <3> QED
      BY <1>1, <1>3, <1>5, <2>3, <3>1, AccountKept DEF FetchInv
  <2> QED
    BY <2>3, <2>4 DEF FetchInv
<1>6. CASE CallFails /\ UNCHANGED <<doc, byUpdate, usedDocs>>
  <2>1. failures' = failures + 1 /\ failures' \in 0 .. MaxFailures
    BY <1>1, <1>6 DEF CallFails, CollectionAssumption
  <2>2. DocsInv'
    BY <1>1, <1>3, <1>4, <1>6, <2>1 DEF DocsInv, Stored
  <2>3. \A a : Copies(a)' = Copies(a)
    BY <1>6 DEF Copies, Matching, Stored
  <2>4. ASSUME NEW a \in Announcements PROVE Accounted(a)'
    BY <1>1, <1>3, <1>4, <2>1, <2>2, <2>3, AccountKept DEF FetchInv
  <2> QED
    BY <2>2, <2>4 DEF FetchInv
<1> QED
  BY <1>5, <1>6 DEF InsertFetched

LEMMA OtherInsertionsKeep ==
    ASSUME CollectionAssumption, FetchInv, NEW n \in Numbers, NEW a \in Businesses,
           NEW origin \in Origins \ {"fetch"}, InsertDoc(n, a, origin),
           UNCHANGED <<fetching, cleaning, renumbered, failures, edits>>
    PROVE  FetchInv'
<1>1. DocsInv /\ failures \in Nat /\ edits \in Nat
  BY FetchFacts DEF FetchInv
<1>2. /\ usedDocs' = usedDocs \cup {NewDoc} /\ usedDocs' \subseteq DocIds
      /\ IsFiniteSet(Stored)' /\ (Stored \subseteq usedDocs)'
      /\ \A d \in Stored' : doc'[d] \in DocStates
      /\ \A b : Copies(b)' \subseteq Copies(b)
  BY <1>1, Inserted
<1>3. DocsInv' /\ \A b : Inserting(b)' = Inserting(b)
  BY <1>1, <1>2 DEF DocsInv, Inserting
<1>4. ASSUME NEW b \in Announcements PROVE Accounted(b)'
  BY <1>1, <1>2, <1>3, AccountKept DEF FetchInv
<1> QED
  BY <1>3, <1>4 DEF FetchInv

\* A document becomes active or inactive, or another announcement's.
LEMMA UpdateKeeps ==
    ASSUME CollectionAssumption, FetchInv, NEW d \in Stored, NEW s \in DocStates,
           doc' = [doc EXCEPT ![d] = s], s.origin = doc[d].origin,
           edits' \in 0 .. MaxEdits, edits' >= edits,
           s.active /\ s.business # Absent /\ (~doc[d].active \/ s.business # doc[d].business)
             => edits' = edits + 1,
           renumbered' \subseteq Numbers,
           UNCHANGED <<usedDocs, fetching, cleaning, failures>>
    PROVE  FetchInv'
<1>1. DocsInv /\ failures \in Nat /\ edits \in Nat /\ Cardinality(Fetchers) \in Nat
  BY FetchFacts DEF FetchInv
<1>2. doc[d] \in DocStates
  BY <1>1 DEF DocsInv
<1>3. Stored' = Stored /\ doc'[d] = s /\ \A e \in Stored \ {d} : doc'[e] = doc[e]
  BY DEF Stored
<1>4. DocsInv'
  BY <1>1, <1>3 DEF DocsInv
<1>5. /\ \A b : Copies(b)' \subseteq Copies(b) \cup {d} /\ Inserting(b)' = Inserting(b)
      /\ \A b : ~s.active \/ b # s.business \/ (doc[d].active /\ s.business = doc[d].business)
                => Copies(b)' \subseteq Copies(b)
  BY <1>3 DEF Copies, Matching, Inserting
<1>6. ASSUME NEW b \in Announcements PROVE Accounted(b)'
  <2>1. CASE Copies(b)' \subseteq Copies(b)
    BY <1>1, <1>4, <1>5, <2>1, AccountKept DEF FetchInv
  <2>2. CASE s.active /\ b = s.business /\ ~(doc[d].active /\ s.business = doc[d].business)
    <3>1. edits' = edits + 1
      BY <2>2 DEF CollectionAssumption
    <3>2. Budget' >= Budget + 1
      BY <1>1, <3>1 DEF Budget
    <3> QED
      BY <1>1, <1>4, <1>5, <3>2, AccountKept DEF FetchInv
  <2> QED
    BY <1>5, <2>1, <2>2
<1> QED
  BY <1>4, <1>6 DEF FetchInv

LEMMA EditKeeps ==
    ASSUME CollectionAssumption, FetchInv, NEW d \in Stored, NEW number \in Numbers,
           NEW business \in Businesses, NEW active \in BOOLEAN,
           UpdateAnnouncement(d, number, business, active)
    PROVE  FetchInv'
<1>1. edits \in 0 .. MaxEdits /\ MaxEdits \in Nat /\ renumbered \subseteq Numbers
      /\ doc[d] \in DocStates
  BY DEF FetchInv, DocsInv, CollectionAssumption
<1>2. /\ edits' \in 0 .. MaxEdits /\ edits' >= edits
      /\ active /\ business # Absent /\ (~doc[d].active \/ business # doc[d].business)
           => edits' = edits + 1
  BY <1>1 DEF UpdateAnnouncement
<1>3. renumbered' \subseteq Numbers
  BY <1>1 DEF UpdateAnnouncement, DocStates
<1> DEFINE s == [doc[d] EXCEPT !.number = number, !.business = business, !.active = active]
<1>4. doc' = [doc EXCEPT ![d] = s] /\ UNCHANGED <<usedDocs, fetching, cleaning, failures>>
  BY DEF UpdateAnnouncement
<1>5. /\ s \in DocStates /\ s.origin = doc[d].origin
      /\ s.active = active /\ s.business = business
  BY <1>1 DEF DocStates
<1> HIDE DEF s
<1> QED
  BY <1>2, <1>3, <1>4, <1>5, UpdateKeeps

LEMMA DeletionKeeps ==
    ASSUME CollectionAssumption, FetchInv, NEW d \in Stored, DeleteAnnouncement(d)
    PROVE  FetchInv'
<1>1. edits \in 0 .. MaxEdits /\ MaxEdits \in Nat /\ doc[d] \in DocStates
  BY DEF FetchInv, DocsInv, CollectionAssumption
<1> DEFINE s == [doc[d] EXCEPT !.active = FALSE]
<1>2. doc' = [doc EXCEPT ![d] = s]
  BY DEF DeleteAnnouncement
<1>3. s \in DocStates /\ s.origin = doc[d].origin /\ ~s.active
  BY <1>1 DEF DocStates
<1>4. /\ UNCHANGED <<usedDocs, fetching, cleaning, failures>>
      /\ edits' \in 0 .. MaxEdits /\ edits' >= edits /\ renumbered' \subseteq Numbers
  BY <1>1 DEF DeleteAnnouncement, FetchInv, DocsInv
<1> HIDE DEF s
<1> QED
  BY <1>2, <1>3, <1>4, UpdateKeeps

LEMMA CleanUpKeeps ==
    ASSUME CollectionAssumption, FetchInv, NEW c \in Cleaners,
           FindDuplicates(c) \/ \E d \in DocIds : RemoveDuplicate(c, d)
    PROVE  FetchInv'
<1>1. DocsInv /\ failures \in Nat /\ edits \in Nat /\ cleaning \in [Cleaners -> SUBSET usedDocs]
  BY FetchFacts DEF FetchInv, DocsInv
<1>2. UNCHANGED <<usedDocs, fetching, failures, edits>> /\ renumbered' \subseteq Numbers
  BY <1>1 DEF FindDuplicates, RemoveDuplicate, DocsInv
<1>3. /\ Stored' \subseteq Stored /\ \A d \in Stored' : doc'[d] = doc[d]
      /\ cleaning' \in [Cleaners -> SUBSET usedDocs]
  <2>1. CASE FindDuplicates(c)
    BY <1>1, <2>1 DEF FindDuplicates, Stored, DocsInv
  <2>2. ASSUME NEW d \in DocIds, RemoveDuplicate(c, d)
        PROVE  /\ Stored' \subseteq Stored /\ \A e \in Stored' : doc'[e] = doc[e]
               /\ cleaning' \in [Cleaners -> SUBSET usedDocs]
    BY <1>1, <2>2 DEF RemoveDuplicate, Stored
  <2> QED
    BY <2>1, <2>2
<1>4. DocsInv'
  BY <1>1, <1>2, <1>3, FS_Subset DEF DocsInv
<1>5. \A b : Copies(b)' \subseteq Copies(b) /\ Inserting(b)' = Inserting(b)
  BY <1>2, <1>3 DEF Copies, Matching, Inserting
<1>6. ASSUME NEW b \in Announcements PROVE Accounted(b)'
  BY <1>1, <1>2, <1>4, <1>5, AccountKept DEF FetchInv
<1> QED
  BY <1>4, <1>6 DEF FetchInv

\* At first nothing is stored and nobody fetches.
LEMMA FetchStarts ==
    ASSUME CollectionAssumption, CollectionInit PROVE FetchInv
<1>1. Stored = {} /\ IsFiniteSet(Stored)
  BY FS_EmptySet DEF CollectionInit, Stored
<1>2. DocsInv
  BY <1>1 DEF CollectionInit, DocsInv, FetcherStates, CollectionAssumption
<1>3. ASSUME NEW a \in Announcements PROVE Accounted(a)
  <2>1. Copies(a) = {} /\ Inserting(a) = {}
    BY <1>1 DEF Copies, Matching, Inserting, CollectionInit, NotFetching
  <2>2. Cardinality({}) = 0
    BY FS_EmptySet
  <2> QED
    BY <1>2, <2>1, <2>2, FetchFacts DEF Accounted, Budget
<1> QED
  BY <1>2, <1>3 DEF FetchInv

\* The invariant holds in every state, for any fetchers, pages and failures.
THEOREM FetchInvariant ==
    ASSUME CollectionAssumption PROVE CollectionSpec => []FetchInv
<1>1. CollectionInit => FetchInv
  BY FetchStarts
<1>2. FetchInv /\ [CollectionNext]_collectionVars => FetchInv'
  <2> SUFFICES ASSUME FetchInv, [CollectionNext]_collectionVars PROVE FetchInv'
    OBVIOUS
  <2>1. ASSUME NEW f \in Fetchers,
               CheckDuplicate(f) \/ InsertFetched(f) \/ \E items \in ApiPages : FetchPage(f, items)
        PROVE  FetchInv'
    BY <2>1, CheckDuplicateKeeps, InsertFetchedKeeps, FetchPageKeeps
  <2>2. ASSUME NEW a \in Announcements, InsertFromBatch(a) PROVE FetchInv'
    <3>1. Number(a) \in Numbers /\ Absent \in Businesses /\ "batch" \in Origins \ {"fetch"}
      BY DEF Number, Numbers, Businesses, Origins
    <3> QED
      BY <2>2, <3>1, OtherInsertionsKeep DEF InsertFromBatch
  <2>3. ASSUME NEW number \in Numbers, NEW business \in Businesses,
               \/ CreateAnnouncement(number, business)
               \/ \E d \in Stored, active \in BOOLEAN : UpdateAnnouncement(d, number, business, active)
        PROVE  FetchInv'
    <3>1. "editor" \in Origins \ {"fetch"}
      BY DEF Origins
    <3> QED
      BY <2>3, <3>1, OtherInsertionsKeep, EditKeeps DEF CreateAnnouncement
  <2>6. ASSUME NEW d \in Stored, DeleteAnnouncement(d) PROVE FetchInv'
    BY <2>6, DeletionKeeps
  <2>4. ASSUME NEW c \in Cleaners, FindDuplicates(c) \/ \E d \in DocIds : RemoveDuplicate(c, d)
        PROVE  FetchInv'
    BY <2>4, CleanUpKeeps
  <2>5. CASE UNCHANGED collectionVars
    BY <2>5 DEF collectionVars, FetchInv, DocsInv, Accounted, Budget, Copies, Matching,
                Inserting, Stored
  <2> QED
    BY <2>1, <2>2, <2>3, <2>4, <2>5, <2>6 DEF CollectionNext
<1> QED
  BY <1>1, <1>2, PTL DEF CollectionSpec

\* Of the copies fetching stored, one is accounted for by each fetcher at most, each failure
\* and each edit that made a copy active or gave it that business.
THEOREM FetchesAreAccountedFor ==
    ASSUME CollectionAssumption PROVE CollectionSpec => []FetchedOnce
<1>1. FetchInv => FetchedOnce
  <2> SUFFICES ASSUME FetchInv, NEW a \in Announcements
               PROVE  Cardinality({d \in Matching(a) : doc[d].origin = "fetch"})
                        <= Cardinality(Fetchers) + failures + edits
    BY DEF FetchedOnce
  <2>1. Cardinality(Copies(a)) <= Cardinality(Fetchers) + failures + edits
    BY FetchFacts DEF FetchInv, Accounted, Budget
  <2> QED
    BY <2>1 DEF Copies
<1> QED
  BY <1>1, FetchInvariant, PTL

-----------------------------------------------------------------------------
(* The order of the updates, and the clean-up *)

\* Every document has one place in the order of the updates.
OrderInv ==
    DocsInv /\ byUpdate \in Seq(DocIds) /\ IsInjective(byUpdate) /\ ToSet(byUpdate) = Stored

\* Without an element, a sequence has the others, and none twice.
LEMMA WithoutOne ==
    ASSUME NEW S, NEW s \in Seq(S), IsInjective(s), NEW i \in 1 .. Len(s)
    PROVE  /\ RemoveAt(s, i) \in Seq(S) /\ IsInjective(RemoveAt(s, i))
           /\ ToSet(RemoveAt(s, i)) = ToSet(s) \ {s[i]}
<1> DEFINE t == RemoveAt(s, i)
<1>1. /\ t \in Seq(S) /\ Len(t) = Len(s) - 1 /\ IsInjective(t)
      /\ \A j \in 1 .. Len(s) - 1 : t[j] = IF j < i THEN s[j] ELSE s[j + 1]
  BY RemovedAt, RemovedInjective
<1>2. Len(s) \in Nat /\ \A j, k \in 1 .. Len(s) : s[j] = s[k] => j = k
  BY DEF IsInjective
<1> HIDE DEF t
<1>3. ASSUME NEW x \in ToSet(t) PROVE x \in ToSet(s) \ {s[i]}
  <2>1. PICK j \in 1 .. Len(s) - 1 : x = t[j]
    BY <1>1, <1>2 DEF ToSet
  <2>2. PICK k \in 1 .. Len(s) : x = s[k] /\ k # i
    <3>1. CASE j < i
      BY <1>1, <1>2, <2>1, <3>1
    <3>2. CASE ~(j < i)
      BY <1>1, <1>2, <2>1, <3>2
    <3> QED
      BY <3>1, <3>2
  <2> QED
    BY <1>2, <2>2 DEF ToSet
<1>4. ASSUME NEW x \in ToSet(s), x # s[i] PROVE x \in ToSet(t)
  <2>1. PICK k \in 1 .. Len(s) : x = s[k] /\ k # i
    BY <1>2, <1>4 DEF ToSet
  <2>2. PICK j \in 1 .. Len(s) - 1 : t[j] = s[k]
    <3>1. CASE k < i
      BY <1>1, <1>2, <2>1, <3>1
    <3>2. CASE k > i
      <4>1. k - 1 \in 1 .. Len(s) - 1 /\ ~(k - 1 < i) /\ (k - 1) + 1 = k
        BY <1>2, <2>1, <3>2
      <4> QED
        BY <1>1, <4>1
    <3> QED
      BY <1>2, <2>1, <3>1, <3>2
  <2>3. j \in DOMAIN t
    BY <1>1, <2>2
  <2> QED
    BY <2>1, <2>2, <2>3 DEF ToSet
<1> QED
  BY <1>1, <1>3, <1>4 DEF t

LEMMA WithOneMore ==
    ASSUME NEW S, NEW s \in Seq(S), IsInjective(s), NEW x \in S, x \notin ToSet(s)
    PROVE  /\ Append(s, x) \in Seq(S) /\ IsInjective(Append(s, x))
           /\ ToSet(Append(s, x)) = ToSet(s) \cup {x}
<1> DEFINE t == Append(s, x)
<1>1. /\ t \in Seq(S) /\ Len(t) = Len(s) + 1 /\ Len(s) \in Nat /\ DOMAIN t = 1 .. Len(s) + 1
      /\ DOMAIN s = 1 .. Len(s) /\ t[Len(s) + 1] = x
      /\ \A j \in 1 .. Len(s) : t[j] = s[j]
  OBVIOUS
<1> HIDE DEF t
<1>2. \A j \in DOMAIN s : s[j] # x
  BY DEF ToSet
<1>3. \A j \in DOMAIN t : j \in DOMAIN s \/ j = Len(s) + 1
  BY <1>1
<1>4. IsInjective(t)
  BY <1>1, <1>2, <1>3 DEF IsInjective
<1>5. ToSet(t) = ToSet(s) \cup {x}
  <2>1. Len(s) + 1 \in DOMAIN t /\ DOMAIN s \subseteq DOMAIN t
    BY <1>1
  <2> QED
    BY <1>1, <1>3, <2>1 DEF ToSet
<1> QED
  BY <1>1, <1>4, <1>5 DEF t

LEMMA PositionFacts ==
    ASSUME OrderInv, NEW d \in Stored
    PROVE  Position(d) \in 1 .. Len(byUpdate) /\ byUpdate[Position(d)] = d
<1>1. \E i \in DOMAIN byUpdate : byUpdate[i] = d
  BY DEF OrderInv, ToSet
<1> QED
  BY <1>1 DEF Position, OrderInv

LEMMA WithoutFacts ==
    ASSUME OrderInv, NEW d \in Stored
    PROVE  /\ Without(d) \in Seq(DocIds) /\ IsInjective(Without(d))
           /\ ToSet(Without(d)) = Stored \ {d}
BY PositionFacts, WithoutOne DEF OrderInv, Without

LEMMA TouchKeeps ==
    ASSUME OrderInv, NEW d \in Stored, Touch(d), Stored' = Stored, DocsInv'
    PROVE  OrderInv'
<1>1. d \in DocIds /\ d \notin ToSet(Without(d))
  BY WithoutFacts DEF OrderInv, DocsInv
<1>2. /\ Append(Without(d), d) \in Seq(DocIds) /\ IsInjective(Append(Without(d), d))
      /\ ToSet(Append(Without(d), d)) = (Stored \ {d}) \cup {d}
  BY <1>1, WithoutFacts, WithOneMore
<1> QED
  BY <1>2 DEF Touch, OrderInv

LEMMA InsertionOrdered ==
    ASSUME OrderInv, NEW n \in Numbers, NEW a \in Businesses, NEW origin \in Origins,
           InsertDoc(n, a, origin), DocsInv'
    PROVE  OrderInv'
<1>1. NewDoc \in DocIds /\ NewDoc \notin Stored /\ Stored' = Stored \cup {NewDoc}
  BY Inserted DEF OrderInv
<1>2. /\ Append(byUpdate, NewDoc) \in Seq(DocIds) /\ IsInjective(Append(byUpdate, NewDoc))
      /\ ToSet(Append(byUpdate, NewDoc)) = Stored \cup {NewDoc}
  BY <1>1, WithOneMore DEF OrderInv
<1>3. byUpdate' = Append(byUpdate, NewDoc)
  BY DEF InsertDoc
<1> QED
  BY <1>1, <1>2, <1>3 DEF OrderInv

LEMMA OrderStep ==
    ASSUME CollectionAssumption, OrderInv, CollectionNext, DocsInv'
    PROVE  OrderInv'
<1>1. ASSUME UNCHANGED <<doc, byUpdate>> PROVE OrderInv'
  BY <1>1 DEF OrderInv, Stored
<1>2. ASSUME NEW f \in Fetchers,
             CheckDuplicate(f) \/ \E items \in ApiPages : FetchPage(f, items)
      PROVE  OrderInv'
  BY <1>1, <1>2 DEF CheckDuplicate, FetchPage
<1>3. ASSUME NEW f \in Fetchers, InsertFetched(f) PROVE OrderInv'
  <2> DEFINE h == Head(fetching[f].rest)
  <2>1. CASE InsertDoc(Number(h), h, "fetch")
    <3>1. h \in Announcements
      BY <1>3, FetcherStateFacts DEF InsertFetched, OrderInv
    <3>2. PICK n \in Numbers, a \in Businesses, origin \in Origins : InsertDoc(n, a, origin)
      BY <2>1, <3>1 DEF Number, Numbers, Businesses, Origins
    <3> QED
      BY <3>2, InsertionOrdered
  <2> QED
    BY <1>1, <1>3, <2>1 DEF InsertFetched
<1>4. ASSUME NEW a \in Announcements, InsertFromBatch(a) PROVE OrderInv'
  <2>1. PICK n \in Numbers, x \in Businesses, origin \in Origins : InsertDoc(n, x, origin)
    BY <1>4 DEF InsertFromBatch, Number, Numbers, Businesses, Origins
  <2> QED
    BY <2>1, InsertionOrdered
<1>8. ASSUME NEW number \in Numbers, NEW business \in Businesses, CreateAnnouncement(number, business)
      PROVE  OrderInv'
  <2>1. PICK origin \in Origins : InsertDoc(number, business, origin)
    BY <1>8 DEF CreateAnnouncement, Origins
  <2> QED
    BY <2>1, InsertionOrdered
<1>5. ASSUME NEW d \in Stored,
             \/ DeleteAnnouncement(d)
             \/ \E number \in Numbers, business \in Businesses, active \in BOOLEAN :
                  UpdateAnnouncement(d, number, business, active)
      PROVE  OrderInv'
  <2>1. ASSUME DeleteAnnouncement(d) PROVE Touch(d) /\ Stored' = Stored
    BY <2>1 DEF DeleteAnnouncement, Stored
  <2>2. ASSUME NEW number \in Numbers, NEW business \in Businesses, NEW active \in BOOLEAN,
               UpdateAnnouncement(d, number, business, active)
        PROVE  Touch(d) /\ Stored' = Stored
    <3> DEFINE s == [doc[d] EXCEPT !.number = number, !.business = business, !.active = active]
    <3>1. doc' = [doc EXCEPT ![d] = s] /\ Touch(d)
      BY <2>2 DEF UpdateAnnouncement
    <3> HIDE DEF s
    <3> QED
      BY <3>1 DEF Stored
  <2> QED
    BY <1>5, <2>1, <2>2, TouchKeeps
<1>6. ASSUME NEW c \in Cleaners, FindDuplicates(c) PROVE OrderInv'
  BY <1>1, <1>6 DEF FindDuplicates
<1>7. ASSUME NEW c \in Cleaners, NEW d \in DocIds, RemoveDuplicate(c, d) PROVE OrderInv'
  <2>1. Stored' = Stored \ {d} /\ byUpdate' = IF d \in Stored THEN Without(d) ELSE byUpdate
    BY <1>7 DEF RemoveDuplicate, Stored
  <2>2. CASE d \in Stored
    BY <2>1, <2>2, WithoutFacts DEF OrderInv
  <2>3. CASE d \notin Stored
    BY <2>1, <2>3 DEF OrderInv
  <2> QED
    BY <2>2, <2>3
<1> QED
  BY <1>2, <1>3, <1>4, <1>5, <1>6, <1>7, <1>8 DEF CollectionNext

\* A set of numbers that is bounded has a greatest.
LEMMA GreatestBelow ==
    ASSUME NEW n \in Nat, NEW I \in SUBSET (0 .. n), I # {}
    PROVE  \E i \in I : \A j \in I : j <= i
<1> DEFINE R == {p \in Nat \X Nat : p[1] < p[2]}
           B == {n - i : i \in I}
<1>1. IsWellFoundedOn(R, Nat)
  BY NatLessThanWellFounded DEF OpToRel
<1>2. B \subseteq Nat /\ B # {}
  <2>1. ASSUME NEW i \in I PROVE n - i \in Nat
    OBVIOUS
  <2> QED
    BY <2>1
<1>3. PICK b \in B : \A x \in B : ~ (<<x, b>> \in R)
  <2> HIDE DEF B, R
  <2> QED
    BY <1>1, <1>2, WFMin
<1>4. PICK i \in I : b = n - i
  OBVIOUS
<1>5. ASSUME NEW j \in I PROVE j <= i
  <2>1. n - j \in B /\ n - j \in Nat /\ n - i \in Nat
    OBVIOUS
  <2>2. ~(n - j < n - i)
    BY <1>3, <1>4, <2>1
  <2> QED
    BY <2>2
<1> QED
  BY <1>5

\* The documents with one number are a group: the one updated last is not outdated.
LEMMA OneIsKept ==
    ASSUME OrderInv, NEW a, NumberedAs(a) # {}
    PROVE  \E d \in NumberedAs(a) : ~Outdated(d)
<1> DEFINE I == {i \in DOMAIN byUpdate : byUpdate[i] \in NumberedAs(a)}
<1>1. DOMAIN byUpdate = 1 .. Len(byUpdate) /\ Len(byUpdate) \in Nat
  BY DEF OrderInv
<1>2. I \in SUBSET (0 .. Len(byUpdate)) /\ I # {}
  <2>1. PICK d \in NumberedAs(a) : TRUE
    OBVIOUS
  <2>2. d \in Stored
    BY DEF NumberedAs
  <2>3. Position(d) \in I
    BY <1>1, <2>2, PositionFacts
  <2> QED
    BY <1>1, <2>3
<1> HIDE DEF I
<1>3. PICK i \in I : \A j \in I : j <= i
  BY <1>1, <1>2, GreatestBelow
<1> DEFINE d == byUpdate[i]
<1>4. d \in NumberedAs(a) /\ d \in Stored /\ doc[d].number = a /\ i \in DOMAIN byUpdate
  BY DEF I, NumberedAs
<1>5. Position(d) = i
  BY <1>1, <1>4, PositionFacts DEF OrderInv, IsInjective
<1>6. ASSUME NEW e \in Stored, SameGroup(d, e), Position(d) < Position(e) PROVE FALSE
  <2>1. doc[e].number = a
    BY <1>4, <1>6 DEF SameGroup
  <2>2. Position(e) \in I
    BY <1>1, <2>1, PositionFacts DEF I, NumberedAs
  <2>3. Position(e) <= i /\ i \in Int /\ Position(e) \in Int
    BY <1>1, <1>2, <1>3, <1>4, <2>2
  <2> QED
    BY <1>5, <1>6, <2>3
<1> QED
  BY <1>4, <1>6 DEF Outdated

\* Of the documents with a number one is about to stay, unless an edit changed
\* which documents these are.
KeptInv ==
    OrderInv /\ \A c \in Cleaners, a \in Numbered \ renumbered : NumberedAs(a) # {} =>
                  \E d \in NumberedAs(a) : d \notin cleaning[c]

OneCleaner == \A c, d \in Cleaners : c = d

\* What a step must do about one number.
Stays(a) ==
    /\ NumberedAs(a) # {} => NumberedAs(a)' # {}
    /\ \A c \in Cleaners : NumberedAs(a)' # {} => \E d \in NumberedAs(a)' : d \notin cleaning'[c]

LEMMA KeptStep ==
    ASSUME CollectionAssumption, OneCleaner, KeptInv, CollectionNext, OrderInv'
    PROVE  KeptInv' /\ NumberedStay
<1>1. SUFFICES ASSUME NEW a \in Numbered \ renumbered' PROVE Stays(a)
  BY DEF KeptInv, NumberedStay, Stays
<1>2. DocsInv /\ OrderInv /\ cleaning \in [Cleaners -> SUBSET usedDocs]
  BY DEF KeptInv, OrderInv, DocsInv
<1>a. ASSUME a \notin renumbered, NEW c \in Cleaners, NumberedAs(a) # {}
      PROVE  \E d \in NumberedAs(a) : d \notin cleaning[c]
  BY <1>a DEF KeptInv
<1>3. ASSUME NumberedAs(a)' = NumberedAs(a), UNCHANGED cleaning, a \notin renumbered PROVE Stays(a)
  BY <1>a, <1>3 DEF Stays
<1>4. ASSUME NEW n \in Numbers, NEW b \in Businesses, NEW origin \in Origins,
             InsertDoc(n, b, origin), UNCHANGED <<cleaning, renumbered>>
      PROVE  Stays(a)
  <2>1. /\ NewDoc \notin usedDocs /\ Stored' = Stored \cup {NewDoc}
        /\ \A d \in Stored : doc'[d] = doc[d]
    BY <1>2, <1>4, Inserted
  <2>2. /\ NumberedAs(a) \subseteq NumberedAs(a)' /\ NumberedAs(a)' \subseteq NumberedAs(a) \cup {NewDoc}
        /\ \A c \in Cleaners : NewDoc \notin cleaning[c]
    BY <1>2, <2>1 DEF NumberedAs
  <2> QED
    BY <1>4, <1>a, <2>2 DEF Stays
<1>5. ASSUME NEW f \in Fetchers,
             CheckDuplicate(f) \/ \E items \in ApiPages : FetchPage(f, items)
      PROVE  Stays(a)
  <2>1. UNCHANGED <<cleaning, renumbered>> /\ NumberedAs(a)' = NumberedAs(a)
    BY <1>5 DEF CheckDuplicate, FetchPage, NumberedAs, Stored
  <2> QED
    BY <1>3, <2>1
<1>6. ASSUME NEW f \in Fetchers, InsertFetched(f) PROVE Stays(a)
  <2> DEFINE h == Head(fetching[f].rest)
  <2>1. UNCHANGED <<cleaning, renumbered>>
    BY <1>6 DEF InsertFetched
  <2>2. CASE InsertDoc(Number(h), h, "fetch")
    <3>1. h \in Announcements
      BY <1>2, <1>6, FetcherStateFacts DEF InsertFetched
    <3>2. PICK n \in Numbers, b \in Businesses, origin \in Origins : InsertDoc(n, b, origin)
      BY <2>2, <3>1 DEF Number, Numbers, Businesses, Origins
    <3> QED
      BY <1>4, <2>1, <3>2
  <2>3. CASE UNCHANGED <<doc, byUpdate, usedDocs>>
    <3>1. NumberedAs(a)' = NumberedAs(a)
      BY <2>3 DEF NumberedAs, Stored
    <3> QED
      BY <1>3, <2>1, <3>1
  <2> QED
    BY <1>6, <2>2, <2>3 DEF InsertFetched
<1>7. ASSUME NEW b \in Announcements, InsertFromBatch(b) PROVE Stays(a)
  <2>1. PICK n \in Numbers, x \in Businesses, origin \in Origins : InsertDoc(n, x, origin)
    BY <1>7 DEF InsertFromBatch, Number, Numbers, Businesses, Origins
  <2>2. UNCHANGED <<cleaning, renumbered>>
    BY <1>7 DEF InsertFromBatch
  <2> QED
    BY <1>4, <2>1, <2>2
<1>8. ASSUME NEW number \in Numbers, NEW business \in Businesses, CreateAnnouncement(number, business)
      PROVE  Stays(a)
  <2>1. PICK origin \in Origins : InsertDoc(number, business, origin)
    BY <1>8 DEF CreateAnnouncement, Origins
  <2>2. UNCHANGED <<cleaning, renumbered>>
    BY <1>8 DEF CreateAnnouncement
  <2> QED
    BY <1>4, <2>1, <2>2
<1>9. ASSUME NEW d \in Stored, NEW number \in Numbers, NEW business \in Businesses,
             NEW active \in BOOLEAN, UpdateAnnouncement(d, number, business, active)
      PROVE  Stays(a)
  <2>1. doc[d] \in DocStates
    BY <1>2 DEF DocsInv
  <2>2. /\ Stored' = Stored /\ \A e \in Stored \ {d} : doc'[e] = doc[e]
        /\ doc'[d].number = number /\ UNCHANGED cleaning
    BY <1>9, <2>1 DEF UpdateAnnouncement, Stored, DocStates
  <2>3. /\ a \notin renumbered
        /\ number = doc[d].number \/ (a # number /\ a # doc[d].number)
    BY <1>9 DEF UpdateAnnouncement
  <2>4. NumberedAs(a)' = NumberedAs(a)
    BY <2>2, <2>3 DEF NumberedAs
  <2> QED
    BY <1>3, <2>2, <2>3, <2>4
<1>10. ASSUME NEW d \in Stored, DeleteAnnouncement(d) PROVE Stays(a)
  <2>1. doc[d] \in DocStates
    BY <1>2 DEF DocsInv
  <2>2. /\ Stored' = Stored /\ \A e \in Stored : doc'[e].number = doc[e].number
        /\ UNCHANGED <<cleaning, renumbered>>
    BY <1>10, <2>1 DEF DeleteAnnouncement, Stored, DocStates
  <2>3. NumberedAs(a)' = NumberedAs(a)
    BY <2>2 DEF NumberedAs
  <2> QED
    BY <1>3, <2>2, <2>3
<1>11. ASSUME NEW c \in Cleaners, FindDuplicates(c) PROVE Stays(a)
  <2>1. /\ NumberedAs(a)' = NumberedAs(a) /\ cleaning'[c] = {d \in Stored : Outdated(d)}
        /\ \A b \in Cleaners : b = c
    BY <1>2, <1>11 DEF FindDuplicates, NumberedAs, Stored, OneCleaner
  <2>2. NumberedAs(a) # {} => \E d \in NumberedAs(a) : d \notin cleaning'[c]
    BY <1>2, <2>1, OneIsKept
  <2> QED
    BY <2>1, <2>2 DEF Stays
<1>12. ASSUME NEW c \in Cleaners, NEW d \in DocIds, RemoveDuplicate(c, d) PROVE Stays(a)
  <2>1. /\ d \in cleaning[c] /\ cleaning'[c] = cleaning[c] \ {d} /\ a \notin renumbered
        /\ NumberedAs(a)' = NumberedAs(a) \ {d} /\ \A b \in Cleaners : b = c
    BY <1>2, <1>12 DEF RemoveDuplicate, NumberedAs, Stored, OneCleaner
  <2>2. NumberedAs(a) # {} => \E e \in NumberedAs(a) : e \notin cleaning[c]
    BY <1>a, <2>1
  <2> QED
    BY <2>1, <2>2 DEF Stays
<1> QED
  BY <1>5, <1>6, <1>7, <1>8, <1>9, <1>10, <1>11, <1>12 DEF CollectionNext

LEMMA OrderStarts ==
    ASSUME CollectionAssumption, CollectionInit PROVE OrderInv
<1>1. byUpdate = <<>> /\ Stored = {} /\ DocsInv
  BY FetchStarts DEF CollectionInit, Stored, FetchInv
<1>2. <<>> \in Seq(DocIds) /\ DOMAIN <<>> = {}
  OBVIOUS
<1> QED
  BY <1>1, <1>2 DEF OrderInv, IsInjective, ToSet

\* The order of the updates has each stored document at one place, for any
\* documents, clean-ups and fetches.
THEOREM OrderInvariant ==
    ASSUME CollectionAssumption PROVE CollectionSpec => []OrderInv
<1>1. CollectionInit => OrderInv
  BY OrderStarts
<1>2. FetchInv /\ FetchInv' /\ OrderInv /\ [CollectionNext]_collectionVars => OrderInv'
  <2> SUFFICES ASSUME FetchInv', OrderInv, [CollectionNext]_collectionVars PROVE OrderInv'
    OBVIOUS
  <2>1. DocsInv'
    BY DEF FetchInv
  <2>2. CASE UNCHANGED collectionVars
    BY <2>1, <2>2 DEF collectionVars, OrderInv, Stored
  <2> QED
    BY <2>1, <2>2, OrderStep
<1> QED
  BY <1>1, <1>2, FetchInvariant, PTL DEF CollectionSpec

LEMMA FirstNumbers ==
    ASSUME NEW n \in Nat PROVE IsFiniteSet(1 .. n) /\ Cardinality(1 .. n) = n
<1>1. IsFiniteSet(1 .. n) /\ Cardinality(1 .. n) = IF 1 > n THEN 0 ELSE n - 1 + 1
  BY FS_Interval
<1>2. (IF 1 > n THEN 0 ELSE n - 1 + 1) = n
  OBVIOUS
<1> QED
  BY <1>1, <1>2

\* The collection is well typed: every document has one place in the order of updates.
THEOREM CollectionTyped ==
    ASSUME CollectionAssumption PROVE CollectionSpec => []CollectionTypeOK
<1>1. OrderInv => CollectionTypeOK
  <2> SUFFICES ASSUME OrderInv PROVE CollectionTypeOK
    OBVIOUS
  <2>1. Len(byUpdate) = Cardinality(Stored)
    <3>1. /\ byUpdate \in [1 .. Len(byUpdate) -> Stored] /\ Len(byUpdate) \in Nat
          /\ \A x, y \in 1 .. Len(byUpdate) : byUpdate[x] = byUpdate[y] => x = y
          /\ \A d \in Stored : \E x \in 1 .. Len(byUpdate) : byUpdate[x] = d
      BY DEF OrderInv, ToSet, IsInjective
    <3>2. byUpdate \in Injection(1 .. Len(byUpdate), Stored)
      BY <3>1 DEF Injection, IsInjective
    <3>3. byUpdate \in Surjection(1 .. Len(byUpdate), Stored)
      BY <3>1 DEF Surjection
    <3>4. ExistsBijection(1 .. Len(byUpdate), Stored)
      BY <3>2, <3>3 DEF Bijection, ExistsBijection
    <3>5. Cardinality(1 .. Len(byUpdate)) = Cardinality(Stored)
      <4>1. IsFiniteSet(1 .. Len(byUpdate))
        BY <3>1, FirstNumbers
      <4> QED
        BY <3>4, <4>1, FS_Bijection
    <3>6. Cardinality(1 .. Len(byUpdate)) = Len(byUpdate)
      BY <3>1, FirstNumbers
    <3> QED
      BY <3>5, <3>6
  <2>2. DOMAIN fetching = Fetchers /\ cleaning \in [Cleaners -> SUBSET DocIds]
    BY DEF OrderInv, DocsInv
  <2> QED
    BY <2>1, <2>2 DEF OrderInv, DocsInv, DocStates, CollectionTypeOK
<1> QED
  BY <1>1, OrderInvariant, PTL

\* With one clean-up at a time, the last document with a number stays, unless an edit
\* changed the number of a document that had it or has it.
THEOREM NumberedAreKept ==
    ASSUME CollectionAssumption, OneCleaner PROVE CollectionSpec => NumberedKept
<1>1. CollectionInit => KeptInv
  <2> SUFFICES ASSUME CollectionInit, OrderInv PROVE KeptInv
    BY OrderStarts
  <2>1. \A a : NumberedAs(a) = {}
    BY DEF CollectionInit, NumberedAs, Stored
  <2> QED
    BY <2>1 DEF KeptInv
<1>2. KeptInv /\ OrderInv' /\ [CollectionNext]_collectionVars => KeptInv' /\ [NumberedStay]_collectionVars
  <2> SUFFICES ASSUME KeptInv, OrderInv', [CollectionNext]_collectionVars
               PROVE  KeptInv' /\ [NumberedStay]_collectionVars
    OBVIOUS
  <2>1. CASE UNCHANGED collectionVars
    BY <2>1 DEF collectionVars, KeptInv, OrderInv, NumberedAs, Stored
  <2> QED
    BY <2>1, KeptStep
<1> QED
  BY <1>1, <1>2, OrderInvariant, PTL DEF CollectionSpec, NumberedKept

-----------------------------------------------------------------------------
(* The container                                                           *)

FrameStates ==
    [type : Types, at : {"check", "push", "look_up", "create", "store", "remove"},
     rest : Seq(Types), result : {"none", "ok", "missing", "cycle"}]

Rank == CHOOSE rank \in [Types -> Nat] :
            \A t \in Bound : \A i \in DOMAIN Needs[t] : rank[Needs[t][i]] < rank[t]

\* Nested calls of one thread: each was made by the one before, in its
\* constructor's order, for a type of a lower layer.
Nested(F) ==
    /\ F \in Seq(FrameStates)
    /\ \A i \in 1 .. Len(F) :
         /\ F[i].at \in {"create", "store"} => F[i].type \in Bound
         /\ F[i].at = "create" =>
              \A x \in 1 .. Len(F[i].rest) : Rank[F[i].rest[x]] < Rank[F[i].type]
    /\ \A i, j \in 1 .. Len(F) :
         i < j => F[i].at = "create" /\ Rank[F[j].type] < Rank[F[i].type]

Places(F, t) == {i \in 1 .. Len(F) : F[i].type = t /\ F[i].at \notin {"check", "push"}}
OpenCalls(all, t) == {p \in Pool \X Nat : p[2] \in Places(all[p[1]], t)}
Where(s, t) == {i \in DOMAIN s : s[i] = t}

\* The threads that are between finding no singleton and constructing one,
\* or between constructing and storing it.
Has(F, t, stage) == \E i \in 1 .. Len(F) : F[i].type = t /\ F[i].at = stage
Makers(t, stage) == {h \in Pool : Has(frames[h], t, stage)}

NestInv ==
    /\ DOMAIN frames = Pool /\ \A h \in Pool : Nested(frames[h])
    /\ singletons \subseteq Bound /\ resolving \in Seq(Types)
    /\ DOMAIN created = Types
    /\ outcome \in [Pool -> {"none", "ok", "missing", "cycle"}]

TrackInv ==
    \A t \in Types :
        /\ IsFiniteSet(OpenCalls(frames, t)) /\ IsFiniteSet(Where(resolving, t))
        /\ Cardinality(Where(resolving, t)) = Cardinality(OpenCalls(frames, t))

MadeInv ==
    \A t \in Types :
        /\ created[t] \in Nat
        /\ created[t] + Cardinality(Makers(t, "create")) <= Cardinality(Pool)
        /\ t \notin singletons => created[t] <= Cardinality(Makers(t, "store"))

\* The layers exist.
LEMMA Ranked ==
    ASSUME ContainerAssumption
    PROVE  /\ Rank \in [Types -> Nat]
           /\ \A t \in Bound : \A i \in DOMAIN Needs[t] : Rank[Needs[t][i]] < Rank[t]
<1>1. PICK rank \in [DOMAIN Needs -> 0 .. Cardinality(DOMAIN Needs)] :
           \A t \in Bound : \A i \in DOMAIN Needs[t] : rank[Needs[t][i]] < rank[t]
  BY DEF ContainerAssumption, Layered
<1>2. Cardinality(DOMAIN Needs) \in Nat
  BY FS_CardinalityType DEF ContainerAssumption
<1>3. /\ rank \in [Types -> Nat]
      /\ \A t \in Bound : \A i \in DOMAIN Needs[t] : rank[Needs[t][i]] < rank[t]
  BY <1>1, <1>2 DEF Types
<1> QED
  BY <1>3 DEF Rank

\* The last element of a sequence removed and replaced.
LEMMA TopRemoved ==
    ASSUME NEW S, NEW s \in Seq(S), s # <<>>
    PROVE  /\ Front(s) \in Seq(S) /\ Len(Front(s)) = Len(s) - 1
           /\ Len(s) \in Nat /\ Len(s) >= 1
           /\ \A i \in 1 .. Len(s) - 1 : Front(s)[i] = s[i]
<1>1. Len(s) \in Nat /\ Len(s) >= 1
  OBVIOUS
<1> DEFINE n == Len(s) - 1  u == SubSeq(s, 1, n)
<1>2. 1 \in Int /\ n \in Int /\ \A i \in 1 .. n : s[i] \in S
  BY <1>1
<1> HIDE DEF n
<1>3. /\ u \in Seq(S) /\ Len(u) = (IF 1 <= n THEN n - 1 + 1 ELSE 0)
      /\ \A i \in 1 .. n - 1 + 1 : u[i] = s[1 + i - 1]
  BY <1>2, SubSeqProperties
<1> HIDE DEF u
<1>4. n \in Nat
  BY <1>1 DEF n
<1>5. n - 1 + 1 = n /\ (IF 1 <= n THEN n - 1 + 1 ELSE 0) = n
      /\ \A i \in 1 .. n : 1 + i - 1 = i
  BY <1>4
<1>6. Len(u) = n /\ \A i \in 1 .. n : u[i] = s[i]
  BY <1>3, <1>5
<1> QED
  BY <1>1, <1>3, <1>6 DEF Front, n, u

LEMMA TopReplaced ==
    ASSUME NEW S, NEW s \in Seq(S), s # <<>>, NEW x \in S
    PROVE  /\ Append(Front(s), x) \in Seq(S) /\ Len(Append(Front(s), x)) = Len(s)
           /\ \A i \in 1 .. Len(s) : Append(Front(s), x)[i] = IF i = Len(s) THEN x ELSE s[i]
<1>1. Len(s) \in Nat /\ Len(s) >= 1
  OBVIOUS
<1>2. /\ Front(s) \in Seq(S) /\ Len(Front(s)) = Len(s) - 1
      /\ \A i \in 1 .. Len(s) - 1 : Front(s)[i] = s[i]
  BY <1>1, TopRemoved
<1>3. /\ Append(Front(s), x) \in Seq(S) /\ Len(Append(Front(s), x)) = Len(Front(s)) + 1
      /\ \A i \in 1 .. Len(Front(s)) + 1 :
           Append(Front(s), x)[i] = IF i = Len(Front(s)) + 1 THEN x ELSE Front(s)[i]
  BY <1>2
<1> QED
  BY <1>1, <1>2, <1>3

\* The first occurrence exists.
LEMMA LeastNumber ==
    ASSUME NEW I \in SUBSET Nat, I # {}
    PROVE  \E k \in I : \A j \in I : k <= j
<1> DEFINE R == {p \in Nat \X Nat : p[1] < p[2]}
<1>1. IsWellFoundedOn(R, Nat)
  BY NatLessThanWellFounded DEF OpToRel
<1>2. PICK k \in I : \A j \in I : ~ (<<j, k>> \in R)
  <2> HIDE DEF R
  <2> QED
    BY <1>1, WFMin
<1>3. ASSUME NEW j \in I PROVE k <= j
  <2>1. <<j, k>> \in Nat \X Nat /\ ~(j < k)
    BY <1>2
  <2> QED
    BY <2>1
<1> QED
  BY <1>3

LEMMA FirstRemoved ==
    ASSUME NEW S, NEW s \in Seq(S), NEW e, NEW i \in 1 .. Len(s), s[i] = e
    PROVE  \E k \in 1 .. Len(s) : s[k] = e /\ RemoveFirst(s, e) = RemoveAt(s, k)
<1> DEFINE I == {j \in 1 .. Len(s) : s[j] = e}
<1>1. PICK k \in I : \A j \in I : k <= j
  <2>1. I \in SUBSET Nat /\ I # {}
    OBVIOUS
  <2> HIDE DEF I
  <2> QED
    BY <2>1, LeastNumber
<1>2. Min(I) \in I
  BY <1>1 DEF Min
<1>3. SelectInSeq(s, LAMBDA v : v = e) = Min(I)
  BY <1>1 DEF SelectInSeq
<1>4. RemoveFirst(s, e) = RemoveAt(s, Min(I))
  BY <1>3 DEF RemoveFirst
<1> QED
  BY <1>2, <1>4

\* How often an element occurs, when one is appended and when one is removed.
LEMMA WhereAppended ==
    ASSUME NEW S, NEW s \in Seq(S), NEW e \in S, NEW t, IsFiniteSet(Where(s, t))
    PROVE  /\ IsFiniteSet(Where(Append(s, e), t))
           /\ Cardinality(Where(Append(s, e), t)) =
                Cardinality(Where(s, t)) + IF t = e THEN 1 ELSE 0
<1>1. Len(s) \in Nat /\ DOMAIN s = 1 .. Len(s)
  OBVIOUS
<1>2. /\ DOMAIN Append(s, e) = 1 .. Len(s) + 1
      /\ \A i \in 1 .. Len(s) + 1 : Append(s, e)[i] = IF i = Len(s) + 1 THEN e ELSE s[i]
  BY <1>1
<1>3. Cardinality(Where(s, t)) \in Nat
  BY FS_CardinalityType
<1>4. CASE t = e
  <2>1. Where(Append(s, e), t) = Where(s, t) \cup {Len(s) + 1} /\ Len(s) + 1 \notin Where(s, t)
    BY <1>1, <1>2, <1>4 DEF Where
  <2> QED
    BY <1>3, <1>4, <2>1, FS_AddElement
<1>5. CASE t # e
  <2>1. Where(Append(s, e), t) = Where(s, t)
    BY <1>1, <1>2, <1>5 DEF Where
  <2> QED
    BY <1>3, <1>5, <2>1
<1> QED
  BY <1>4, <1>5

LEMMA WhereRemoved ==
    ASSUME NEW S, NEW s \in Seq(S), NEW k \in 1 .. Len(s), NEW t, IsFiniteSet(Where(s, t))
    PROVE  /\ RemoveAt(s, k) \in Seq(S) /\ IsFiniteSet(Where(RemoveAt(s, k), t))
           /\ Cardinality(Where(RemoveAt(s, k), t)) =
                Cardinality(Where(s, t)) - IF s[k] = t THEN 1 ELSE 0
<1> DEFINE u == RemoveAt(s, k)  V == Where(s, t) \ {k}
           f == [j \in V |-> IF j < k THEN j ELSE j - 1]
<1>1. /\ u \in Seq(S) /\ Len(u) = Len(s) - 1
      /\ \A j \in 1 .. Len(s) - 1 : u[j] = IF j < k THEN s[j] ELSE s[j + 1]
  BY RemovedAt
<1>2. Len(s) \in Nat /\ DOMAIN s = 1 .. Len(s) /\ DOMAIN u = 1 .. Len(s) - 1
  BY <1>1
<1> HIDE DEF u
<1>3. /\ IsFiniteSet(V) /\ Cardinality(Where(s, t)) \in Nat
      /\ Cardinality(V) = Cardinality(Where(s, t)) - IF s[k] = t THEN 1 ELSE 0
  <2>1. k \in Where(s, t) <=> s[k] = t
    BY <1>2 DEF Where
  <2>2. Cardinality(Where(s, t)) \in Nat
    BY FS_CardinalityType
  <2>3. /\ IsFiniteSet(V)
        /\ Cardinality(V) = IF k \in Where(s, t) THEN Cardinality(Where(s, t)) - 1
                                                ELSE Cardinality(Where(s, t))
    BY FS_RemoveElement
  <2> HIDE DEF V
  <2> QED
    BY <2>1, <2>2, <2>3
<1>4. f \in Injection(V, Where(u, t))
  <2>1. \A j \in V : f[j] \in Where(u, t)
    BY <1>1, <1>2 DEF Where
  <2>2. \A i, j \in V : f[i] = f[j] => i = j
    BY <1>2 DEF Where
  <2> QED
    BY <2>1, <2>2 DEF Injection, IsInjective
<1>5. f \in Surjection(V, Where(u, t))
  <2>1. \A j \in V : f[j] \in Where(u, t)
    BY <1>1, <1>2 DEF Where
  <2>2. ASSUME NEW j \in Where(u, t) PROVE \E i \in V : f[i] = j
    <3>1. j \in 1 .. Len(s) - 1 /\ u[j] = t
      BY <1>2 DEF Where
    <3>2. CASE j < k
      BY <1>1, <1>2, <3>1, <3>2 DEF Where
    <3>3. CASE ~(j < k)
      <4>1. j + 1 \in V /\ f[j + 1] = j
        BY <1>1, <1>2, <3>1, <3>3 DEF Where
      <4> QED
        BY <4>1
    <3> QED
      BY <3>2, <3>3
  <2> QED
    BY <2>1, <2>2 DEF Surjection
<1>6. ExistsBijection(V, Where(u, t))
  BY <1>4, <1>5 DEF ExistsBijection, Bijection
<1>7. IsFiniteSet(Where(u, t)) /\ Cardinality(Where(u, t)) = Cardinality(V)
  BY <1>3, <1>6, FS_Bijection
<1> QED
  BY <1>1, <1>3, <1>7 DEF u

Steps == {"check", "push", "look_up", "create", "store", "remove"}
Results == {"none", "ok", "missing", "cycle"}

\* The call on top, with those that wait for it.
LEMMA OnTop ==
    ASSUME NestInv, NEW h \in Pool, frames[h] # <<>>
    PROVE  /\ Len(frames[h]) \in Nat /\ Len(frames[h]) >= 1
           /\ Len(frames[h]) \in 1 .. Len(frames[h])
           /\ frames[h] \in Seq(FrameStates) /\ Nested(frames[h])
           /\ Top(h) = frames[h][Len(frames[h])] /\ Top(h) = Last(frames[h]) /\ Top(h) \in FrameStates
           /\ \A i \in 1 .. Len(frames[h]) - 1 : frames[h][i].at = "create"
<1>1. Nested(frames[h]) /\ frames[h] \in Seq(FrameStates)
  BY DEF NestInv, Nested
<1>2. Len(frames[h]) \in Nat /\ Len(frames[h]) >= 1
  BY <1>1
<1>3. frames[h][Len(frames[h])] \in FrameStates
  BY <1>1, <1>2
<1>4. \A i \in 1 .. Len(frames[h]) - 1 : frames[h][i].at = "create"
  BY <1>1, <1>2 DEF Nested
<1> QED
  BY <1>1, <1>2, <1>3, <1>4 DEF Top, Last

\* Calls stay nested when the top one moves on, ends or calls another.
LEMMA ReplaceNested ==
    ASSUME NEW F, Nested(F), F # <<>>, NEW x \in FrameStates, x.type = Last(F).type,
           x.at \in {"create", "store"} => x.type \in Bound,
           x.at = "create" => \A k \in 1 .. Len(x.rest) : Rank[x.rest[k]] < Rank[x.type]
    PROVE  Nested(Append(Front(F), x))
<1> DEFINE g == Append(Front(F), x)  n == Len(F)
<1>1. /\ F \in Seq(FrameStates) /\ n \in Nat /\ n >= 1 /\ F[n] = Last(F)
  BY DEF Nested, Last
<1>2. /\ g \in Seq(FrameStates) /\ Len(g) = n
      /\ \A i \in 1 .. n : g[i] = IF i = n THEN x ELSE F[i]
  BY <1>1, TopReplaced
<1> HIDE DEF g, n
<1>3. \A i \in 1 .. n :
         /\ g[i].at \in {"create", "store"} => g[i].type \in Bound
         /\ g[i].at = "create" =>
              \A k \in 1 .. Len(g[i].rest) : Rank[g[i].rest[k]] < Rank[g[i].type]
  BY <1>2 DEF Nested, n
<1>4. \A i, j \in 1 .. n :
         i < j => g[i].at = "create" /\ Rank[g[j].type] < Rank[g[i].type]
  <2>1. \A i \in 1 .. n : g[i].type = F[i].type
    BY <1>1, <1>2
  <2>2. \A i, j \in 1 .. n : i < j => F[i].at = "create" /\ Rank[F[j].type] < Rank[F[i].type]
    BY DEF Nested, n
  <2>3. \A i, j \in 1 .. n : i < j => i # n
    BY <1>1
  <2> QED
    BY <1>2, <2>1, <2>2, <2>3
<1>5. Nested(g)
  BY <1>2, <1>3, <1>4 DEF Nested
<1> QED
  BY <1>5 DEF g

LEMMA PopNested ==
    ASSUME NEW F, Nested(F), F # <<>>
    PROVE  Nested(Front(F))
<1> DEFINE g == Front(F)  n == Len(F)
<1>1. /\ F \in Seq(FrameStates) /\ n \in Nat /\ n >= 1
  BY DEF Nested
<1>2. g \in Seq(FrameStates) /\ Len(g) = n - 1 /\ \A i \in 1 .. n - 1 : g[i] = F[i]
  BY <1>1, TopRemoved
<1> HIDE DEF g, n
<1>3. \A i \in 1 .. n - 1 : i \in 1 .. n
  BY <1>1
<1>4. Nested(g)
  BY <1>2, <1>3 DEF Nested, n
<1> QED
  BY <1>4 DEF g

LEMMA PushNested ==
    ASSUME ContainerAssumption, NEW F, Nested(F), F # <<>>, NEW t \in Types,
           Last(F).at = "create", Rank[t] < Rank[Last(F).type]
    PROVE  Nested(Append(F, Frame(t)))
<1> DEFINE x == Frame(t)  g == Append(F, x)  n == Len(F)
<1>1. /\ F \in Seq(FrameStates) /\ n \in Nat /\ n >= 1 /\ F[n] = Last(F)
  BY DEF Nested, Last
<1>2. x \in FrameStates /\ x.at = "check" /\ x.type = t
  BY DEF Frame, FrameStates
<1> HIDE DEF x
<1>3. /\ g \in Seq(FrameStates) /\ Len(g) = n + 1
      /\ \A i \in 1 .. n + 1 : g[i] = IF i = n + 1 THEN x ELSE F[i]
  BY <1>1, <1>2
<1> HIDE DEF g
<1>4. \A i \in 1 .. n :
         /\ F[i].at \in {"create", "store"} => F[i].type \in Bound
         /\ F[i].at = "create" =>
              \A k \in 1 .. Len(F[i].rest) : Rank[F[i].rest[k]] < Rank[F[i].type]
  BY DEF Nested
<1>5. \A i, j \in 1 .. n : i < j => F[i].at = "create" /\ Rank[F[j].type] < Rank[F[i].type]
  BY DEF Nested
<1>6. \A i \in 1 .. n : F[i].at = "create" /\ Rank[t] < Rank[F[i].type]
  <2>1. \A i \in 1 .. n : F[i].type \in Types /\ Rank[F[i].type] \in Nat
    <3>1. \A i \in 1 .. n : F[i] \in FrameStates
      BY <1>1
    <3>2. \A i \in 1 .. n : F[i].type \in Types
      BY <3>1 DEF FrameStates
    <3> QED
      BY <3>2, Ranked
  <2>2. Rank[t] \in Nat
    BY Ranked
  <2> QED
    BY <1>1, <1>5, <2>1, <2>2
<1> HIDE DEF n
<1>7. \A i \in 1 .. n + 1 :
         /\ g[i].at \in {"create", "store"} => g[i].type \in Bound
         /\ g[i].at = "create" =>
              \A k \in 1 .. Len(g[i].rest) : Rank[g[i].rest[k]] < Rank[g[i].type]
  BY <1>1, <1>2, <1>3, <1>4
<1>8. \A i, j \in 1 .. n + 1 : i < j => g[i].at = "create" /\ Rank[g[j].type] < Rank[g[i].type]
  BY <1>1, <1>2, <1>3, <1>5, <1>6
<1>9. Nested(g)
  BY <1>3, <1>7, <1>8 DEF Nested
<1> QED
  BY <1>9 DEF g, x

\* What a step of one thread changes of the calls and of the makers.
LEMMA CallsAre ==
    ASSUME NestInv, NEW t
    PROVE  UNION {CallsFor(h, t) : h \in Pool} = OpenCalls(frames, t)
<1>1. \A h \in Pool : DOMAIN frames[h] = 1 .. Len(frames[h]) /\ Len(frames[h]) \in Nat
  BY DEF NestInv, Nested
<1>2. \A h \in Pool : CallsFor(h, t) = {<<h, i>> : i \in Places(frames[h], t)}
  BY <1>1 DEF CallsFor, Places
<1>3. \A h \in Pool : Places(frames[h], t) \subseteq Nat
  BY <1>1 DEF Places
<1> QED
  BY <1>2, <1>3 DEF OpenCalls

SameElsewhere(all, next, h) == \A x \in Pool : x # h => next[x] = all[x]

LEMMA CallsStay ==
    ASSUME NEW all, NEW next, NEW h \in Pool, SameElsewhere(all, next, h), NEW t, Places(next[h], t) = Places(all[h], t)
    PROVE  OpenCalls(next, t) = OpenCalls(all, t)
<1> DEFINE P(x) == Places(all[x], t)  Q(x) == Places(next[x], t)
<1>1. (\A x \in Pool : x # h => Q(x) = P(x)) /\ Q(h) = P(h)
  BY DEF SameElsewhere
<1>2. /\ OpenCalls(all, t) = {p \in Pool \X Nat : p[2] \in P(p[1])}
      /\ OpenCalls(next, t) = {p \in Pool \X Nat : p[2] \in Q(p[1])}
  BY DEF OpenCalls
<1> HIDE DEF P, Q
<1> QED
  BY <1>1, <1>2

LEMMA CallsGrow ==
    ASSUME NEW all, NEW next, NEW h \in Pool, SameElsewhere(all, next, h), NEW t, NEW n \in Nat, Places(next[h], t) = Places(all[h], t) \cup {n}
    PROVE  OpenCalls(next, t) = OpenCalls(all, t) \cup {<<h, n>>}
<1> DEFINE P(x) == Places(all[x], t)  Q(x) == Places(next[x], t)
<1>1. (\A x \in Pool : x # h => Q(x) = P(x)) /\ Q(h) = P(h) \cup {n}
  BY DEF SameElsewhere
<1>2. /\ OpenCalls(all, t) = {p \in Pool \X Nat : p[2] \in P(p[1])}
      /\ OpenCalls(next, t) = {p \in Pool \X Nat : p[2] \in Q(p[1])}
  BY DEF OpenCalls
<1> HIDE DEF P, Q
<1> QED
  BY <1>1, <1>2

LEMMA CallsShrink ==
    ASSUME NEW all, NEW next, NEW h \in Pool, SameElsewhere(all, next, h), NEW t, NEW n \in Nat, Places(next[h], t) = Places(all[h], t) \ {n}
    PROVE  OpenCalls(next, t) = OpenCalls(all, t) \ {<<h, n>>}
<1> DEFINE P(x) == Places(all[x], t)  Q(x) == Places(next[x], t)
<1>1. (\A x \in Pool : x # h => Q(x) = P(x)) /\ Q(h) = P(h) \ {n}
  BY DEF SameElsewhere
<1>2. /\ OpenCalls(all, t) = {p \in Pool \X Nat : p[2] \in P(p[1])}
      /\ OpenCalls(next, t) = {p \in Pool \X Nat : p[2] \in Q(p[1])}
  BY DEF OpenCalls
<1> HIDE DEF P, Q
<1> QED
  BY <1>1, <1>2

LEMMA MakersAfter ==
    ASSUME NestInv, NEW h \in Pool, NEW g, frames' = [frames EXCEPT ![h] = g]
    PROVE  \A t, stage :
              Makers(t, stage)' = IF Has(g, t, stage) THEN Makers(t, stage) \cup {h}
                                                    ELSE Makers(t, stage) \ {h}
<1> SUFFICES ASSUME NEW t, NEW stage
             PROVE  Makers(t, stage)' = IF Has(g, t, stage) THEN Makers(t, stage) \cup {h}
                                                          ELSE Makers(t, stage) \ {h}
  OBVIOUS
<1>1. \A x \in Pool : frames'[x] = IF x = h THEN g ELSE frames[x]
  BY DEF NestInv
<1>2. Makers(t, stage)' = {x \in Pool : Has(frames'[x], t, stage)}
  BY DEF Makers, Has
<1> QED
  BY <1>1, <1>2 DEF Makers

LEMMA MakersAreFinite ==
    ASSUME ContainerAssumption, NEW t, NEW stage
    PROVE  /\ IsFiniteSet(Makers(t, stage)) /\ Cardinality(Makers(t, stage)) \in Nat
           /\ IsFiniteSet(Makers(t, stage)') /\ Cardinality(Makers(t, stage)') \in Nat
           /\ Cardinality(Pool) \in Nat
<1>1. Makers(t, stage) \in SUBSET Pool /\ Makers(t, stage)' \in SUBSET Pool
  BY DEF Makers
<1>2. IsFiniteSet(Pool)
  BY DEF ContainerAssumption
<1>3. IsFiniteSet(Makers(t, stage)) /\ IsFiniteSet(Makers(t, stage)')
  BY <1>1, <1>2, FS_Subset
<1> QED
  BY <1>2, <1>3, FS_CardinalityType

\* Most steps move no call in or out of the stack, and have nothing made.
LEMMA TrackKept ==
    ASSUME NestInv, NestInv', TrackInv, UNCHANGED resolving, NEW h \in Pool, NEW g,
           frames' = [frames EXCEPT ![h] = g], \A t : Places(g, t) = Places(frames[h], t)
    PROVE  TrackInv'
<1>1. /\ SameElsewhere(frames, frames', h)
      /\ \A t : Places(frames'[h], t) = Places(frames[h], t)
  BY DEF NestInv, SameElsewhere
<1>2. ASSUME NEW t PROVE OpenCalls(frames', t) = OpenCalls(frames, t)
  <2>1. Places(frames'[h], t) = Places(frames[h], t)
    BY <1>1
  <2> QED
    BY <1>1, <2>1, CallsStay
<1> QED
  BY <1>2 DEF TrackInv

LEMMA MadeKept ==
    ASSUME ContainerAssumption, NestInv, MadeInv, UNCHANGED created, singletons \subseteq singletons',
           NEW h \in Pool, NEW g, frames' = [frames EXCEPT ![h] = g],
           \A t : Has(g, t, "create") => Has(frames[h], t, "create"),
           \A t : Has(frames[h], t, "store") => Has(g, t, "store") \/ t \in singletons'
    PROVE  MadeInv'
<1> SUFFICES ASSUME NEW t \in Types
             PROVE  /\ created'[t] \in Nat
                    /\ created'[t] + Cardinality(Makers(t, "create")') <= Cardinality(Pool)
                    /\ t \notin singletons' => created'[t] <= Cardinality(Makers(t, "store")')
  BY DEF MadeInv
<1>1. /\ created'[t] = created[t] /\ created[t] \in Nat
      /\ created[t] + Cardinality(Makers(t, "create")) <= Cardinality(Pool)
      /\ t \notin singletons' => created[t] <= Cardinality(Makers(t, "store"))
  BY DEF MadeInv
<1>5. \A stage : Makers(t, stage)' = IF Has(g, t, stage) THEN Makers(t, stage) \cup {h}
                                                      ELSE Makers(t, stage) \ {h}
  BY MakersAfter
<1>2. Cardinality(Makers(t, "create")') <= Cardinality(Makers(t, "create"))
  <2>1. Makers(t, "create")' \subseteq Makers(t, "create")
    BY <1>5 DEF Makers
  <2> QED
    BY <2>1, MakersAreFinite, FS_Subset
<1>3. t \notin singletons' => Cardinality(Makers(t, "store")) <= Cardinality(Makers(t, "store")')
  <2>1. t \notin singletons' => Makers(t, "store") \subseteq Makers(t, "store")'
    BY <1>5 DEF Makers
  <2> QED
    BY <2>1, MakersAreFinite, FS_Subset
<1>4. /\ Cardinality(Makers(t, "create")') \in Nat /\ Cardinality(Makers(t, "create")) \in Nat
      /\ Cardinality(Makers(t, "store")') \in Nat /\ Cardinality(Makers(t, "store")) \in Nat
      /\ Cardinality(Pool) \in Nat
  BY MakersAreFinite
<1> QED
  BY <1>1, <1>2, <1>3, <1>4

\* A step of one thread.
LEMMA NestKept ==
    ASSUME NestInv, NEW h \in Pool, NEW g, frames' = [frames EXCEPT ![h] = g], Nested(g),
           singletons' \subseteq Bound, resolving' \in Seq(Types), DOMAIN created' = Types,
           outcome' \in [Pool -> Results]
    PROVE  NestInv'
<1>1. DOMAIN frames' = Pool /\ \A x \in Pool : frames'[x] = IF x = h THEN g ELSE frames[x]
  BY DEF NestInv
<1>2. \A x \in Pool : Nested(frames'[x])
  BY <1>1 DEF NestInv
<1>3. \A x \in Pool : Nested(frames[x])'
  BY <1>2 DEF Nested
<1> QED
  BY <1>1, <1>3 DEF NestInv, Results

\* The calls that wait are all constructing, each another type than the top.
LEMMA Waiting ==
    ASSUME ContainerAssumption, NestInv, NEW h \in Pool, frames[h] # <<>>
    PROVE  \A i \in 1 .. Len(frames[h]) - 1 :
              frames[h][i].at = "create" /\ frames[h][i].type # Top(h).type
<1>1. /\ Nested(frames[h]) /\ Len(frames[h]) \in Nat /\ Len(frames[h]) >= 1
      /\ Top(h) = frames[h][Len(frames[h])] /\ frames[h] \in Seq(FrameStates)
  BY OnTop
<1> DEFINE F == frames[h]  n == Len(F)
<1>2. \A i \in 1 .. n - 1 : F[i].at = "create" /\ Rank[F[n].type] < Rank[F[i].type]
  BY <1>1 DEF Nested
<1>3. F[n] \in FrameStates
  BY <1>1
<1>4. Rank[F[n].type] \in Nat
  BY <1>3, Ranked DEF FrameStates
<1> HIDE DEF F, n
<1>5. \A i \in 1 .. n - 1 : F[i].type # F[n].type
  BY <1>2, <1>4
<1> QED
  BY <1>1, <1>2, <1>5 DEF F, n

\* The call on top moves on.
LEMMA TopMoves ==
    ASSUME ContainerAssumption, NestInv, NEW h \in Pool, frames[h] # <<>>,
           NEW x \in FrameStates, x.type = Top(h).type,
           x.at \in {"create", "store"} => x.type \in Bound,
           x.at = "create" => \A k \in 1 .. Len(x.rest) : Rank[x.rest[k]] < Rank[x.type],
           frames' = WithTop(h, x)
    PROVE  \E g :
             /\ frames' = [frames EXCEPT ![h] = g] /\ Nested(g)
             /\ \A t : Places(g, t) = IF x.type = t /\ x.at \notin {"check", "push"}
                                      THEN Places(frames[h], t) \cup {Len(frames[h])}
                                      ELSE Places(frames[h], t) \ {Len(frames[h])}
             /\ \A t : Has(g, t, "create") =>
                          Has(frames[h], t, "create") \/ (t = x.type /\ x.at = "create")
             /\ \A t : t # x.type => (Has(frames[h], t, "store") <=> Has(g, t, "store"))
             /\ \A stage : Has(g, x.type, stage) <=> x.at = stage
             /\ \A stage : Has(frames[h], x.type, stage) <=> Top(h).at = stage
<1> DEFINE F == frames[h]  n == Len(F)  g == Append(Front(F), x)
<1>1. /\ n \in Nat /\ n >= 1 /\ F \in Seq(FrameStates) /\ Nested(F)
      /\ Top(h) = F[n] /\ Top(h) = Last(F) /\ Top(h) \in FrameStates
  BY OnTop
<1>2. /\ g \in Seq(FrameStates) /\ Len(g) = n
      /\ \A i \in 1 .. n : g[i] = IF i = n THEN x ELSE F[i]
  BY <1>1, TopReplaced
<1>3. Nested(g)
  BY <1>1, ReplaceNested
<1>4. \A i \in 1 .. n - 1 : F[i].at = "create" /\ F[i].type # x.type
  BY Waiting
<1>5. frames' = [frames EXCEPT ![h] = g]
  BY DEF WithTop
<1>6. F[n].type = x.type /\ \A i \in 1 .. n : i = n \/ i \in 1 .. n - 1
  BY <1>1
<1> HIDE DEF F, g, n
<1>7. \A t : Places(g, t) = IF x.type = t /\ x.at \notin {"check", "push"}
                            THEN Places(F, t) \cup {n} ELSE Places(F, t) \ {n}
  <2>1. \A i \in 1 .. n : i # n => g[i] = F[i]
    BY <1>2
  <2>2. n \in 1 .. n /\ g[n] = x /\ Len(g) = n /\ Len(F) = n
    BY <1>1, <1>2 DEF n
  <2> QED
    BY <2>1, <2>2, <1>6 DEF Places
<1>8. \A t, stage : Has(g, t, stage) <=> (t = x.type /\ x.at = stage)
                                       \/ \E i \in 1 .. n - 1 : F[i].type = t /\ F[i].at = stage
  <2>1. \A i \in 1 .. n - 1 : i \in 1 .. n /\ g[i] = F[i]
    BY <1>1, <1>2
  <2>2. n \in 1 .. n /\ g[n] = x /\ Len(g) = n
    BY <1>1, <1>2
  <2> QED
    BY <2>1, <2>2, <1>6 DEF Has
<1>9. \A t, stage : Has(F, t, stage) <=> (t = x.type /\ F[n].at = stage)
                                       \/ \E i \in 1 .. n - 1 : F[i].type = t /\ F[i].at = stage
  <2>1. n \in 1 .. n /\ F[n].type = x.type /\ Len(F) = n /\ \A i \in 1 .. n - 1 : i \in 1 .. n
    BY <1>1, <1>6 DEF n
  <2> QED
    BY <2>1, <1>6 DEF Has
<1>10. /\ \A t : Has(g, t, "create") => Has(F, t, "create") \/ (t = x.type /\ x.at = "create")
       /\ \A t : t # x.type => (Has(F, t, "store") <=> Has(g, t, "store"))
       /\ \A stage : Has(g, x.type, stage) <=> x.at = stage
       /\ \A stage : Has(F, x.type, stage) <=> F[n].at = stage
  BY <1>4, <1>8, <1>9
<1> QED
  BY <1>1, <1>3, <1>5, <1>7, <1>10 DEF F, n

\* The call on top ends, and the one below goes on or passes the exception on.
LEMMA Returning ==
    ASSUME ContainerAssumption, NestInv, NEW h \in Pool, frames[h] # <<>>,
           Top(h).at \in {"check", "remove"}, NEW result \in Results, Returned(h, result)
    PROVE  /\ outcome' \in [Pool -> Results]
           /\ \E g :
             /\ frames' = [frames EXCEPT ![h] = g] /\ Nested(g)
             /\ \A t : Places(g, t) = Places(frames[h], t) \ {Len(frames[h])}
             /\ \A t : Has(g, t, "create") => Has(frames[h], t, "create")
             /\ \A t : ~ Has(frames[h], t, "store")
<1> DEFINE F == frames[h]  n == Len(F)  outer == Front(F)
           x == [Last(outer) EXCEPT !.at = "remove", !.result = result]
           g == IF outer # <<>> /\ result = "cycle" THEN Append(Front(outer), x) ELSE outer
<1>1. /\ n \in Nat /\ n >= 1 /\ F \in Seq(FrameStates) /\ Nested(F) /\ Top(h) = F[n]
  BY OnTop
<1>2. outer \in Seq(FrameStates) /\ Len(outer) = n - 1 /\ \A i \in 1 .. n - 1 : outer[i] = F[i]
  BY <1>1, TopRemoved
<1>3. Nested(outer)
  BY <1>1, PopNested
<1>4. \A i \in 1 .. n - 1 : F[i].at = "create"
  BY Waiting
<1>5. outcome' \in [Pool -> Results] /\ frames' = [frames EXCEPT ![h] = g]
  <2>1. outer = <<>> => frames' = [frames EXCEPT ![h] = <<>>] /\ outcome' = [outcome EXCEPT ![h] = result]
    BY DEF Returned
  <2>2. outer # <<>> =>
          /\ frames' = [frames EXCEPT ![h] = IF result = "cycle" THEN Append(Front(outer), x) ELSE outer]
          /\ outcome' = outcome
    BY DEF Returned
  <2>3. outcome \in [Pool -> Results]
    BY DEF NestInv, Results
  <2> HIDE DEF outer, x
  <2> QED
    BY <2>1, <2>2, <2>3
<1>6. \A t : ~ Has(F, t, "store")
  <2>1. \A i \in 1 .. n : i = n \/ i \in 1 .. n - 1
    BY <1>1
  <2> QED
    BY <1>1, <1>4, <2>1 DEF Has
<1> HIDE DEF outer, F, n
<1>7. /\ Nested(g) /\ Len(g) = n - 1
      /\ \A i \in 1 .. n - 1 : g[i].type = F[i].type /\ g[i].at \in {"create", "remove"}
  <2>1. CASE outer # <<>> /\ result = "cycle"
    <3>1. n - 1 \in 1 .. n - 1 /\ Last(outer) = outer[n - 1] /\ Last(outer) \in FrameStates
      <4>1. n - 1 \in Nat /\ n - 1 # 0
        BY <1>1, <1>2, <2>1
      <4>2. n - 1 \in 1 .. n - 1
        BY <1>1, <4>1
      <4>3. Last(outer) = outer[n - 1]
        BY <1>2 DEF Last
      <4>4. outer[n - 1] \in FrameStates
        BY <1>2, <4>2
      <4> QED
        BY <4>2, <4>3, <4>4
    <3>2. x \in FrameStates /\ x.type = Last(outer).type /\ x.at = "remove"
      BY <3>1 DEF FrameStates, Results
    <3> HIDE DEF x
    <3>3. /\ Len(Append(Front(outer), x)) = n - 1
          /\ \A i \in 1 .. n - 1 : Append(Front(outer), x)[i] = IF i = n - 1 THEN x ELSE outer[i]
      BY <1>2, <2>1, <3>2, TopReplaced
    <3>4. Nested(Append(Front(outer), x))
      BY <1>3, <2>1, <3>2, ReplaceNested
    <3> QED
      BY <1>2, <1>4, <2>1, <3>1, <3>2, <3>3, <3>4
  <2>2. CASE ~ (outer # <<>> /\ result = "cycle")
    BY <1>2, <1>3, <1>4, <2>2
  <2> QED
    BY <2>1, <2>2
<1> HIDE DEF g
<1>8. \A t : Places(g, t) = Places(F, t) \ {n}
  <2>1. \A i : i \in 1 .. n - 1 <=> i \in 1 .. n /\ i # n
    BY <1>1
  <2>2. Len(F) = n
    BY DEF n
  <2> QED
    BY <1>4, <1>7, <2>1, <2>2 DEF Places
<1>9. \A t : Has(g, t, "create") => Has(F, t, "create")
  <2>1. \A i \in 1 .. n - 1 : i \in 1 .. Len(F)
    BY <1>1 DEF n
  <2> QED
    BY <1>4, <1>7, <2>1 DEF Has
<1> QED
  BY <1>5, <1>6, <1>7, <1>8, <1>9 DEF F, n

ContainerInv == NestInv /\ TrackInv /\ MadeInv

\* At first nobody resolves anything.
LEMMA ContainerStarts ==
    ASSUME ContainerAssumption, ContainerInit PROVE ContainerInv
<1>1. \A h \in Pool : frames[h] = <<>> /\ Nested(frames[h])
  <2>1. \A h \in Pool : frames[h] = <<>>
    BY DEF ContainerInit
  <2>2. <<>> \in Seq(FrameStates) /\ Len(<<>>) = 0 /\ 1 .. 0 = {}
    OBVIOUS
  <2>3. Nested(<<>>)
    BY <2>2 DEF Nested
  <2> QED
    BY <2>1, <2>3
<1>2. NestInv
  BY <1>1 DEF ContainerInit, NestInv
<1>3. \A t : OpenCalls(frames, t) = {}
  <2>1. \A h \in Pool : Len(frames[h]) = 0
    BY <1>1
  <2>2. \A h \in Pool : \A t : Places(frames[h], t) = {}
    BY <2>1 DEF Places
  <2> QED
    BY <2>2 DEF OpenCalls
<1>4. \A t : Where(resolving, t) = {}
  BY DEF ContainerInit, Where
<1>5. TrackInv
  BY <1>3, <1>4, FS_EmptySet DEF TrackInv
<1>6. \A t, stage : Makers(t, stage) = {}
  <2>1. \A h \in Pool : Len(frames[h]) = 0
    BY <1>1
  <2> QED
    BY <2>1 DEF Makers, Has
<1>7. Cardinality({}) = 0 /\ Cardinality(Pool) \in Nat
  BY FS_EmptySet, FS_CardinalityType DEF ContainerAssumption
<1>8. MadeInv
  <2>1. \A t \in Types : created[t] = 0
    BY DEF ContainerInit
  <2>2. \A t, stage : Cardinality(Makers(t, stage)) = 0
    BY <1>6, <1>7
  <2> HIDE DEF MadeInv
  <2>3. \A t \in Types : /\ created[t] \in Nat
                        /\ created[t] + Cardinality(Makers(t, "create")) <= Cardinality(Pool)
                        /\ created[t] <= Cardinality(Makers(t, "store"))
    BY <1>7, <2>1, <2>2
  <2> QED
    BY <2>3 DEF MadeInv
<1> QED
  BY <1>2, <1>5, <1>8 DEF ContainerInv

\* A new call has not looked at the stack yet.
LEMMA ResolveKeeps ==
    ASSUME ContainerAssumption, ContainerInv, NEW h \in Pool, NEW t \in Services, Resolve(h, t)
    PROVE  ContainerInv'
<1> DEFINE x == Frame(t)  g == <<x>>
<1>1. t \in Types /\ x \in FrameStates /\ x.at = "check"
  BY DEF ContainerAssumption, Types, Frame, FrameStates
<1> HIDE DEF x
<1>2. g \in Seq(FrameStates) /\ Len(g) = 1 /\ g[1] = x /\ frames' = [frames EXCEPT ![h] = g]
  BY <1>1 DEF Resolve, x
<1> HIDE DEF g
<1>3. Nested(g)
  <2>1. \A i, j \in 1 .. 1 : ~ (i < j)
    OBVIOUS
  <2>2. \A i \in 1 .. 1 : g[i].at = "check"
    BY <1>1, <1>2
  <2> QED
    BY <1>2, <2>1, <2>2 DEF Nested
<1>4. /\ UNCHANGED <<resolving, singletons, created>> /\ frames[h] = <<>>
      /\ outcome' \in [Pool -> Results]
  BY DEF Resolve, ContainerInv, NestInv, Results
<1>5. NestInv'
  BY <1>2, <1>3, <1>4, NestKept DEF ContainerInv, NestInv
<1>6. \A u : Places(g, u) = Places(frames[h], u)
  <2>1. \A i \in 1 .. 1 : g[i].at = "check"
    BY <1>1, <1>2
  <2>2. Len(frames[h]) = 0
    BY <1>4
  <2> QED
    BY <1>2, <2>1, <2>2 DEF Places
<1>7. \A u, stage : stage \in {"create", "store"} => ~ Has(g, u, stage) /\ ~ Has(frames[h], u, stage)
  <2>1. \A i \in 1 .. 1 : g[i].at = "check"
    BY <1>1, <1>2
  <2>2. Len(frames[h]) = 0
    BY <1>4
  <2> QED
    BY <1>2, <2>1, <2>2 DEF Has
<1>8. TrackInv'
  BY <1>2, <1>4, <1>5, <1>6, TrackKept DEF ContainerInv
<1>9. MadeInv'
  BY <1>2, <1>4, <1>7, MadeKept DEF ContainerInv
<1> QED
  BY <1>5, <1>8, <1>9 DEF ContainerInv

\* A call that is refused was not on the stack.
LEMMA CheckKeeps ==
    ASSUME ContainerAssumption, ContainerInv, NEW h \in Pool, CheckCycle(h)
    PROVE  ContainerInv'
<1>1. /\ UNCHANGED <<resolving, singletons, created>> /\ frames[h] # <<>> /\ Top(h).at = "check"
  BY DEF CheckCycle, At, Top
<1>2. NestInv /\ outcome \in [Pool -> Results] /\ Top(h) \in FrameStates
      /\ Top(h) = frames[h][Len(frames[h])]
  BY <1>1, OnTop DEF ContainerInv, NestInv, Results
<1>3. \A t : Len(frames[h]) \notin Places(frames[h], t)
  BY <1>1, <1>2 DEF Places
<1>4. \E g : /\ frames' = [frames EXCEPT ![h] = g] /\ Nested(g) /\ outcome' \in [Pool -> Results]
             /\ \A t : Places(g, t) = Places(frames[h], t) \ {Len(frames[h])}
             /\ \A t : Has(g, t, "create") => Has(frames[h], t, "create")
             /\ \A t : Has(frames[h], t, "store") => Has(g, t, "store")
  <2>1. CASE Contains(resolving, Top(h).type)
    <3>1. Returned(h, "cycle") /\ "cycle" \in Results
      BY <2>1 DEF CheckCycle, Results
    <3> QED
      BY <1>1, <1>2, <3>1, Returning
  <2>2. CASE ~ Contains(resolving, Top(h).type)
    <3> DEFINE x == [Top(h) EXCEPT !.at = "push"]
    <3>1. x \in FrameStates /\ x.type = Top(h).type /\ x.at = "push"
      BY <1>2 DEF FrameStates
    <3>2. frames' = WithTop(h, x) /\ outcome' = outcome
      BY <2>2 DEF CheckCycle
    <3> HIDE DEF x
    <3>3. PICK g :
             /\ frames' = [frames EXCEPT ![h] = g] /\ Nested(g)
             /\ \A t : Places(g, t) = Places(frames[h], t) \ {Len(frames[h])}
             /\ \A t : Has(g, t, "create") => Has(frames[h], t, "create")
             /\ \A t : t # x.type => (Has(frames[h], t, "store") <=> Has(g, t, "store"))
             /\ ~ Has(frames[h], x.type, "store")
      <4>1. x.at # "create" /\ x.at # "store" /\ x.at \in {"check", "push"} /\ Top(h).at # "store"
        BY <1>1, <3>1
      <4> QED
        BY <1>1, <1>2, <3>1, <3>2, <4>1, TopMoves
    <3> QED
      BY <1>2, <3>2, <3>3
  <2> QED
    BY <2>1, <2>2
<1>5. PICK g :
             /\ frames' = [frames EXCEPT ![h] = g] /\ Nested(g) /\ outcome' \in [Pool -> Results]
             /\ \A t : Places(g, t) = Places(frames[h], t)
             /\ \A t : Has(g, t, "create") => Has(frames[h], t, "create")
             /\ \A t : Has(frames[h], t, "store") => Has(g, t, "store")
  BY <1>3, <1>4
<1>6. NestInv'
  BY <1>1, <1>2, <1>5, NestKept DEF NestInv
<1>7. TrackInv'
  BY <1>1, <1>2, <1>5, <1>6, TrackKept DEF ContainerInv
<1>8. MadeInv'
  BY <1>1, <1>2, <1>5, MadeKept DEF ContainerInv
<1> QED
  BY <1>6, <1>7, <1>8 DEF ContainerInv

\* The stack and the calls that are resolving grow together.
LEMMA PushKeeps ==
    ASSUME ContainerAssumption, ContainerInv, NEW h \in Pool, Push(h)
    PROVE  ContainerInv'
<1> DEFINE x == [Top(h) EXCEPT !.at = "look_up"]  T == Top(h).type  n == Len(frames[h])
<1>1. /\ UNCHANGED <<singletons, created, outcome>> /\ frames[h] # <<>> /\ Top(h).at = "push"
      /\ resolving' = Append(resolving, T) /\ frames' = WithTop(h, x)
  BY DEF Push, At, Top
<1>2. NestInv /\ Top(h) \in FrameStates /\ Top(h) = frames[h][n] /\ T \in Types
  BY <1>1, OnTop DEF ContainerInv, FrameStates
<1>3. x \in FrameStates /\ x.type = T /\ x.at = "look_up"
  BY <1>2 DEF FrameStates
<1> HIDE DEF x
<1>4. PICK g :
         /\ frames' = [frames EXCEPT ![h] = g] /\ Nested(g)
         /\ \A t : Places(g, t) = IF x.type = t /\ x.at \notin {"check", "push"}
                                  THEN Places(frames[h], t) \cup {Len(frames[h])}
                                  ELSE Places(frames[h], t) \ {Len(frames[h])}
         /\ \A t : Has(g, t, "create") =>
                      Has(frames[h], t, "create") \/ (t = x.type /\ x.at = "create")
         /\ \A t : t # x.type => (Has(frames[h], t, "store") <=> Has(g, t, "store"))
         /\ \A stage : Has(g, x.type, stage) <=> x.at = stage
         /\ \A stage : Has(frames[h], x.type, stage) <=> Top(h).at = stage
  <2>1. x.at # "create" /\ x.at # "store"
    BY <1>3
  <2> QED
    BY <1>1, <1>2, <1>3, <2>1, TopMoves
<1>10. /\ \A t : Places(g, t) = IF T = t THEN Places(frames[h], t) \cup {n}
                                ELSE Places(frames[h], t) \ {n}
       /\ \A t : Has(g, t, "create") => Has(frames[h], t, "create")
       /\ \A t : t # T => (Has(frames[h], t, "store") <=> Has(g, t, "store"))
  BY <1>3, <1>4
<1>5. NestInv'
  <2>1. resolving' \in Seq(Types) /\ outcome' \in [Pool -> Results]
    BY <1>1, <1>2 DEF NestInv, Results
  <2> QED
    BY <1>1, <1>2, <1>4, <2>1, NestKept DEF NestInv
<1>6. \A t : n \notin Places(frames[h], t)
  BY <1>1, <1>2 DEF Places
<1> HIDE DEF T, n
<1>7. TrackInv'
  <2> SUFFICES ASSUME NEW t \in Types
               PROVE  /\ IsFiniteSet(OpenCalls(frames', t)) /\ IsFiniteSet(Where(resolving', t))
                      /\ Cardinality(Where(resolving', t)) = Cardinality(OpenCalls(frames', t))
    BY DEF TrackInv, Where, OpenCalls, Places
  <2>0. n \in Nat /\ frames'[h] = g /\ SameElsewhere(frames, frames', h)
    BY <1>1, <1>2, <1>4, OnTop DEF NestInv, n, SameElsewhere
  <2>1. /\ IsFiniteSet(OpenCalls(frames, t)) /\ IsFiniteSet(Where(resolving, t))
        /\ Cardinality(Where(resolving, t)) = Cardinality(OpenCalls(frames, t))
    BY DEF ContainerInv, TrackInv
  <2>2. resolving \in Seq(Types)
    BY <1>2 DEF NestInv
  <2>3. /\ IsFiniteSet(Where(resolving', t))
        /\ Cardinality(Where(resolving', t)) = Cardinality(Where(resolving, t)) + IF t = T THEN 1 ELSE 0
    BY <1>1, <1>2, <2>1, <2>2, WhereAppended
  <2>4. CASE t = T
    <3>1. OpenCalls(frames', t) = OpenCalls(frames, t) \cup {<<h, n>>}
      <4>1. Places(frames'[h], t) = Places(frames[h], t) \cup {n}
        BY <1>10, <2>0, <2>4
      <4> QED
        BY <2>0, <4>1, CallsGrow
    <3>2. <<h, n>> \notin OpenCalls(frames, t)
      BY <1>6 DEF OpenCalls
    <3> QED
      BY <2>1, <2>3, <2>4, <3>1, <3>2, FS_AddElement
  <2>5. CASE t # T
    <3>1. OpenCalls(frames', t) = OpenCalls(frames, t)
      <4>1. Places(frames'[h], t) = Places(frames[h], t)
        BY <1>6, <1>10, <2>0, <2>5
      <4> QED
        BY <2>0, <4>1, CallsStay
    <3>2. Cardinality(Where(resolving, t)) \in Nat
      BY <2>1, FS_CardinalityType
    <3> QED
      BY <2>1, <2>3, <2>5, <3>1, <3>2
  <2> QED
    BY <2>4, <2>5
<1>8. MadeInv'
  <2>1. \A t : Has(frames[h], t, "store") => Has(g, t, "store")
    <3>1. ~ Has(frames[h], T, "store")
      BY <1>1, <1>3, <1>4
    <3> QED
      BY <1>10, <3>1
  <2>2. singletons \subseteq singletons' /\ UNCHANGED created
    BY <1>1
  <2> QED
    BY <1>2, <1>4, <1>10, <2>1, <2>2, MadeKept DEF ContainerInv
<1> QED
  BY <1>5, <1>7, <1>8 DEF ContainerInv

\* A stored singleton is looked up from now on, so that nobody begins to construct it.
LEMMA StoreKeeps ==
    ASSUME ContainerAssumption, ContainerInv, NEW h \in Pool, Store(h)
    PROVE  ContainerInv'
<1> DEFINE x == [Top(h) EXCEPT !.at = "remove", !.result = "ok"]  T == Top(h).type
           n == Len(frames[h])
<1>1. /\ UNCHANGED <<resolving, created, outcome>> /\ frames[h] # <<>> /\ Top(h).at = "store"
      /\ singletons' = singletons \cup {T} /\ frames' = WithTop(h, x)
  BY DEF Store, At, Top
<1>2. /\ NestInv /\ Top(h) \in FrameStates /\ Top(h) = frames[h][n] /\ T \in Bound
      /\ n \in 1 .. n
  <2>1. /\ NestInv /\ Top(h) \in FrameStates /\ Top(h) = frames[h][n] /\ Nested(frames[h])
        /\ n \in 1 .. n
    BY <1>1, OnTop DEF ContainerInv
  <2> QED
    BY <1>1, <2>1 DEF Nested
<1>3. x \in FrameStates /\ x.type = T /\ x.at = "remove"
  BY <1>2 DEF FrameStates
<1> HIDE DEF x
<1>4. PICK g :
         /\ frames' = [frames EXCEPT ![h] = g] /\ Nested(g)
         /\ \A t : Places(g, t) = IF x.type = t /\ x.at \notin {"check", "push"}
                                  THEN Places(frames[h], t) \cup {Len(frames[h])}
                                  ELSE Places(frames[h], t) \ {Len(frames[h])}
         /\ \A t : Has(g, t, "create") =>
                      Has(frames[h], t, "create") \/ (t = x.type /\ x.at = "create")
         /\ \A t : t # x.type => (Has(frames[h], t, "store") <=> Has(g, t, "store"))
         /\ \A stage : Has(g, x.type, stage) <=> x.at = stage
         /\ \A stage : Has(frames[h], x.type, stage) <=> Top(h).at = stage
  <2>1. x.at # "create" /\ x.at # "store"
    BY <1>3
  <2> QED
    BY <1>1, <1>2, <1>3, <2>1, TopMoves
<1>10. /\ \A t : Places(g, t) = IF T = t THEN Places(frames[h], t) \cup {n}
                                ELSE Places(frames[h], t) \ {n}
       /\ \A t : Has(g, t, "create") => Has(frames[h], t, "create")
       /\ \A t : t # T => (Has(frames[h], t, "store") <=> Has(g, t, "store"))
  BY <1>3, <1>4
<1>5. NestInv'
  <2>1. singletons' \subseteq Bound /\ outcome' \in [Pool -> Results]
    BY <1>1, <1>2 DEF NestInv, Results
  <2> QED
    BY <1>1, <1>2, <1>4, <2>1, NestKept DEF NestInv
<1>6. \A t : Places(g, t) = Places(frames[h], t)
  <2>1. \A t : n \in Places(frames[h], t) <=> t = T
    BY <1>1, <1>2 DEF Places
  <2> QED
    BY <1>10, <2>1
<1>7. TrackInv'
  BY <1>1, <1>2, <1>4, <1>5, <1>6, TrackKept DEF ContainerInv
<1>8. MadeInv'
  <2>1. \A t : Has(frames[h], t, "store") => Has(g, t, "store") \/ t \in singletons'
    BY <1>1, <1>10
  <2>2. singletons \subseteq singletons' /\ UNCHANGED created
    BY <1>1
  <2> QED
    BY <1>2, <1>4, <1>10, <2>1, <2>2, MadeKept DEF ContainerInv
<1> QED
  BY <1>5, <1>7, <1>8 DEF ContainerInv

\* The stack loses some entry for the type, and the calls the one that ends.
LEMMA RemoveKeeps ==
    ASSUME ContainerAssumption, ContainerInv, NEW h \in Pool, RemoveType(h)
    PROVE  ContainerInv'
<1> DEFINE T == Top(h).type  n == Len(frames[h])
<1>1. /\ UNCHANGED <<singletons, created>> /\ frames[h] # <<>> /\ Top(h).at = "remove"
      /\ resolving' = RemoveFirst(resolving, T) /\ Returned(h, Top(h).result)
  BY DEF RemoveType, At, Top
<1>2. /\ NestInv /\ Top(h) \in FrameStates /\ Top(h) = frames[h][n] /\ T \in Types
      /\ Top(h).result \in Results /\ n \in 1 .. n
  BY <1>1, OnTop DEF ContainerInv, FrameStates, Results
<1>3. outcome' \in [Pool -> Results]
  BY <1>1, <1>2, Returning
<1>4. PICK g :
         /\ frames' = [frames EXCEPT ![h] = g] /\ Nested(g)
         /\ \A t : Places(g, t) = Places(frames[h], t) \ {n}
         /\ \A t : Has(g, t, "create") => Has(frames[h], t, "create")
         /\ \A t : ~ Has(frames[h], t, "store")
  BY <1>1, <1>2, Returning
<1>5. \A t : n \in Places(frames[h], t) <=> t = T
  BY <1>1, <1>2 DEF Places
<1>6. \A t : <<h, n>> \in OpenCalls(frames, t) <=> t = T
  BY <1>2, <1>5, OnTop DEF OpenCalls
<1> HIDE DEF T, n
<1>7. PICK k \in 1 .. Len(resolving) : resolving[k] = T /\ resolving' = RemoveAt(resolving, k)
  <2>1. /\ IsFiniteSet(OpenCalls(frames, T)) /\ IsFiniteSet(Where(resolving, T)) /\ OpenCalls(frames, T) # {}
        /\ Cardinality(Where(resolving, T)) = Cardinality(OpenCalls(frames, T))
    BY <1>2, <1>6 DEF ContainerInv, TrackInv
  <2>2. Where(resolving, T) # {}
    BY <2>1, FS_EmptySet
  <2>3. resolving \in Seq(Types)
    BY <1>2 DEF NestInv
  <2>4. PICK i \in 1 .. Len(resolving) : resolving[i] = T
    BY <2>2, <2>3 DEF Where
  <2> QED
    BY <1>1, <2>3, <2>4, FirstRemoved
<1>8. resolving' \in Seq(Types)
  <2>1. resolving \in Seq(Types)
    BY <1>2 DEF NestInv
  <2> QED
    BY <1>7, <2>1, RemovedAt
<1>9. NestInv'
  BY <1>1, <1>2, <1>3, <1>4, <1>8, NestKept DEF NestInv
<1>10. TrackInv'
  <2> SUFFICES ASSUME NEW t \in Types
               PROVE  /\ IsFiniteSet(OpenCalls(frames', t)) /\ IsFiniteSet(Where(resolving', t))
                      /\ Cardinality(Where(resolving', t)) = Cardinality(OpenCalls(frames', t))
    BY DEF TrackInv, Where, OpenCalls, Places
  <2>0. n \in Nat /\ frames'[h] = g /\ SameElsewhere(frames, frames', h)
    BY <1>1, <1>2, <1>4, OnTop DEF NestInv, n, SameElsewhere
  <2>1. /\ IsFiniteSet(OpenCalls(frames, t)) /\ IsFiniteSet(Where(resolving, t))
        /\ Cardinality(Where(resolving, t)) = Cardinality(OpenCalls(frames, t))
        /\ Cardinality(OpenCalls(frames, t)) \in Nat
    BY FS_CardinalityType DEF ContainerInv, TrackInv
  <2>2. resolving \in Seq(Types)
    BY <1>2 DEF NestInv
  <2>3. /\ IsFiniteSet(Where(resolving', t))
        /\ Cardinality(Where(resolving', t)) = Cardinality(Where(resolving, t)) - IF T = t THEN 1 ELSE 0
    BY <1>7, <2>1, <2>2, WhereRemoved
  <2>4. OpenCalls(frames', t) = OpenCalls(frames, t) \ {<<h, n>>}
    <3>1. Places(frames'[h], t) = Places(frames[h], t) \ {n}
      BY <1>4, <2>0
    <3> QED
      BY <2>0, <3>1, CallsShrink
  <2>5. /\ IsFiniteSet(OpenCalls(frames, t) \ {<<h, n>>})
        /\ Cardinality(OpenCalls(frames, t) \ {<<h, n>>}) =
             IF <<h, n>> \in OpenCalls(frames, t) THEN Cardinality(OpenCalls(frames, t)) - 1 ELSE Cardinality(OpenCalls(frames, t))
    BY <2>1, FS_RemoveElement
  <2> QED
    BY <1>6, <2>1, <2>3, <2>4, <2>5
<1>11. MadeInv'
  <2>1. \A t : Has(frames[h], t, "store") => Has(g, t, "store")
    BY <1>4
  <2>2. singletons \subseteq singletons' /\ UNCHANGED created
    BY <1>1
  <2> QED
    BY <1>2, <1>4, <2>1, <2>2, MadeKept DEF ContainerInv
<1> QED
  BY <1>9, <1>10, <1>11 DEF ContainerInv

\* While no singleton is stored, each of those constructed is one a thread is about
\* to store, and that thread is not the one that begins to construct.
LEMMA LookUpKeeps ==
    ASSUME ContainerAssumption, ContainerInv, NEW h \in Pool, LookUp(h)
    PROVE  ContainerInv'
<1> DEFINE T == Top(h).type  n == Len(frames[h])
           x == IF T \notin Bound THEN [Top(h) EXCEPT !.at = "remove", !.result = "missing"]
                ELSE IF T \in singletons THEN [Top(h) EXCEPT !.at = "remove", !.result = "ok"]
                ELSE [Top(h) EXCEPT !.at = "create", !.rest = Needs[T]]
<1>1. /\ UNCHANGED <<resolving, singletons, created, outcome>> /\ frames[h] # <<>>
      /\ Top(h).at = "look_up" /\ frames' = WithTop(h, x)
  BY DEF LookUp, At, Top
<1>2. /\ NestInv /\ Top(h) \in FrameStates /\ Top(h) = frames[h][n] /\ n \in 1 .. n
      /\ T \in Types
  BY <1>1, OnTop DEF ContainerInv, FrameStates
<1>3. /\ x \in FrameStates /\ x.type = T /\ x.at \in {"remove", "create"}
      /\ x.at = "create" => T \in Bound /\ T \notin singletons /\ x.rest = Needs[T]
  <2>1. T \in Bound => Needs[T] \in Seq(Types)
    BY DEF ContainerAssumption, Types
  <2>2. CASE T \notin Bound
    <3>1. x = [Top(h) EXCEPT !.at = "remove", !.result = "missing"]
      BY <2>2
    <3> QED
      BY <1>2, <3>1 DEF FrameStates
  <2>3. CASE T \in Bound /\ T \in singletons
    <3>1. x = [Top(h) EXCEPT !.at = "remove", !.result = "ok"]
      BY <2>3
    <3> QED
      BY <1>2, <3>1 DEF FrameStates
  <2>4. CASE T \in Bound /\ T \notin singletons
    <3>1. x = [Top(h) EXCEPT !.at = "create", !.rest = Needs[T]]
      BY <2>4
    <3>2. Needs[T] \in Seq(Types)
      BY <2>1, <2>4
    <3> QED
      BY <1>2, <2>4, <3>1, <3>2 DEF FrameStates
  <2> QED
    BY <2>2, <2>3, <2>4
<1>4. x.at = "create" => \A k \in 1 .. Len(x.rest) : Rank[x.rest[k]] < Rank[x.type]
  <2> SUFFICES ASSUME x.at = "create" PROVE \A k \in 1 .. Len(x.rest) : Rank[x.rest[k]] < Rank[x.type]
    OBVIOUS
  <2>1. T \in Bound /\ x.rest = Needs[T] /\ x.type = T
    BY <1>3
  <2>2. DOMAIN Needs[T] = 1 .. Len(Needs[T])
    BY <2>1 DEF ContainerAssumption
  <2> HIDE DEF x, T
  <2> QED
    BY <2>1, <2>2, Ranked
<1> HIDE DEF x
<1>5. PICK g :
         /\ frames' = [frames EXCEPT ![h] = g] /\ Nested(g)
         /\ \A t : Places(g, t) = IF x.type = t /\ x.at \notin {"check", "push"}
                                  THEN Places(frames[h], t) \cup {Len(frames[h])}
                                  ELSE Places(frames[h], t) \ {Len(frames[h])}
         /\ \A t : Has(g, t, "create") =>
                      Has(frames[h], t, "create") \/ (t = x.type /\ x.at = "create")
         /\ \A t : t # x.type => (Has(frames[h], t, "store") <=> Has(g, t, "store"))
         /\ \A stage : Has(g, x.type, stage) <=> x.at = stage
         /\ \A stage : Has(frames[h], x.type, stage) <=> Top(h).at = stage
  <2>1. x.at \in {"create", "store"} => x.type \in Bound
    BY <1>3
  <2> QED
    BY <1>1, <1>2, <1>3, <1>4, <2>1, TopMoves
<1>6. NestInv'
  <2>1. /\ singletons' \subseteq Bound /\ resolving' \in Seq(Types) /\ DOMAIN created' = Types
        /\ outcome' \in [Pool -> Results]
    BY <1>1, <1>2 DEF NestInv, Results
  <2> QED
    BY <1>2, <1>5, <2>1, NestKept
<1>7. \A t : Places(g, t) = Places(frames[h], t)
  <2>1. \A t : n \in Places(frames[h], t) <=> t = T
    BY <1>1, <1>2 DEF Places
  <2>2. x.at \notin {"check", "push"} /\ x.type = T
    BY <1>3
  <2>3. \A t : Places(g, t) = IF T = t THEN Places(frames[h], t) \cup {n}
                               ELSE Places(frames[h], t) \ {n}
    BY <1>5, <2>2
  <2> HIDE DEF T, n
  <2> QED
    BY <2>1, <2>3
<1>8. TrackInv'
  BY <1>1, <1>2, <1>5, <1>6, <1>7, TrackKept DEF ContainerInv
<1>9. CASE x.at # "create"
  <2>1. \A t : Has(frames[h], t, "store") => Has(g, t, "store")
    BY <1>1, <1>3, <1>5
  <2>2. \A t : Has(g, t, "create") => Has(frames[h], t, "create")
    BY <1>5, <1>9
  <2>3. singletons \subseteq singletons' /\ UNCHANGED created
    BY <1>1
  <2>4. MadeInv'
    BY <1>2, <1>5, <2>1, <2>2, <2>3, MadeKept DEF ContainerInv
  <2> QED
    BY <1>6, <1>8, <2>4 DEF ContainerInv
<1>10. CASE x.at = "create"
  <2>1. ASSUME NEW t \in Types
        PROVE  /\ created'[t] \in Nat
               /\ created'[t] + Cardinality(Makers(t, "create")') <= Cardinality(Pool)
               /\ t \notin singletons' => created'[t] <= Cardinality(Makers(t, "store")')
    <3>1. /\ created'[t] = created[t] /\ created[t] \in Nat /\ singletons' = singletons
          /\ created[t] + Cardinality(Makers(t, "create")) <= Cardinality(Pool)
          /\ t \notin singletons => created[t] <= Cardinality(Makers(t, "store"))
      BY <1>1 DEF ContainerInv, MadeInv
    <3>2. /\ Makers(t, "create")' = IF Has(g, t, "create") THEN Makers(t, "create") \cup {h}
                                                           ELSE Makers(t, "create") \ {h}
          /\ Makers(t, "store")' = IF Has(g, t, "store") THEN Makers(t, "store") \cup {h}
                                                         ELSE Makers(t, "store") \ {h}
      <4>1. \A u, stage : Makers(u, stage)' = IF Has(g, u, stage) THEN Makers(u, stage) \cup {h}
                                                               ELSE Makers(u, stage) \ {h}
        BY <1>2, <1>5, MakersAfter
      <4> QED
        BY <4>1
    <3>3. /\ Cardinality(Makers(t, "create")') \in Nat /\ Cardinality(Makers(t, "create")) \in Nat
          /\ Cardinality(Makers(t, "store")') \in Nat /\ Cardinality(Makers(t, "store")) \in Nat
          /\ Cardinality(Pool) \in Nat
          /\ IsFiniteSet(Makers(t, "create")) /\ IsFiniteSet(Makers(t, "store"))
          /\ IsFiniteSet(Makers(t, "create")')
      BY MakersAreFinite
    <3>4. Makers(t, "store")' = Makers(t, "store")
      <4>1. Has(g, t, "store") <=> Has(frames[h], t, "store")
        <5>1. CASE t = x.type
          BY <1>1, <1>5, <1>10, <5>1
        <5> QED
          BY <1>5, <5>1
      <4> QED
        BY <3>2, <4>1 DEF Makers
    <3>5. CASE t # T
      <4>1. Has(g, t, "create") => Has(frames[h], t, "create")
        BY <1>3, <1>5, <3>5
      <4>2. Makers(t, "create")' \subseteq Makers(t, "create")
        BY <3>2, <4>1 DEF Makers
      <4>3. Cardinality(Makers(t, "create")') <= Cardinality(Makers(t, "create"))
        BY <3>3, <4>2, FS_Subset
      <4> QED
        BY <3>1, <3>3, <3>4, <4>3
    <3>6. CASE t = T
      <4>1. t \notin singletons /\ created[t] <= Cardinality(Makers(t, "store"))
        BY <1>3, <1>10, <3>1, <3>6
      <4>2. Makers(t, "create")' \cap Makers(t, "store")' = {}
        <5>1. ASSUME NEW y \in Pool, Has(frames'[y], t, "create"), Has(frames'[y], t, "store")
              PROVE  FALSE
          <6>1. Nested(frames'[y])
            BY <1>6 DEF NestInv, Nested
          <6>2. PICK i \in 1 .. Len(frames'[y]) : frames'[y][i].type = t /\ frames'[y][i].at = "create"
            BY <5>1 DEF Has
          <6>3. PICK j \in 1 .. Len(frames'[y]) : frames'[y][j].type = t /\ frames'[y][j].at = "store"
            BY <5>1 DEF Has
          <6>4. i \in Nat /\ j \in Nat /\ i # j
            BY <6>1, <6>2, <6>3 DEF Nested
          <6>5. Rank[t] \in Nat
            BY Ranked
          <6> QED
            BY <6>1, <6>2, <6>3, <6>4, <6>5 DEF Nested
        <5> QED
          BY <5>1 DEF Makers, Has
      <4>3. /\ Cardinality(Makers(t, "create")' \cup Makers(t, "store")') =
                 Cardinality(Makers(t, "create")') + Cardinality(Makers(t, "store")')
        <5> DEFINE A == Makers(t, "create")'  B == Makers(t, "store")'
        <5>1. /\ IsFiniteSet(A) /\ IsFiniteSet(B) /\ A \cap B = {}
              /\ Cardinality(A) \in Nat /\ Cardinality(B) \in Nat
          BY <3>3, <3>4, <4>2
        <5> HIDE DEF A, B
        <5>2. Cardinality(A \cup B) = Cardinality(A) + Cardinality(B) - Cardinality(A \cap B)
          BY <5>1, FS_Union
        <5>3. Cardinality(A \cap B) = 0
          BY <5>1, FS_EmptySet
        <5>4. Cardinality(A \cup B) = Cardinality(A) + Cardinality(B)
          BY <5>1, <5>2, <5>3
        <5> QED
          BY <5>4 DEF A, B
      <4>4. Cardinality(Makers(t, "create")' \cup Makers(t, "store")') <= Cardinality(Pool)
        <5>1. Makers(t, "create")' \cup Makers(t, "store")' \in SUBSET Pool
          BY DEF Makers
        <5> QED
          BY <5>1, FS_Subset DEF ContainerAssumption
      <4> QED
        BY <3>1, <3>3, <3>4, <4>1, <4>3, <4>4
    <3> QED
      BY <3>5, <3>6
  <2>2. MadeInv'
    BY <2>1 DEF MadeInv
  <2> QED
    BY <1>6, <1>8, <2>2 DEF ContainerInv
<1> QED
  BY <1>9, <1>10

\* Who has constructed is about to store.
LEMMA ConstructKeeps ==
    ASSUME ContainerAssumption, ContainerInv, NEW h \in Pool, Construct(h)
    PROVE  ContainerInv'
<1> DEFINE T == Top(h).type  n == Len(frames[h])  x == [Top(h) EXCEPT !.at = "store"]
<1>1. /\ UNCHANGED <<resolving, singletons, outcome>> /\ frames[h] # <<>>
      /\ Top(h).at = "create" /\ frames' = WithTop(h, x)
      /\ created' = [created EXCEPT ![T] = @ + 1]
  BY DEF Construct, At, Top
<1>2. /\ NestInv /\ Top(h) \in FrameStates /\ Top(h) = frames[h][n] /\ n \in 1 .. n
      /\ T \in Bound /\ T \in Types
  <2>1. /\ NestInv /\ Top(h) \in FrameStates /\ Top(h) = frames[h][n] /\ Nested(frames[h])
        /\ n \in 1 .. n
    BY <1>1, OnTop DEF ContainerInv
  <2>2. T \in Bound
    BY <1>1, <2>1 DEF Nested
  <2> QED
    BY <2>1, <2>2 DEF FrameStates
<1>3. x \in FrameStates /\ x.type = T /\ x.at = "store"
  BY <1>2 DEF FrameStates
<1> HIDE DEF x
<1>5. PICK g :
         /\ frames' = [frames EXCEPT ![h] = g] /\ Nested(g)
         /\ \A t : Places(g, t) = IF x.type = t /\ x.at \notin {"check", "push"}
                                  THEN Places(frames[h], t) \cup {Len(frames[h])}
                                  ELSE Places(frames[h], t) \ {Len(frames[h])}
         /\ \A t : Has(g, t, "create") =>
                      Has(frames[h], t, "create") \/ (t = x.type /\ x.at = "create")
         /\ \A t : t # x.type => (Has(frames[h], t, "store") <=> Has(g, t, "store"))
         /\ \A stage : Has(g, x.type, stage) <=> x.at = stage
         /\ \A stage : Has(frames[h], x.type, stage) <=> Top(h).at = stage
  <2>1. x.at # "create" /\ (x.at \in {"create", "store"} => x.type \in Bound)
    BY <1>2, <1>3
  <2> QED
    BY <1>1, <1>2, <1>3, <2>1, TopMoves
<1>6. NestInv'
  <2>1. /\ singletons' \subseteq Bound /\ resolving' \in Seq(Types) /\ DOMAIN created' = Types
        /\ outcome' \in [Pool -> Results]
    BY <1>1, <1>2 DEF NestInv, Results
  <2> QED
    BY <1>2, <1>5, <2>1, NestKept
<1>7. \A t : Places(g, t) = Places(frames[h], t)
  <2>1. \A t : n \in Places(frames[h], t) <=> t = T
    BY <1>1, <1>2 DEF Places
  <2>2. x.at \notin {"check", "push"} /\ x.type = T
    BY <1>3
  <2>3. \A t : Places(g, t) = IF T = t THEN Places(frames[h], t) \cup {n}
                               ELSE Places(frames[h], t) \ {n}
    BY <1>5, <2>2
  <2> HIDE DEF T, n
  <2> QED
    BY <2>1, <2>3
<1>8. TrackInv'
  BY <1>1, <1>2, <1>5, <1>6, <1>7, TrackKept DEF ContainerInv
<1>9. ASSUME NEW t \in Types
      PROVE  /\ created'[t] \in Nat
             /\ created'[t] + Cardinality(Makers(t, "create")') <= Cardinality(Pool)
             /\ t \notin singletons' => created'[t] <= Cardinality(Makers(t, "store")')
  <2>1. /\ created'[t] = (IF t = T THEN created[t] + 1 ELSE created[t])
        /\ created[t] \in Nat /\ singletons' = singletons
        /\ created[t] + Cardinality(Makers(t, "create")) <= Cardinality(Pool)
        /\ t \notin singletons => created[t] <= Cardinality(Makers(t, "store"))
    <3>1. DOMAIN created = Types
      BY <1>2 DEF NestInv
    <3> QED
      BY <1>1, <3>1 DEF ContainerInv, MadeInv
  <2>2. /\ Makers(t, "create")' = IF Has(g, t, "create") THEN Makers(t, "create") \cup {h}
                                                         ELSE Makers(t, "create") \ {h}
        /\ Makers(t, "store")' = IF Has(g, t, "store") THEN Makers(t, "store") \cup {h}
                                                       ELSE Makers(t, "store") \ {h}
    <3>1. \A u, stage : Makers(u, stage)' = IF Has(g, u, stage) THEN Makers(u, stage) \cup {h}
                                                             ELSE Makers(u, stage) \ {h}
      BY <1>2, <1>5, MakersAfter
    <3> QED
      BY <3>1
  <2>3. /\ Cardinality(Makers(t, "create")') \in Nat /\ Cardinality(Makers(t, "create")) \in Nat
        /\ Cardinality(Makers(t, "store")') \in Nat /\ Cardinality(Makers(t, "store")) \in Nat
        /\ Cardinality(Pool) \in Nat
        /\ IsFiniteSet(Makers(t, "create")) /\ IsFiniteSet(Makers(t, "store"))
    BY MakersAreFinite
  <2>4. CASE t = T
    <3>1. ~ Has(g, t, "create") /\ Has(g, t, "store")
      BY <1>3, <1>5, <2>4
    <3>2. h \in Makers(t, "create") /\ h \notin Makers(t, "store")
      BY <1>1, <1>3, <1>5, <2>4 DEF Makers
    <3>3. /\ Makers(t, "create")' = Makers(t, "create") \ {h}
          /\ Makers(t, "store")' = Makers(t, "store") \cup {h}
      BY <2>2, <3>1
    <3>4. Cardinality(Makers(t, "create")') = Cardinality(Makers(t, "create")) - 1
      BY <2>3, <3>2, <3>3, FS_RemoveElement
    <3>5. Cardinality(Makers(t, "store")') = Cardinality(Makers(t, "store")) + 1
      BY <2>3, <3>2, <3>3, FS_AddElement
    <3> QED
      BY <2>1, <2>3, <2>4, <3>4, <3>5
  <2>5. CASE t # T
    <3>1. /\ Has(g, t, "create") => Has(frames[h], t, "create")
          /\ Has(g, t, "store") <=> Has(frames[h], t, "store")
      BY <1>3, <1>5, <2>5
    <3>2. /\ Makers(t, "create")' \subseteq Makers(t, "create")
          /\ Makers(t, "store")' = Makers(t, "store")
      BY <2>2, <3>1 DEF Makers
    <3>3. Cardinality(Makers(t, "create")') <= Cardinality(Makers(t, "create"))
      BY <2>3, <3>2, FS_Subset
    <3> QED
      BY <2>1, <2>3, <2>5, <3>2, <3>3
  <2> QED
    BY <2>4, <2>5
<1>10. MadeInv'
  BY <1>9 DEF MadeInv
<1> QED
  BY <1>6, <1>8, <1>10 DEF ContainerInv

\* A parameter's call goes on top of the one that waits for it.
LEMMA TwoAppended ==
    ASSUME NEW S, NEW s \in Seq(S), NEW a \in S, NEW b \in S
    PROVE  s \o <<a, b>> = Append(Append(s, a), b)
<1> DEFINE u == s \o <<a, b>>  v == Append(Append(s, a), b)
<1>1. Len(s) \in Nat /\ <<a, b>> \in Seq(S) /\ Len(<<a, b>>) = 2
  OBVIOUS
<1>2. /\ u \in Seq(S) /\ Len(u) = Len(s) + 2
      /\ \A i \in 1 .. Len(s) + 2 : u[i] = IF i <= Len(s) THEN s[i] ELSE <<a, b>>[i - Len(s)]
  BY <1>1, ConcatProperties
<1>3. /\ Append(s, a) \in Seq(S) /\ Len(Append(s, a)) = Len(s) + 1
      /\ \A i \in 1 .. Len(s) + 1 : Append(s, a)[i] = IF i = Len(s) + 1 THEN a ELSE s[i]
  BY <1>1
<1>4. /\ v \in Seq(S) /\ Len(v) = Len(s) + 2
      /\ \A i \in 1 .. Len(s) + 2 : v[i] = IF i = Len(s) + 2 THEN b ELSE Append(s, a)[i]
  BY <1>1, <1>3
<1>5. <<a, b>>[1] = a /\ <<a, b>>[2] = b
  OBVIOUS
<1> HIDE DEF u, v
<1>6. ASSUME NEW i \in 1 .. Len(s) + 2 PROVE u[i] = v[i]
  <2>1. CASE i <= Len(s)
    BY <1>1, <1>2, <1>3, <1>4, <2>1
  <2>2. CASE i = Len(s) + 1
    BY <1>1, <1>2, <1>3, <1>4, <1>5, <2>2
  <2>3. CASE i = Len(s) + 2
    BY <1>1, <1>2, <1>3, <1>4, <1>5, <2>3
  <2> QED
    BY <1>1, <2>1, <2>2, <2>3
<1>7. u = v
  BY <1>2, <1>4, <1>6
<1> QED
  BY <1>7 DEF u, v

\* A parameter is of a lower layer than every type whose constructor waits.
LEMMA ResolveNeedKeeps ==
    ASSUME ContainerAssumption, ContainerInv, NEW h \in Pool, ResolveNeed(h)
    PROVE  ContainerInv'
<1> DEFINE F == frames[h]  n == Len(F)  T == Head(Top(h).rest)  y == Frame(T)
           x == [Top(h) EXCEPT !.rest = Tail(@)]  w == Append(Front(F), x)  g == Append(w, y)
<1>1. /\ UNCHANGED <<resolving, singletons, created, outcome>> /\ F # <<>>
      /\ Top(h).at = "create" /\ Top(h).rest # <<>>
      /\ frames' = [frames EXCEPT ![h] = Front(F) \o <<x, y>>]
  BY DEF ResolveNeed, At, Top
<1>2. /\ NestInv /\ Top(h) \in FrameStates /\ Top(h) = F[n] /\ Top(h) = Last(F)
      /\ n \in Nat /\ n >= 1 /\ n \in 1 .. n /\ F \in Seq(FrameStates) /\ Nested(F)
  BY <1>1, OnTop DEF ContainerInv
<1>3. /\ Top(h).rest \in Seq(Types) /\ Top(h).type \in Bound
      /\ \A k \in 1 .. Len(Top(h).rest) : Rank[Top(h).rest[k]] < Rank[Top(h).type]
  <2>1. Top(h).rest \in Seq(Types)
    BY <1>2 DEF FrameStates
  <2> QED
    BY <1>1, <1>2, <2>1 DEF Nested
<1>4. /\ T \in Types /\ Rank[T] < Rank[Top(h).type] /\ Tail(Top(h).rest) \in Seq(Types)
      /\ \A k \in 1 .. Len(Tail(Top(h).rest)) :
           Rank[Tail(Top(h).rest)[k]] < Rank[Top(h).type]
  <2> DEFINE s == Top(h).rest
  <2>1. s \in Seq(Types) /\ s # <<>> /\ \A k \in 1 .. Len(s) : Rank[s[k]] < Rank[Top(h).type]
    BY <1>1, <1>3
  <2> HIDE DEF s
  <2>2. /\ Head(s) = s[1] /\ Len(s) \in Nat /\ Len(s) >= 1 /\ s[1] \in Types
        /\ Tail(s) \in Seq(Types) /\ Len(Tail(s)) = Len(s) - 1
        /\ \A k \in 1 .. Len(s) - 1 : Tail(s)[k] = s[k + 1]
    BY <2>1
  <2>3. Head(s) \in Types /\ Rank[Head(s)] < Rank[Top(h).type]
    BY <2>1, <2>2
  <2>4. \A k \in 1 .. Len(Tail(s)) : Rank[Tail(s)[k]] < Rank[Top(h).type]
    <3>1. \A k \in 1 .. Len(s) - 1 : k + 1 \in 1 .. Len(s)
      BY <2>2
    <3> QED
      BY <2>1, <2>2, <3>1
  <2> QED
    BY <2>2, <2>3, <2>4 DEF s
<1>5. /\ x \in FrameStates /\ x.type = Top(h).type /\ x.at = "create"
      /\ x.rest = Tail(Top(h).rest)
  BY <1>1, <1>2, <1>4 DEF FrameStates
<1>6. y \in FrameStates /\ y.at = "check"
  BY <1>4 DEF Frame, FrameStates
<1>7. /\ w \in Seq(FrameStates) /\ Len(w) = n
      /\ \A i \in 1 .. n : w[i] = IF i = n THEN x ELSE F[i]
  BY <1>1, <1>2, <1>5, TopReplaced
<1>8. frames' = [frames EXCEPT ![h] = g]
  <2>1. Front(F) \in Seq(FrameStates)
    BY <1>1, <1>2, TopRemoved
  <2>2. Front(F) \o <<x, y>> = Append(Append(Front(F), x), y)
    <3> HIDE DEF x, y, F
    <3> QED
      BY <1>5, <1>6, <2>1, TwoAppended
  <2> QED
    BY <1>1, <2>2
<1> HIDE DEF F, n, x, w, T
<1>9. Nested(w)
  BY <1>1, <1>2, <1>3, <1>4, <1>5, ReplaceNested DEF w
<1>10. Nested(g)
  <2>1. w # <<>> /\ Last(w) = x
    BY <1>2, <1>7 DEF Last
  <2> QED
    BY <1>4, <1>5, <1>9, <2>1, PushNested
<1> HIDE DEF y
<1>11. Len(g) = n + 1 /\ \A i \in 1 .. n + 1 : g[i] = IF i = n + 1 THEN y ELSE w[i]
  BY <1>2, <1>6, <1>7
<1> HIDE DEF g
<1>12. /\ \A i \in 1 .. n : g[i].type = F[i].type /\ g[i].at = F[i].at
       /\ g[n + 1].at = "check" /\ Len(F) = n
  <2>1. \A i \in 1 .. n : i \in 1 .. n + 1 /\ i # n + 1 /\ g[i] = w[i]
    BY <1>2, <1>11
  <2>2. \A i \in 1 .. n : w[i].type = F[i].type /\ w[i].at = F[i].at
    BY <1>1, <1>2, <1>5, <1>7
  <2>3. n + 1 \in 1 .. n + 1 /\ g[n + 1] = y
    BY <1>2, <1>11
  <2>4. Len(F) = n
    BY DEF n
  <2> QED
    BY <1>6, <2>1, <2>2, <2>3, <2>4
<1>13. NestInv'
  <2>1. /\ singletons' \subseteq Bound /\ resolving' \in Seq(Types) /\ DOMAIN created' = Types
        /\ outcome' \in [Pool -> Results]
    BY <1>1, <1>2 DEF NestInv, Results
  <2> QED
    BY <1>2, <1>8, <1>10, <2>1, NestKept
<1>14. \A i : i \in 1 .. n + 1 <=> i \in 1 .. n \/ i = n + 1
  BY <1>2
<1>15. \A t : Places(g, t) = Places(frames[h], t)
  <2>1. \A t : Places(g, t) = Places(F, t)
    BY <1>11, <1>12, <1>14 DEF Places
  <2> QED
    BY <2>1 DEF F
<1>16. \A t, stage : stage \in {"create", "store"} => (Has(g, t, stage) <=> Has(frames[h], t, stage))
  <2>1. \A t, stage : stage \in {"create", "store"} => (Has(g, t, stage) <=> Has(F, t, stage))
    BY <1>11, <1>12, <1>14 DEF Has
  <2> QED
    BY <2>1 DEF F
<1>17. TrackInv'
  BY <1>1, <1>2, <1>8, <1>13, <1>15, TrackKept DEF ContainerInv
<1>18. MadeInv'
  <2>1. /\ \A t : Has(g, t, "create") => Has(frames[h], t, "create")
        /\ \A t : Has(frames[h], t, "store") => Has(g, t, "store")
    BY <1>16
  <2>2. singletons \subseteq singletons' /\ UNCHANGED created
    BY <1>1
  <2> QED
    BY <1>2, <1>8, <2>1, <2>2, MadeKept DEF ContainerInv
<1> QED
  BY <1>13, <1>17, <1>18 DEF ContainerInv

\* Its own waiting calls are for other types: who finds the type on the stack finds
\* another thread's call.
LEMMA StackTellsTheCalls ==
    ASSUME ContainerAssumption, ContainerInv PROVE ResolutionsKeepTrack
<1>1. NestInv /\ \A t : UNION {CallsFor(h, t) : h \in Pool} = OpenCalls(frames, t)
  BY CallsAre DEF ContainerInv
<1>2. ASSUME NEW t \in Types
      PROVE  /\ Occurrences(t) = Cardinality(UNION {CallsFor(h, t) : h \in Pool})
             /\ created[t] <= Cardinality(Pool)
  <2>0. UNION {CallsFor(h, t) : h \in Pool} = OpenCalls(frames, t)
    BY <1>1, CallsAre
  <2>1. Occurrences(t) = Cardinality(OpenCalls(frames, t))
    BY DEF ContainerInv, TrackInv, Occurrences, Where
  <2>2. /\ created[t] + Cardinality(Makers(t, "create")) <= Cardinality(Pool) /\ created[t] \in Nat
        /\ Cardinality(Makers(t, "create")) \in Nat /\ Cardinality(Pool) \in Nat
    BY MakersAreFinite DEF ContainerInv, MadeInv
  <2>3. created[t] <= Cardinality(Pool)
    BY <2>2
  <2> QED
    BY <2>0, <2>1, <2>3
<1>3. ASSUME NEW h \in Pool, At(h, "check"), Contains(resolving, Top(h).type)
      PROVE  \E other \in Pool \ {h} : CallsFor(other, Top(h).type) # {}
  <2> DEFINE T == Top(h).type  n == Len(frames[h])
  <2>1. /\ frames[h] # <<>> /\ Top(h) = frames[h][n] /\ Top(h) \in FrameStates /\ n \in 1 .. n
        /\ n \in Nat /\ Top(h).at = "check" /\ T \in Types
    BY <1>1, <1>3, OnTop DEF At, Top, FrameStates
  <2>2. Where(resolving, T) # {}
    <3>1. resolving \in Seq(Types)
      BY <1>1 DEF NestInv
    <3> QED
      BY <1>3, <3>1 DEF Contains, Where
  <2>3. OpenCalls(frames, T) # {}
    <3>1. /\ IsFiniteSet(Where(resolving, T)) /\ IsFiniteSet(OpenCalls(frames, T))
          /\ Cardinality(Where(resolving, T)) = Cardinality(OpenCalls(frames, T))
      BY <2>1 DEF ContainerInv, TrackInv
    <3> QED
      BY <2>2, <3>1, FS_EmptySet
  <2>4. Places(frames[h], T) = {}
    <3>1. \A i \in 1 .. n - 1 : frames[h][i].type # T
      BY <1>1, <2>1, Waiting
    <3>2. \A i \in 1 .. n : i = n \/ i \in 1 .. n - 1
      BY <2>1
    <3> QED
      BY <2>1, <3>1, <3>2 DEF Places
  <2>5. PICK p \in Pool \X Nat : p[2] \in Places(frames[p[1]], T)
    BY <2>3 DEF OpenCalls
  <2>6. p[1] \in Pool \ {h}
    BY <2>4, <2>5
  <2>7. <<p[1], p[2]>> \in CallsFor(p[1], T)
    <3>1. DOMAIN frames[p[1]] = 1 .. Len(frames[p[1]])
      BY <1>1, <2>5 DEF NestInv, Nested
    <3> QED
      BY <2>5, <3>1 DEF CallsFor, Places
  <2> QED
    BY <2>6, <2>7
<1> QED
  BY <1>2, <1>3 DEF ResolutionsKeepTrack

\* However resolutions interleave, fail or are refused, the stack has a type
\* once for every call resolving it, a request is refused only for what another
\* thread resolves, and every thread constructs a type at most once.
THEOREM ResolutionsAreTracked ==
    ASSUME ContainerAssumption PROVE ContainerSpec => [](ContainerTypeOK /\ ResolutionsKeepTrack)
<1>1. ContainerInit => ContainerInv
  BY ContainerStarts
<1>2. ContainerInv /\ [ContainerNext]_containerVars => ContainerInv'
  <2> SUFFICES ASSUME ContainerInv, [ContainerNext]_containerVars PROVE ContainerInv'
    OBVIOUS
  <2>1. CASE UNCHANGED containerVars
    <3>1. /\ UNCHANGED <<frames, resolving, created, singletons, outcome>>
      BY <2>1 DEF containerVars
    <3>2. NestInv'
      BY <3>1 DEF ContainerInv, NestInv, Nested
    <3>3. TrackInv'
      BY <3>1 DEF ContainerInv, TrackInv
    <3>4. MadeInv'
      BY <3>1 DEF ContainerInv, MadeInv, Makers, Has
    <3> QED
      BY <3>2, <3>3, <3>4 DEF ContainerInv
  <2>2. ASSUME NEW h \in Pool,
               \/ \E t \in Services : Resolve(h, t)
               \/ CheckCycle(h) \/ Push(h) \/ LookUp(h) \/ ResolveNeed(h)
               \/ Construct(h) \/ Store(h) \/ RemoveType(h)
        PROVE  ContainerInv'
    BY <2>2, ResolveKeeps, CheckKeeps, PushKeeps, LookUpKeeps, ResolveNeedKeeps, ConstructKeeps,
       StoreKeeps, RemoveKeeps
  <2> QED
    BY <2>1, <2>2 DEF ContainerNext
<1>3. ContainerInv => ResolutionsKeepTrack
  BY StackTellsTheCalls
<1>4. ContainerInv => ContainerTypeOK
  <2> SUFFICES ASSUME ContainerInv PROVE ContainerTypeOK
    OBVIOUS
  <2>1. ASSUME NEW h \in Pool, NEW i \in DOMAIN frames[h]
        PROVE  frames[h][i].at \in {"check", "push", "look_up", "create", "store", "remove"}
    <3>1. frames[h] \in Seq(FrameStates)
      BY DEF ContainerInv, NestInv, Nested
    <3>2. frames[h][i] \in FrameStates
      BY <3>1
    <3> QED
      BY <3>2 DEF FrameStates
  <2>2. /\ resolving \in Seq(Types) /\ singletons \subseteq Bound
        /\ outcome \in [Pool -> {"none", "ok", "missing", "cycle"}]
        /\ \A t \in Types : created[t] \in Nat
    BY DEF ContainerInv, NestInv, MadeInv
  <2> QED
    BY <2>1, <2>2 DEF ContainerTypeOK
<1> QED
  BY <1>1, <1>2, <1>3, <1>4, PTL DEF ContainerSpec

-----------------------------------------------------------------------------
(* The batch collection                                                    *)

\* The recursive definition of what gather's outcomes add up to, for any
\* start and outcomes.
AddsNext(a, outs, f, n) ==
    IF n = 0 THEN a ELSE IF n \in DOMAIN outs THEN Plus(f[n - 1], outs[n]) ELSE f[n - 1]
AddsUp(a, outs, f) == f = [n \in Nat |-> AddsNext(a, outs, f, n)]
UpTo(a, outs) == CHOOSE f : AddsUp(a, outs, f)

\* The report is this sum.
LEMMA ReportIsUpTo == ReportUpTo = UpTo(report, results)
BY DEF ReportUpTo, UpTo, AddsUp, AddsNext

\* There is one such function: it exists up to every number, and what it is
\* there does not depend on how far it goes.
AddsTo(a, outs, n, f) == f = [m \in 0 .. n |-> AddsNext(a, outs, f, m)]

LEMMA AddsToOnce ==
    ASSUME NEW a, NEW outs, NEW i \in Nat, NEW j \in Nat, NEW f, NEW g,
           AddsTo(a, outs, i, f), AddsTo(a, outs, j, g), NEW k \in Nat, k <= i, k <= j
    PROVE  f[k] = g[k]
<1> DEFINE B == {n \in 0 .. k : f[n] # g[n]}
<1>1. CASE B # {}
  <2>1. B \in SUBSET Nat
    OBVIOUS
  <2>2. PICK n \in B : \A m \in B : n <= m
    <3> HIDE DEF B
    <3> QED
      BY <1>1, <2>1, LeastNumber
  <2>3. n \in 0 .. i /\ n \in 0 .. j /\ n \in 0 .. k /\ n \in Nat /\ f[n] # g[n]
    OBVIOUS
  <2>4. f[n] = AddsNext(a, outs, f, n) /\ g[n] = AddsNext(a, outs, g, n)
    BY <2>3 DEF AddsTo
  <2>5. CASE n = 0
    BY <2>3, <2>4, <2>5 DEF AddsNext
  <2>6. CASE n # 0
    <3>1. n - 1 \in 0 .. k /\ ~ (n <= n - 1)
      BY <2>3, <2>6
    <3>2. f[n - 1] = g[n - 1]
      BY <2>2, <3>1
    <3> QED
      BY <2>3, <2>4, <2>6, <3>2 DEF AddsNext
  <2> QED
    BY <2>5, <2>6
<1>2. CASE B = {}
  <2>1. k \in 0 .. k
    OBVIOUS
  <2> QED
    BY <1>2, <2>1
<1> QED
  BY <1>1, <1>2

LEMMA AddsToExists ==
    ASSUME NEW a, NEW outs, NEW k \in Nat
    PROVE  \E f : AddsTo(a, outs, k, f)
<1> DEFINE B == {n \in Nat : ~ \E f : AddsTo(a, outs, n, f)}
<1>1. CASE B # {}
  <2>2. PICK n \in B : \A m \in B : n <= m
    <3>1. B \in SUBSET Nat
      OBVIOUS
    <3> HIDE DEF B
    <3> QED
      BY <1>1, <3>1, LeastNumber
  <2>3. n \in Nat /\ ~ \E f : AddsTo(a, outs, n, f)
    OBVIOUS
  <2>4. CASE n = 0
    <3> DEFINE f == [m \in 0 .. 0 |-> a]
    <3>1. f = [m \in 0 .. 0 |-> AddsNext(a, outs, f, m)]
      <4>1. \A m \in 0 .. 0 : AddsNext(a, outs, f, m) = a
        BY DEF AddsNext
      <4> HIDE DEF f
      <4>2. f = [m \in 0 .. 0 |-> a]
        BY DEF f
      <4> QED
        BY <4>1, <4>2
    <3> QED
      BY <2>3, <2>4, <3>1 DEF AddsTo
  <2>5. CASE n # 0
    <3>1. n - 1 \in Nat /\ ~ (n <= n - 1)
      BY <2>3, <2>5
    <3>2. PICK f : AddsTo(a, outs, n - 1, f)
      BY <2>2, <3>1
    <3> DEFINE g == [m \in 0 .. n |-> IF m = n THEN AddsNext(a, outs, f, n) ELSE f[m]]
    <3>3. ASSUME NEW m \in 0 .. n PROVE g[m] = AddsNext(a, outs, g, m)
      <4>1. m # 0 => m - 1 \in 0 .. n - 1 /\ m - 1 # n /\ m - 1 \in 0 .. n
        BY <2>3
      <4>2. m # 0 => g[m - 1] = f[m - 1]
        BY <4>1
      <4>3. AddsNext(a, outs, g, m) = AddsNext(a, outs, f, m)
        BY <4>2 DEF AddsNext
      <4>4. m # n => m \in 0 .. n - 1
        BY <2>3
      <4>5. m # n => f[m] = AddsNext(a, outs, f, m)
        BY <3>2, <4>4 DEF AddsTo
      <4>6. g[m] = IF m = n THEN AddsNext(a, outs, f, n) ELSE f[m]
        OBVIOUS
      <4> HIDE DEF g
      <4> QED
        BY <4>3, <4>5, <4>6
    <3>4. g = [m \in 0 .. n |-> g[m]]
      OBVIOUS
    <3> HIDE DEF g
    <3>5. g = [m \in 0 .. n |-> AddsNext(a, outs, g, m)]
      BY <3>3, <3>4
    <3> QED
      BY <2>3, <3>5 DEF AddsTo
  <2> QED
    BY <2>4, <2>5
<1>2. CASE B = {}
  BY <1>2
<1> QED
  BY <1>1, <1>2

\* The sum is therefore what its definition says.
LEMMA UpToUnfolds ==
    ASSUME NEW a, NEW outs
    PROVE  \A n \in Nat : UpTo(a, outs)[n] = AddsNext(a, outs, UpTo(a, outs), n)
<1> DEFINE part(n) == CHOOSE f : AddsTo(a, outs, n, f)
           whole == [n \in Nat |-> part(n)[n]]
<1>1. ASSUME NEW n \in Nat PROVE AddsTo(a, outs, n, part(n))
  BY AddsToExists
<1>2. ASSUME NEW n \in Nat PROVE whole[n] = AddsNext(a, outs, whole, n)
  <2>1. part(n)[n] = AddsNext(a, outs, part(n), n)
    <3>1. n \in 0 .. n
      OBVIOUS
    <3> HIDE DEF part
    <3> QED
      BY <1>1, <3>1 DEF AddsTo
  <2>2. n # 0 => n - 1 \in Nat /\ n - 1 <= n /\ n - 1 <= n - 1
    OBVIOUS
  <2> HIDE DEF part
  <2>3. n # 0 => part(n)[n - 1] = part(n - 1)[n - 1]
    BY <1>1, <2>2, AddsToOnce
  <2>4. n # 0 => whole[n - 1] = part(n - 1)[n - 1]
    BY <2>2
  <2>5. whole[n] = part(n)[n]
    OBVIOUS
  <2> HIDE DEF whole
  <2> QED
    BY <2>1, <2>3, <2>4, <2>5 DEF AddsNext
<1>3. AddsUp(a, outs, whole)
  <2>1. whole = [n \in Nat |-> whole[n]]
    OBVIOUS
  <2> HIDE DEF whole
  <2> QED
    BY <1>2, <2>1 DEF AddsUp
<1>4. AddsUp(a, outs, UpTo(a, outs))
  BY <1>3 DEF UpTo
<1> QED
  BY <1>4 DEF AddsUp

Reports == [processed : Nat, new : Nat, errors : Nat]

\* What is added up are reports.
LEMMA UpToTyped ==
    ASSUME NEW a \in Reports, NEW outs, \A q \in DOMAIN outs : outs[q] \in Reports, NEW k \in Nat
    PROVE  UpTo(a, outs)[k] \in Reports
<1> DEFINE f == UpTo(a, outs)
           B == {n \in Nat : f[n] \notin Reports}
<1> HIDE DEF f
<1>1. \A n \in Nat : f[n] = AddsNext(a, outs, f, n)
  BY UpToUnfolds DEF f
<1>2. \A r, s \in Reports : Plus(r, s) \in Reports
  BY DEF Plus, Reports
<1>3. CASE B # {}
  <2>1. PICK n \in B : \A m \in B : n <= m
    <3>1. B \in SUBSET Nat
      OBVIOUS
    <3> HIDE DEF B
    <3> QED
      BY <1>3, <3>1, LeastNumber
  <2>2. n \in Nat /\ f[n] \notin Reports
    OBVIOUS
  <2>3. n # 0 => n - 1 \in Nat /\ ~ (n <= n - 1)
    BY <2>2
  <2>4. n # 0 => f[n - 1] \in Reports
    BY <2>1, <2>3
  <2>5. f[n] = IF n = 0 THEN a ELSE IF n \in DOMAIN outs THEN Plus(f[n - 1], outs[n]) ELSE f[n - 1]
    BY <1>1, <2>2 DEF AddsNext
  <2>6. n \in DOMAIN outs => outs[n] \in Reports
    OBVIOUS
  <2>7. n # 0 /\ n \in DOMAIN outs => Plus(f[n - 1], outs[n]) \in Reports
    BY <1>2, <2>4, <2>6
  <2> QED
    BY <2>2, <2>4, <2>5, <2>7
<1>4. CASE B = {}
  BY <1>4 DEF f
<1> QED
  BY <1>3, <1>4

\* Where no gained is there is nothing to add.
LEMMA UpToStays ==
    ASSUME NEW a, NEW outs, NEW low \in Nat, NEW high \in Nat, low <= high,
           \A n \in low + 1 .. high : n \notin DOMAIN outs
    PROVE  UpTo(a, outs)[high] = UpTo(a, outs)[low]
<1> DEFINE f == UpTo(a, outs)
           B == {n \in Nat : n >= low /\ n <= high /\ f[n] # f[low]}
<1> HIDE DEF f
<1>1. \A n \in Nat : f[n] = AddsNext(a, outs, f, n)
  BY UpToUnfolds DEF f
<1>2. CASE B # {}
  <2>1. PICK n \in B : \A m \in B : n <= m
    <3>1. B \in SUBSET Nat
      OBVIOUS
    <3> HIDE DEF B
    <3> QED
      BY <1>2, <3>1, LeastNumber
  <2>2. n \in Nat /\ n >= low /\ n <= high /\ f[n] # f[low]
    OBVIOUS
  <2>3. n # low
    BY <2>2
  <2>4. n - 1 \in Nat /\ n - 1 >= low /\ n - 1 <= high /\ ~ (n <= n - 1) /\ n # 0 /\ n \in low + 1 .. high
    BY <2>2, <2>3
  <2>5. f[n - 1] = f[low]
    BY <2>1, <2>4
  <2>6. f[n] = f[n - 1]
    BY <1>1, <2>2, <2>4 DEF AddsNext
  <2> QED
    BY <2>2, <2>5, <2>6
<1>3. CASE B = {}
  BY <1>3 DEF f
<1> QED
  BY <1>2, <1>3

\* An gained counts from its page on.
LEMMA UpToCounts ==
    ASSUME NEW a \in Reports, NEW outs, \A q \in DOMAIN outs : outs[q] \in Reports,
           NEW p \in Nat \ {0}, p \notin DOMAIN outs, NEW gained \in Reports, NEW k \in Nat
    PROVE  LET more == [q \in DOMAIN outs \cup {p} |-> IF q = p THEN gained ELSE outs[q]]
           IN  UpTo(a, more)[k].new = UpTo(a, outs)[k].new + (IF k < p THEN 0 ELSE gained.new)
<1> DEFINE more == [q \in DOMAIN outs \cup {p} |-> IF q = p THEN gained ELSE outs[q]]
           f == UpTo(a, outs)
           g == UpTo(a, more)
           extra(n) == IF n < p THEN 0 ELSE gained.new
           B == {n \in Nat : g[n].new # f[n].new + extra(n)}
<1>1. /\ DOMAIN more = DOMAIN outs \cup {p} /\ more[p] = gained
      /\ \A q \in DOMAIN outs : more[q] = outs[q]
  OBVIOUS
<1> HIDE DEF f, g, more
<1>2. /\ \A n \in Nat : f[n] = AddsNext(a, outs, f, n)
      /\ \A n \in Nat : g[n] = AddsNext(a, more, g, n)
  BY UpToUnfolds DEF f, g
<1>3. \A n \in Nat : f[n] \in Reports
  BY UpToTyped DEF f
<1>4. \A r, s : Plus(r, s).new = r.new + s.new
  BY DEF Plus
<1>5. CASE B # {}
  <2>1. PICK n \in B : \A m \in B : n <= m
    <3>1. B \in SUBSET Nat
      OBVIOUS
    <3> HIDE DEF B
    <3> QED
      BY <1>5, <3>1, LeastNumber
  <2>2. n \in Nat /\ g[n].new # f[n].new + extra(n)
    OBVIOUS
  <2>3. n # 0 => n - 1 \in Nat /\ ~ (n <= n - 1)
    BY <2>2
  <2>4. n # 0 => g[n - 1].new = f[n - 1].new + extra(n - 1)
    BY <2>1, <2>3
  <2>5. /\ f[n] = IF n = 0 THEN a ELSE IF n \in DOMAIN outs THEN Plus(f[n - 1], outs[n]) ELSE f[n - 1]
        /\ g[n] = IF n = 0 THEN a ELSE IF n \in DOMAIN more THEN Plus(g[n - 1], more[n]) ELSE g[n - 1]
    BY <1>2, <2>2 DEF AddsNext
  <2>6. /\ gained.new \in Nat /\ a.new \in Nat
        /\ n # 0 => f[n - 1].new \in Nat
        /\ n \in DOMAIN outs => outs[n].new \in Nat
    BY <1>3, <2>3 DEF Reports
  <2>7. CASE n = 0
    <3>1. extra(n) = 0 /\ g[n] = a /\ f[n] = a
      BY <2>5, <2>7
    <3> QED
      BY <2>2, <2>6, <3>1
  <2>8. CASE n # 0 /\ n = p
    <3>1. f[n] = f[n - 1] /\ g[n] = Plus(g[n - 1], gained)
      BY <1>1, <2>5, <2>8
    <3>2. extra(n - 1) = 0 /\ extra(n) = gained.new
      BY <2>2, <2>8
    <3>3. g[n].new = g[n - 1].new + gained.new
      BY <1>4, <3>1
    <3> QED
      BY <2>2, <2>4, <2>6, <2>8, <3>1, <3>2, <3>3
  <2>9. CASE n # 0 /\ n # p
    <3>1. extra(n) = extra(n - 1) /\ extra(n) \in Nat
      BY <2>2, <2>6, <2>9
    <3> HIDE DEF extra
    <3>2. CASE n \in DOMAIN outs
      <4>1. f[n] = Plus(f[n - 1], outs[n]) /\ g[n] = Plus(g[n - 1], outs[n])
        BY <1>1, <2>5, <2>9, <3>2
      <4>2. f[n].new = f[n - 1].new + outs[n].new /\ g[n].new = g[n - 1].new + outs[n].new
        BY <1>4, <4>1
      <4> QED
        BY <2>2, <2>4, <2>6, <2>9, <3>1, <3>2, <4>2
    <3>3. CASE n \notin DOMAIN outs
      <4>1. f[n] = f[n - 1] /\ g[n] = g[n - 1]
        BY <1>1, <2>5, <2>9, <3>3
      <4> QED
        BY <2>2, <2>4, <2>9, <3>1, <4>1
    <3> QED
      BY <3>2, <3>3
  <2> QED
    BY <2>7, <2>8, <2>9
<1>6. CASE B = {}
  BY <1>6 DEF f, g, more
<1> QED
  BY <1>5, <1>6

\* The pages of a chunk are waiting, asked for or answered; those before it
\* were all asked for once; and the documents stored are those the report
\* will count once the outcomes of this chunk are added, and the unconfirmed.
BatchInv ==
    /\ step \in {"first", "chunks", "done", "failed"}
    /\ current \in 1 .. TotalPages + 1
    /\ step \in {"first", "failed"} => current = 1
    /\ step = "chunks" => current <= TotalPages
    /\ step = "done" => current = TotalPages + 1
    /\ waiting \cup asking \cup DOMAIN results = IF step = "chunks" THEN Chunk ELSE {}
    /\ waiting \cap asking = {} /\ (waiting \cup asking) \cap DOMAIN results = {}
    /\ requests = [p \in AllPages |-> IF p < current \/ p \in asking \cup DOMAIN results THEN 1 ELSE 0]
    /\ report \in Reports /\ \A q \in DOMAIN results : results[q] \in Reports
    /\ stored \in Nat /\ unconfirmed \in Nat
    /\ stored = UpTo(report, results)[TotalPages].new + unconfirmed

\* The first page is always asked for.
LEMMA PagesAreSome == TotalPages \in Nat \ {0}
<1>1. EstimatedTotal \in Nat /\ BatchSize \in Nat /\ BatchSize > 0
  BY BatchAssumption
<1>2. EstimatedTotal \div BatchSize \in Nat
  BY <1>1
<1>3. EstimatedPages \in Nat \ {0}
  BY <1>2 DEF EstimatedPages
<1>4. MaxPages \in Nat
  BY BatchAssumption
<1> QED
  BY <1>3, <1>4 DEF TotalPages, Lesser

\* A chunk holds a page, and none beyond the last.
LEMMA ChunkIsSome ==
    ASSUME current \in 1 .. TotalPages
    PROVE  /\ ChunkEnd \in Nat /\ ChunkEnd > current /\ ChunkEnd <= TotalPages + 1
           /\ Chunk = current .. ChunkEnd - 1 /\ Chunk \subseteq AllPages
<1>1. ChunkSize \in Nat \ {0} /\ TotalPages \in Nat
  BY BatchAssumption, PagesAreSome
<1>2. ChunkEnd \in Nat /\ ChunkEnd > current /\ ChunkEnd <= TotalPages + 1
  BY <1>1 DEF ChunkEnd, Lesser
<1> QED
  BY <1>1, <1>2 DEF Chunk, AllPages

\* No outcome, nothing stored.
LEMMA BatchStarts == BatchInit => BatchInv
<1> SUFFICES ASSUME BatchInit PROVE BatchInv
  OBVIOUS
<1>1. DOMAIN <<>> = {} /\ TotalPages \in Nat /\ TotalPages >= 1
  BY PagesAreSome
<1>2. report \in Reports /\ report.new = 0
  BY DEF BatchInit, Reports
<1>3. UpTo(report, results)[TotalPages] = UpTo(report, results)[0]
  BY <1>1, UpToStays DEF BatchInit
<1>4. UpTo(report, results)[0] = report
  BY UpToUnfolds DEF AddsNext
<1>5. requests = [p \in AllPages |-> IF p < current \/ p \in asking \cup DOMAIN results THEN 1 ELSE 0]
  <2>1. \A p \in AllPages : ~ (p < current) /\ p \notin asking \cup DOMAIN results
    BY <1>1 DEF BatchInit, AllPages
  <2> QED
    BY <2>1 DEF BatchInit
<1> QED
  BY <1>1, <1>2, <1>3, <1>4, <1>5 DEF BatchInv, BatchInit

LEMMA FirstKeeps ==
    ASSUME BatchInv, NEW success \in BOOLEAN, FirstRequest(success)
    PROVE  BatchInv'
<1>1. /\ current' = current /\ current = 1 /\ step = "first" /\ asking' = asking /\ results' = results
      /\ report' = report /\ requests' = requests /\ stored' = stored
      /\ unconfirmed' = unconfirmed /\ asking = {} /\ DOMAIN results = {}
      /\ step' = IF success THEN "chunks" ELSE "failed"
      /\ waiting' = IF success THEN Chunk ELSE {}
  BY DEF BatchInv, FirstRequest
<1>2. Chunk' = Chunk
  BY <1>1 DEF Chunk, ChunkEnd
<1>3. TotalPages >= 1 /\ TotalPages \in Nat
  BY PagesAreSome
<1> QED
  BY <1>1, <1>2, <1>3 DEF BatchInv

LEMMA RequestKeeps ==
    ASSUME BatchInv, NEW p \in AllPages, RequestPage(p)
    PROVE  BatchInv'
<1>1. /\ step' = step /\ current' = current /\ results' = results /\ report' = report
      /\ stored' = stored /\ unconfirmed' = unconfirmed
      /\ p \in waiting /\ waiting' = waiting \ {p} /\ asking' = asking \cup {p}
      /\ requests' = [requests EXCEPT ![p] = @ + 1]
  BY DEF RequestPage
<1>2. step = "chunks" /\ p \in Chunk /\ Chunk' = Chunk /\ p \notin asking /\ p \notin DOMAIN results
  BY <1>1 DEF BatchInv, Chunk, ChunkEnd
<1>3. ~ (p < current)
  <2>1. current \in Nat /\ p >= current
    BY <1>2 DEF Chunk, BatchInv, ChunkEnd
  <2> QED
    BY <2>1 DEF AllPages
<1>4. requests' = [q \in AllPages |-> IF q < current \/ q \in asking' \cup DOMAIN results' THEN 1 ELSE 0]
  <2>1. requests = [q \in AllPages |-> IF q < current \/ q \in asking \cup DOMAIN results THEN 1 ELSE 0]
    BY DEF BatchInv
  <2>2. requests[p] = 0
    BY <1>2, <1>3, <2>1
  <2> QED
    BY <1>1, <2>1, <2>2
<1> QED
  BY <1>1, <1>2, <1>4 DEF BatchInv

\* A page ends: what it stored is what its outcome adds and what was answered as failed.
LEMMA RecordKeeps ==
    ASSUME BatchInv, NEW p \in AllPages, NEW gained \in Reports, Record(p, gained),
           NEW lost \in Nat, unconfirmed' = unconfirmed + lost,
           stored' = stored + gained.new + lost
    PROVE  BatchInv'
<1>1. /\ step' = step /\ current' = current /\ waiting' = waiting /\ requests' = requests /\ report' = report
      /\ p \in asking /\ asking' = asking \ {p}
      /\ results' = [q \in DOMAIN results \cup {p} |-> IF q = p THEN gained ELSE results[q]]
  BY DEF Record
<1>2. /\ step = "chunks" /\ p \in Chunk /\ Chunk' = Chunk /\ p \notin DOMAIN results /\ p \notin waiting
      /\ current <= TotalPages
  BY <1>1 DEF BatchInv, Chunk, ChunkEnd
<1>3. /\ DOMAIN results' = DOMAIN results \cup {p}
      /\ \A q \in DOMAIN results' : results'[q] \in Reports
      /\ asking' \cup DOMAIN results' = asking \cup DOMAIN results
  BY <1>1 DEF BatchInv
<1>4. /\ gained.new \in Nat /\ stored \in Nat /\ unconfirmed \in Nat
      /\ stored = UpTo(report, results)[TotalPages].new + unconfirmed
      /\ UpTo(report, results)[TotalPages].new \in Nat
  <2>1. UpTo(report, results)[TotalPages] \in Reports
    BY PagesAreSome, UpToTyped DEF BatchInv
  <2> QED
    BY <2>1 DEF Reports, BatchInv
<1>5. p \in Nat \ {0} /\ ~ (TotalPages < p) /\ TotalPages \in Nat
  BY PagesAreSome DEF AllPages
<1>6. stored' = UpTo(report', results')[TotalPages].new + unconfirmed'
  <2>1. report \in Reports /\ \A q \in DOMAIN results : results[q] \in Reports
    BY DEF BatchInv
  <2>2. UpTo(report, results')[TotalPages].new
          = UpTo(report, results)[TotalPages].new + (IF TotalPages < p THEN 0 ELSE gained.new)
    BY <1>1, <1>2, <1>5, <2>1, UpToCounts
  <2> QED
    BY <1>1, <1>4, <1>5, <2>2
<1>7. stored' \in Nat /\ unconfirmed' \in Nat
  BY <1>4
<1> QED
  BY <1>1, <1>2, <1>3, <1>6, <1>7 DEF BatchInv

\* A chunk ends: its pages are those before the next one.
LEMMA FinishKeeps ==
    ASSUME BatchInv, FinishChunk
    PROVE  BatchInv'
<1>1. /\ step = "chunks" /\ waiting = {} /\ asking = {} /\ asking' = {} /\ requests' = requests
      /\ stored' = stored /\ unconfirmed' = unconfirmed
      /\ results' = <<>> /\ current' = ChunkEnd /\ report' = ReportUpTo[ChunkEnd - 1]
      /\ IF current' <= TotalPages THEN waiting' = Chunk' /\ step' = step
         ELSE step' = "done" /\ waiting' = waiting
  BY DEF FinishChunk
<1>2. current \in 1 .. TotalPages /\ TotalPages \in Nat /\ DOMAIN results = Chunk
  BY <1>1, PagesAreSome DEF BatchInv
<1>3. /\ ChunkEnd \in Nat /\ ChunkEnd > current /\ ChunkEnd <= TotalPages + 1
      /\ DOMAIN results = current .. ChunkEnd - 1
  BY <1>2, ChunkIsSome
<1>4. report \in Reports /\ \A q \in DOMAIN results : results[q] \in Reports
  BY DEF BatchInv
<1>5. report' = UpTo(report, results)[TotalPages]
  <2>1. report' = UpTo(report, results)[ChunkEnd - 1]
    BY <1>1, ReportIsUpTo
  <2>2. ChunkEnd - 1 \in Nat /\ ChunkEnd - 1 <= TotalPages
    BY <1>2, <1>3
  <2>3. \A n \in (ChunkEnd - 1) + 1 .. TotalPages : n \notin DOMAIN results
    BY <1>2, <1>3
  <2> QED
    BY <1>2, <2>1, <2>2, <2>3, UpToStays
<1>6. report' \in Reports
  BY <1>2, <1>4, <1>5, UpToTyped
<1>7. DOMAIN results' = {}
  BY <1>1
<1>8. /\ stored' = UpTo(report', results')[TotalPages].new + unconfirmed'
      /\ stored' \in Nat /\ unconfirmed' \in Nat
  <2>1. UpTo(report', results')[TotalPages] = UpTo(report', results')[0]
    BY <1>2, <1>7, UpToStays
  <2>2. UpTo(report', results')[0] = report'
    BY UpToUnfolds DEF AddsNext
  <2> QED
    BY <1>1, <1>5, <2>1, <2>2 DEF BatchInv
<1>9. requests' = [p \in AllPages |-> IF p < current' \/ p \in asking' \cup DOMAIN results' THEN 1 ELSE 0]
  <2>1. requests = [p \in AllPages |-> IF p < current \/ p \in asking \cup DOMAIN results THEN 1 ELSE 0]
    BY DEF BatchInv
  <2>2. ASSUME NEW p \in AllPages
        PROVE  p < current \/ p \in asking \cup DOMAIN results <=> p < current' \/ p \in asking' \cup DOMAIN results'
    BY <1>1, <1>2, <1>3, <1>7 DEF AllPages
  <2> QED
    BY <1>1, <2>1, <2>2
<1>10. current' \in 1 .. TotalPages + 1 /\ ~ (current' <= TotalPages) => current' = TotalPages + 1
  BY <1>1, <1>2, <1>3
<1>11. current' \in 1 .. TotalPages + 1
  BY <1>1, <1>2, <1>3
<1>12. CASE current' <= TotalPages
  BY <1>1, <1>4, <1>6, <1>7, <1>8, <1>9, <1>11, <1>12 DEF BatchInv
<1>13. CASE ~ (current' <= TotalPages)
  BY <1>1, <1>4, <1>6, <1>7, <1>8, <1>9, <1>10, <1>11, <1>13 DEF BatchInv
<1> QED
  BY <1>12, <1>13

\* The report is true although pages finish in any order and some fail, for
\* every number, size and concurrency of pages.
THEOREM BatchReportsTruly == BatchSpec => [](BatchTypeOK /\ BatchReportTrue)
<1>1. BatchInit => BatchInv
  BY BatchStarts
<1>2. BatchInv /\ [BatchNext]_batchVars => BatchInv'
  <2> SUFFICES ASSUME BatchInv, [BatchNext]_batchVars PROVE BatchInv'
    OBVIOUS
  <2>1. CASE UNCHANGED batchVars
    BY <2>1 DEF batchVars, BatchInv, Chunk, ChunkEnd
  <2>2. ASSUME NEW success \in BOOLEAN, FirstRequest(success) PROVE BatchInv'
    BY <2>2, FirstKeeps
  <2>3. ASSUME NEW p \in AllPages, RequestPage(p) PROVE BatchInv'
    BY <2>3, RequestKeeps
  <2>4. ASSUME NEW p \in AllPages, PageFails(p) PROVE BatchInv'
    <3> DEFINE gained == [processed |-> 0, new |-> 0, errors |-> 1]
    <3>1. gained \in Reports /\ gained.new = 0 /\ stored \in Nat
      BY DEF Reports, BatchInv
    <3>2. Record(p, gained) /\ stored' = stored /\ unconfirmed' = unconfirmed
      BY <2>4 DEF PageFails
    <3> HIDE DEF gained
    <3>3. stored' = stored + gained.new + 0 /\ unconfirmed' = unconfirmed + 0
      BY <3>1, <3>2 DEF BatchInv
    <3> QED
      BY <3>1, <3>2, <3>3, RecordKeeps
  <2>5. ASSUME NEW p \in AllPages, NEW items \in PageSizes, NEW inserted \in PageSizes,
               NEW confirmed \in PageSizes, PageAnswers(p, items, inserted, confirmed)
        PROVE  BatchInv'
    <3> DEFINE gained == [processed |-> items, new |-> confirmed, errors |-> 0]
               lost == inserted - confirmed
    <3>1. items \in Nat /\ inserted \in Nat /\ confirmed \in Nat /\ confirmed <= inserted
      BY <2>5, BatchAssumption DEF PageAnswers
    <3>2. gained \in Reports /\ gained.new = confirmed /\ lost \in Nat
      BY <3>1 DEF Reports
    <3>3. /\ Record(p, gained) /\ stored' = stored + inserted /\ stored \in Nat
          /\ unconfirmed' = unconfirmed + lost
      BY <2>5 DEF PageAnswers, BatchInv
    <3>4. inserted = confirmed + lost
      BY <3>1
    <3> HIDE DEF gained, lost
    <3>5. stored' = stored + gained.new + lost
      BY <3>1, <3>2, <3>3, <3>4
    <3> QED
      BY <3>2, <3>3, <3>5, RecordKeeps
  <2>6. CASE FinishChunk
    BY <2>6, FinishKeeps
  <2> QED
    BY <2>1, <2>2, <2>3, <2>4, <2>5, <2>6 DEF BatchNext
<1>3. BatchInv => BatchReportTrue
  <2> SUFFICES ASSUME BatchInv PROVE BatchReportTrue
    OBVIOUS
  <2>1. requests = [p \in AllPages |-> IF p < current \/ p \in asking \cup DOMAIN results THEN 1 ELSE 0]
    BY DEF BatchInv
  <2>2. \A p \in AllPages : requests[p] <= 1
    BY <2>1
  <2>3. ASSUME step = "done" PROVE (\A p \in AllPages : requests[p] = 1) /\ report.new + unconfirmed = stored
    <3>1. current = TotalPages + 1 /\ DOMAIN results = {} /\ TotalPages \in Nat
      BY <2>3, PagesAreSome DEF BatchInv
    <3>2. \A p \in AllPages : p < current
      BY <3>1 DEF AllPages
    <3>3. UpTo(report, results)[TotalPages] = UpTo(report, results)[0]
      BY <3>1, UpToStays
    <3>4. UpTo(report, results)[0] = report
      BY UpToUnfolds DEF AddsNext
    <3> QED
      BY <2>1, <3>2, <3>3, <3>4 DEF BatchInv
  <2> QED
    BY <2>2, <2>3 DEF BatchReportTrue, EveryPageOnce
<1>4. BatchInv => BatchTypeOK
  <2> SUFFICES ASSUME BatchInv PROVE BatchTypeOK
    OBVIOUS
  <2>1. /\ current \in 1 .. TotalPages + 1 /\ step \in {"first", "chunks", "done", "failed"}
        /\ report \in Reports /\ stored \in Nat /\ unconfirmed \in Nat
        /\ waiting \cup asking \cup DOMAIN results = IF step = "chunks" THEN Chunk ELSE {}
    BY DEF BatchInv
  <2>2. Chunk \subseteq AllPages
    <3>1. ChunkEnd <= TotalPages + 1 /\ ChunkEnd \in Int /\ TotalPages \in Nat
      BY <2>1, PagesAreSome, BatchAssumption DEF ChunkEnd, Lesser
    <3> QED
      BY <2>1, <3>1 DEF Chunk, AllPages
  <2>3. waiting \subseteq AllPages /\ asking \subseteq AllPages /\ DOMAIN results \subseteq AllPages
    BY <2>1, <2>2
  <2>4. requests \in [AllPages -> Nat]
    BY DEF BatchInv
  <2> QED
    BY <2>1, <2>3, <2>4 DEF BatchTypeOK, Reports
<1> QED
  BY <1>1, <1>2, <1>3, <1>4, PTL DEF BatchSpec

=============================================================================
