----------------------- MODULE PluginLifecycle_proofs -----------------------
(***************************************************************************)
(* Theorems about PluginLifecycle, for every value of its constants.       *)
(*                                                                         *)
(* For any number of tasks: types, and a plugin that is initializing has a *)
(* task that is still busy activating it.                                  *)
(*                                                                         *)
(* For a single task, where operations interleave with nothing but their   *)
(* own nested calls: the manager implements ServiceOrder, what an active   *)
(* plugin requires is active, and (when clean-ups do not fail) resources   *)
(* are held exactly by what is registered and active.  With two tasks what *)
(* an active plugin requires need not be active: plugins_overlap shows it. *)
(***************************************************************************)
EXTENDS PluginLifecycle, SequenceTheorems, FiniteSetTheorems, TLAPS

-----------------------------------------------------------------------------
(* Stacks and states.                                                      *)

\* Where a frame may stand, by its operation.
Stands(op, pc) ==
    \/ pc = "enter"
    \/ op = "activate" /\ pc \in {"loop", "initialize"}
    \/ op = "deactivate" /\ pc = "cleanup"
    \/ op \in {"unload", "reload"} /\ pc = "unload"
    \/ op = "shutdown" /\ pc = "loop"
Formed(f) == Stands(f.op, f.pc) /\ (f.op # "shutdown" => f.plugin \in Plugins)

TypesInv ==
    /\ TypeOK
    /\ Len(instances) <= MaxLoads
    /\ \A t \in Tasks : \A i \in DOMAIN stack[t] : Formed(stack[t][i])

\* What becomes of a stack: the frame on top goes, changes, or calls.
LEMMA Stacks ==
    ASSUME NEW s \in Seq(Frames), s # <<>>, NEW f \in Frames, NEW g \in Frames
    PROVE  /\ Len(s) \in Nat /\ Len(s) >= 1 /\ DOMAIN s = 1 .. Len(s)
           /\ Head(s) = s[1] /\ \A i \in 1 .. Len(s) : s[i] \in Frames
           /\ Tail(s) \in Seq(Frames) /\ DOMAIN Tail(s) = 1 .. Len(s) - 1 /\ Len(Tail(s)) = Len(s) - 1
           /\ \A i \in 1 .. Len(s) - 1 : Tail(s)[i] = s[i + 1]
           /\ LET r == <<f>> \o Tail(s)
              IN  /\ r \in Seq(Frames) /\ DOMAIN r = 1 .. Len(s) /\ Len(r) = Len(s)
                  /\ \A i \in 1 .. Len(s) : r[i] = IF i = 1 THEN f ELSE s[i]
           /\ LET r == <<f, g>> \o Tail(s)
              IN  /\ r \in Seq(Frames) /\ DOMAIN r = 1 .. Len(s) + 1 /\ Len(r) = Len(s) + 1
                  /\ \A i \in 1 .. Len(s) + 1 :
                       r[i] = IF i = 1 THEN f ELSE IF i = 2 THEN g ELSE s[i - 1]
<1>1. Len(s) \in Nat /\ Len(s) >= 1 /\ DOMAIN s = 1 .. Len(s)
  BY LenProperties, EmptySeq
<1>2. Head(s) = s[1] /\ \A i \in 1 .. Len(s) : s[i] \in Frames
  BY HeadTailProperties, ElementOfSeq
<1>3. /\ Tail(s) \in Seq(Frames) /\ Len(Tail(s)) = Len(s) - 1
      /\ \A i \in 1 .. Len(s) - 1 : Tail(s)[i] = s[i + 1]
  BY HeadTailProperties
<1>4. DOMAIN Tail(s) = 1 .. Len(s) - 1
  BY <1>3, LenProperties
<1>5. <<f>> \in Seq(Frames) /\ Len(<<f>>) = 1 /\ <<f, g>> \in Seq(Frames) /\ Len(<<f, g>>) = 2
  OBVIOUS
<1>6. LET r == <<f>> \o Tail(s)
      IN  /\ r \in Seq(Frames) /\ DOMAIN r = 1 .. Len(s) /\ Len(r) = Len(s)
          /\ \A i \in 1 .. Len(s) : r[i] = IF i = 1 THEN f ELSE s[i]
  <2> DEFINE r == <<f>> \o Tail(s)
  <2>1. r \in Seq(Frames) /\ Len(r) = Len(s)
    BY <1>1, <1>3, <1>5, ConcatProperties
  <2>2. \A i \in 1 .. Len(s) : r[i] = IF i <= 1 THEN <<f>>[i] ELSE Tail(s)[i - 1]
    BY <1>1, <1>3, <1>5, ConcatProperties
  <2>3. \A i \in 1 .. Len(s) : r[i] = IF i = 1 THEN f ELSE s[i]
    BY <1>1, <1>3, <2>2
  <2>4. DOMAIN r = 1 .. Len(s)
    BY <2>1, LenProperties
  <2> QED
    BY <2>1, <2>3, <2>4
<1>7. LET r == <<f, g>> \o Tail(s)
      IN  /\ r \in Seq(Frames) /\ DOMAIN r = 1 .. Len(s) + 1 /\ Len(r) = Len(s) + 1
          /\ \A i \in 1 .. Len(s) + 1 :
               r[i] = IF i = 1 THEN f ELSE IF i = 2 THEN g ELSE s[i - 1]
  <2> DEFINE r == <<f, g>> \o Tail(s)
  <2>1. r \in Seq(Frames) /\ Len(r) = Len(s) + 1
    BY <1>1, <1>3, <1>5, ConcatProperties
  <2>2. \A i \in 1 .. Len(s) + 1 : r[i] = IF i <= 2 THEN <<f, g>>[i] ELSE Tail(s)[i - 2]
    BY <1>1, <1>3, <1>5, ConcatProperties
  <2>3. \A i \in 1 .. Len(s) + 1 : r[i] = IF i = 1 THEN f ELSE IF i = 2 THEN g ELSE s[i - 1]
    BY <1>1, <1>3, <2>2
  <2>4. DOMAIN r = 1 .. Len(s) + 1
    BY <1>1, <2>1, LenProperties
  <2> QED
    BY <2>1, <2>3, <2>4
<1> QED
  BY <1>1, <1>2, <1>3, <1>4, <1>6, <1>7

\* The frame on top.
LEMMA TopFrame ==
    ASSUME TypesInv, NEW t \in Tasks, stack[t] # <<>>
    PROVE  /\ stack[t] \in Seq(Frames) /\ Top(t) \in Frames /\ Top(t) = stack[t][1]
           /\ DOMAIN stack[t] = 1 .. Len(stack[t]) /\ Len(stack[t]) \in Nat /\ Len(stack[t]) >= 1
           /\ Top(t).op # "shutdown" => Top(t).plugin \in Plugins
           /\ Stands(Top(t).op, Top(t).pc)
<1>1. stack[t] \in Seq(Frames)
  BY DEF TypesInv, TypeOK
<1>2. \E f : f \in Frames
  BY <1>1, EmptySeq, LenProperties, ElementOfSeq
<1>3. /\ Top(t) \in Frames /\ Top(t) = stack[t][1] /\ 1 \in DOMAIN stack[t]
      /\ DOMAIN stack[t] = 1 .. Len(stack[t]) /\ Len(stack[t]) \in Nat /\ Len(stack[t]) >= 1
  BY <1>1, <1>2, Stacks DEF Top
<1> QED
  BY <1>1, <1>3 DEF TypesInv, Formed

\* Writing a state by name.
LEMMA StateWritten ==
    ASSUME TypesInv, NEW p \in Plugins, NEW st \in States
    PROVE  LET new == SetState(p, st)
           IN  /\ new \in Seq(Instances) /\ Len(new) = Len(instances)
               /\ DOMAIN new = DOMAIN instances
               /\ \A i \in DOMAIN instances :
                    /\ new[i].plugin = instances[i].plugin
                    /\ new[i].initialized = instances[i].initialized
                    /\ new[i].state = IF Registered(p) /\ i = registered[p] THEN st
                                      ELSE instances[i].state
<1>1. instances \in Seq(Instances) /\ Len(instances) \in Nat /\ DOMAIN instances = 1 .. Len(instances)
  BY LenProperties DEF TypesInv, TypeOK
<1>2. \A i \in DOMAIN instances : instances[i] \in Instances
  BY <1>1, ElementOfSeq
<1>3. CASE ~Registered(p)
  BY <1>1, <1>3 DEF SetState
<1>4. CASE Registered(p)
  <2> DEFINE k == registered[p]
  <2>1. k \in 1 .. Len(instances)
    BY <1>1, <1>4 DEF Registered, TypesInv, TypeOK
  <2>2. [instances[k] EXCEPT !.state = st] \in Instances
    BY <1>1, <1>2, <2>1 DEF Instances
  <2> DEFINE new == [instances EXCEPT ![k].state = st]
  <2>3. new = [instances EXCEPT ![k] = [instances[k] EXCEPT !.state = st]]
    OBVIOUS
  <2>4. new \in Seq(Instances) /\ Len(new) = Len(instances)
    BY <1>1, <2>1, <2>2, <2>3, ExceptSeq
  <2>5. DOMAIN new = DOMAIN instances
    BY <1>1
  <2>6. \A i \in DOMAIN instances :
          new[i] = IF i = k THEN [instances[i] EXCEPT !.state = st] ELSE instances[i]
    BY <1>1
  <2>7. SetState(p, st) = new
    BY <1>4 DEF SetState
  <2> QED
    BY <1>2, <1>4, <2>4, <2>5, <2>6, <2>7 DEF Instances
<1> QED
  BY <1>3, <1>4

\* An object becomes, or ceases to be, initialized.
LEMMA InitializedWritten ==
    ASSUME NEW old \in Seq(Instances), NEW k, NEW b \in BOOLEAN
    PROVE  LET new == [old EXCEPT ![k].initialized = b]
           IN  /\ new \in Seq(Instances) /\ Len(new) = Len(old) /\ DOMAIN new = DOMAIN old
               /\ \A i \in DOMAIN old :
                    /\ new[i].plugin = old[i].plugin /\ new[i].state = old[i].state
                    /\ new[i].initialized = IF i = k THEN b ELSE old[i].initialized
<1>1. Len(old) \in Nat /\ DOMAIN old = 1 .. Len(old)
  BY LenProperties
<1>2. \A i \in DOMAIN old : old[i] \in Instances
  BY <1>1, ElementOfSeq
<1> DEFINE new == [old EXCEPT ![k].initialized = b]
<1>3. \A i \in DOMAIN old :
        new[i] = IF i = k THEN [old[i] EXCEPT !.initialized = b] ELSE old[i]
  OBVIOUS
<1>4. ASSUME k \in DOMAIN old PROVE new \in Seq(Instances)
  <2>1. [old[k] EXCEPT !.initialized = b] \in Instances
    BY <1>2, <1>4 DEF Instances
  <2>2. new = [old EXCEPT ![k] = [old[k] EXCEPT !.initialized = b]]
    OBVIOUS
  <2> QED
    BY <1>1, <1>4, <2>1, <2>2, ExceptSeq
<1>5. ASSUME k \notin DOMAIN old PROVE new = old
  <2>1. old \in [DOMAIN old -> Instances]
    BY <1>1, LenProperties
  <2>2. new \in [DOMAIN old -> Instances] /\ \A i \in DOMAIN old : new[i] = old[i]
    BY <1>3, <1>5, <2>1
  <2> QED
    BY <2>1, <2>2
<1>6. new \in Seq(Instances)
  BY <1>4, <1>5
<1>7. DOMAIN new = DOMAIN old
  OBVIOUS
<1>8. Len(new) = Len(old)
  BY <1>1, <1>6, <1>7, LenProperties
<1> QED
  BY <1>2, <1>3, <1>6, <1>7, <1>8 DEF Instances

-----------------------------------------------------------------------------
(* Moves of a task.                                                        *)

\* The moves of a task, frame by frame.
Pcs == {"enter", "loop", "initialize", "cleanup", "unload"}
Unmoved(t) == \A u \in Tasks : u # t => stack'[u] = stack[u]
Typed ==
    /\ stack \in [Tasks -> Seq(Frames)]
    /\ \A t \in Tasks : \A i \in DOMAIN stack[t] : Formed(stack[t][i])

FrameOf(x, pc, id, rest) ==
    [op |-> x.op, pc |-> pc, plugin |-> x.plugin, id |-> id, rest |-> rest]

Changed(x, pc, id, rest) == [x EXCEPT !.pc = pc, !.id = id, !.rest = rest]
Waiting(x, pc, rest) == [x EXCEPT !.pc = pc, !.rest = rest]

LEMMA FrameChanged ==
    ASSUME NEW x \in Frames, NEW pc \in Pcs, NEW id \in 0 .. MaxLoads, NEW rest \in Seq(Plugins)
    PROVE  /\ FrameOf(x, pc, id, rest) \in Frames
           /\ Changed(x, pc, id, rest) = FrameOf(x, pc, id, rest)
           /\ id = x.id => Waiting(x, pc, rest) = FrameOf(x, pc, id, rest)
<1> DEFINE y == FrameOf(x, pc, id, rest)
<1>1. y \in Frames
  BY DEF Frames, Pcs, FrameOf
<1>2. y = [x EXCEPT !.pc = pc, !.id = id, !.rest = rest]
  <2> DEFINE z == [x EXCEPT !.pc = pc, !.id = id, !.rest = rest]
  <2>1. z \in Frames
    BY DEF Frames, Pcs
  <2>2. z.op = x.op /\ z.pc = pc /\ z.plugin = x.plugin /\ z.id = id /\ z.rest = rest
    BY DEF Frames
  <2> HIDE DEF z
  <2>3. z = y
    BY <2>1, <2>2 DEF Frames, FrameOf
  <2> QED
    BY <2>3 DEF z
<1>3. ASSUME id = x.id PROVE y = [x EXCEPT !.pc = pc, !.rest = rest]
  <2> DEFINE z == [x EXCEPT !.pc = pc, !.rest = rest]
  <2>1. z \in Frames
    BY DEF Frames, Pcs
  <2>2. z.op = x.op /\ z.pc = pc /\ z.plugin = x.plugin /\ z.id = x.id /\ z.rest = rest
    BY DEF Frames
  <2> HIDE DEF z
  <2>3. z = y
    BY <1>3, <2>1, <2>2 DEF Frames, FrameOf
  <2> QED
    BY <2>3 DEF z
<1> QED
  BY <1>1, <1>2, <1>3 DEF Changed, Waiting

LEMMA Becomes ==
    ASSUME TypesInv, NEW t \in Tasks, stack[t] # <<>>,
           NEW pc \in Pcs, NEW id \in 0 .. MaxLoads, NEW rest \in Seq(Plugins),
           Become(t, pc, id, rest), Stands(Top(t).op, pc)
    PROVE  /\ Unmoved(t) /\ Typed'
           /\ DOMAIN stack'[t] = DOMAIN stack[t] /\ Len(stack'[t]) = Len(stack[t])
           /\ \A i \in DOMAIN stack[t] : i # 1 => stack'[t][i] = stack[t][i]
           /\ stack'[t][1] = FrameOf(Top(t), pc, id, rest)
<1> DEFINE f == FrameOf(Top(t), pc, id, rest)
<1>1. f \in Frames /\ f = Changed(Top(t), pc, id, rest)
  <2>1. Top(t) \in Frames
    BY TopFrame
  <2> QED
    BY <2>1, FrameChanged
<1>0. Formed(f)
  BY TopFrame DEF FrameOf, Formed
<1> HIDE DEF f
<1>2. stack' = [stack EXCEPT ![t] = <<f>> \o Tail(stack[t])] /\ stack \in [Tasks -> Seq(Frames)]
  BY <1>1 DEF Become, Changed, TypesInv, TypeOK
<1>3. /\ stack'[t] \in Seq(Frames) /\ DOMAIN stack'[t] = 1 .. Len(stack[t])
      /\ Len(stack'[t]) = Len(stack[t])
      /\ \A i \in 1 .. Len(stack[t]) : stack'[t][i] = IF i = 1 THEN f ELSE stack[t][i]
  BY <1>1, <1>2, Stacks
<1>4. Unmoved(t) /\ stack' \in [Tasks -> Seq(Frames)]
  BY <1>2, <1>3 DEF Unmoved
<1>5. DOMAIN stack[t] = 1 .. Len(stack[t]) /\ 1 \in DOMAIN stack[t]
  BY TopFrame
<1>6. ASSUME NEW u \in Tasks, NEW i \in DOMAIN stack'[u]
      PROVE  Formed(stack'[u][i])
  <2>1. CASE u # t
    BY <1>4, <1>6, <2>1 DEF Unmoved, TypesInv
  <2>2. CASE u = t /\ i = 1
    BY <1>0, <1>3, <1>5, <2>2
  <2>3. CASE u = t /\ i # 1
    BY <1>3, <1>5, <1>6, <2>3 DEF TypesInv
  <2> QED
    BY <2>1, <2>2, <2>3
<1> QED
  BY <1>1, <1>3, <1>4, <1>5, <1>6 DEF Typed, f

LEMMA Awaited ==
    ASSUME TypesInv, NEW t \in Tasks, stack[t] # <<>>,
           NEW pc \in Pcs, NEW rest \in Seq(Plugins), NEW op \in Operations, NEW p \in Plugins,
           Await(t, pc, rest, op, p), Stands(Top(t).op, pc)
    PROVE  /\ Unmoved(t) /\ Typed'
           /\ DOMAIN stack'[t] = 1 .. Len(stack[t]) + 1 /\ Len(stack'[t]) = Len(stack[t]) + 1
           /\ \A i \in 3 .. Len(stack[t]) + 1 : stack'[t][i] = stack[t][i - 1]
           /\ stack'[t][1] = Frame(op, p)
           /\ stack'[t][2] = FrameOf(Top(t), pc, Top(t).id, rest)
<1> DEFINE f == Frame(op, p)
           g == FrameOf(Top(t), pc, Top(t).id, rest)
<1>1. g \in Frames /\ g = Waiting(Top(t), pc, rest)
  <2>1. Top(t) \in Frames /\ Top(t).id \in 0 .. MaxLoads
    BY TopFrame DEF Frames
  <2> QED
    BY <2>1, FrameChanged
<1>0. Formed(g)
  BY TopFrame DEF FrameOf, Formed
<1>2. f \in Frames /\ Formed(f)
  BY PluginLifecycleAssumption, EmptySeq DEF Frame, Frames, Formed, Stands
<1> HIDE DEF f, g
<1>3. stack' = [stack EXCEPT ![t] = <<f, g>> \o Tail(stack[t])] /\ stack \in [Tasks -> Seq(Frames)]
  BY <1>1 DEF Await, Waiting, f, TypesInv, TypeOK
<1>4. /\ stack'[t] \in Seq(Frames) /\ DOMAIN stack'[t] = 1 .. Len(stack[t]) + 1
      /\ Len(stack'[t]) = Len(stack[t]) + 1
      /\ \A i \in 1 .. Len(stack[t]) + 1 :
           stack'[t][i] = IF i = 1 THEN f ELSE IF i = 2 THEN g ELSE stack[t][i - 1]
  BY <1>1, <1>2, <1>3, Stacks
<1>5. Unmoved(t) /\ stack' \in [Tasks -> Seq(Frames)]
  BY <1>3, <1>4 DEF Unmoved
<1>6. DOMAIN stack[t] = 1 .. Len(stack[t]) /\ Len(stack[t]) \in Nat /\ Len(stack[t]) >= 1
  BY TopFrame
<1>7. ASSUME NEW u \in Tasks, NEW i \in DOMAIN stack'[u]
      PROVE  Formed(stack'[u][i])
  <2>1. CASE u # t
    BY <1>5, <1>7, <2>1 DEF Unmoved, TypesInv
  <2>2. CASE u = t /\ i = 1
    BY <1>2, <1>4, <1>6, <2>2
  <2>3. CASE u = t /\ i = 2
    BY <1>0, <1>4, <1>6, <1>7, <2>3
  <2>4. CASE u = t /\ i # 1 /\ i # 2
    <3>0. i \in 1 .. Len(stack[t]) + 1
      BY <1>4, <1>7, <2>4
    <3>1. i - 1 \in DOMAIN stack[t] /\ stack'[t][i] = stack[t][i - 1]
      BY <1>4, <1>6, <2>4, <3>0
    <3> QED
      BY <1>7, <2>4, <3>1 DEF TypesInv
  <2> QED
    BY <2>1, <2>2, <2>3, <2>4
<1> QED
  <2>1. stack'[t][1] = f /\ stack'[t][2] = g
    BY <1>4, <1>6
  <2>2. \A i \in 3 .. Len(stack[t]) + 1 : stack'[t][i] = stack[t][i - 1]
    BY <1>4, <1>6
  <2>3. Typed'
    BY <1>5, <1>7 DEF Typed
  <2> QED
    BY <1>4, <1>5, <2>1, <2>2, <2>3 DEF f, g

LEMMA Returned ==
    ASSUME TypesInv, NEW t \in Tasks, stack[t] # <<>>, current \in {t, NoTask},
           NEW ok \in BOOLEAN, Return(t, ok)
    PROVE  /\ Unmoved(t) /\ Typed'
           /\ DOMAIN stack'[t] = 1 .. Len(stack[t]) - 1 /\ Len(stack'[t]) = Len(stack[t]) - 1
           /\ \A i \in 1 .. Len(stack[t]) - 1 : stack'[t][i] = stack[t][i + 1]
           /\ current' \in Tasks \cup {NoTask}
           /\ returned' = IF Len(stack[t]) = 1 THEN "nothing" ELSE IF ok THEN "ok" ELSE "failed"
           /\ answer' \in [Tasks -> [op : Operations, ok : BOOLEAN] \cup {NoAnswer}]
<1>1. stack' = [stack EXCEPT ![t] = Tail(stack[t])] /\ stack \in [Tasks -> Seq(Frames)]
  BY DEF Return, TypesInv, TypeOK
<1>2. \E f : f \in Frames
  BY TopFrame
<1>3. /\ stack'[t] \in Seq(Frames) /\ DOMAIN stack'[t] = 1 .. Len(stack[t]) - 1
      /\ Len(stack'[t]) = Len(stack[t]) - 1
      /\ \A i \in 1 .. Len(stack[t]) - 1 : stack'[t][i] = stack[t][i + 1]
  BY <1>1, <1>2, Stacks
<1>4. Unmoved(t) /\ stack' \in [Tasks -> Seq(Frames)]
  BY <1>1, <1>3 DEF Unmoved
<1>5. DOMAIN stack[t] = 1 .. Len(stack[t]) /\ Len(stack[t]) \in Nat /\ Len(stack[t]) >= 1
  BY TopFrame
<1>6. ASSUME NEW u \in Tasks, NEW i \in DOMAIN stack'[u]
      PROVE  Formed(stack'[u][i])
  <2>1. CASE u # t
    BY <1>4, <1>6, <2>1 DEF Unmoved, TypesInv
  <2>2. CASE u = t
    <3>1. i + 1 \in DOMAIN stack[t] /\ stack'[t][i] = stack[t][i + 1]
      BY SMTT(30), <1>3, <1>5, <1>6, <2>2
    <3> QED
      BY <1>6, <2>2, <3>1 DEF TypesInv
  <2> QED
    BY <2>1, <2>2
<1>7. [op |-> Top(t).op, ok |-> ok] \in [op : Operations, ok : BOOLEAN]
  BY TopFrame DEF Frames
<1>8. answer' \in [Tasks -> [op : Operations, ok : BOOLEAN] \cup {NoAnswer}]
  BY <1>7 DEF Return, TypesInv, TypeOK
<1>9. /\ current' \in Tasks \cup {NoTask}
      /\ returned' = IF Len(stack[t]) = 1 THEN "nothing" ELSE IF ok THEN "ok" ELSE "failed"
  BY DEF Return
<1> QED
  BY <1>3, <1>4, <1>6, <1>8, <1>9 DEF Typed

\* What is left to keep is the registry.
LEMMA RegistryTyped ==
    ASSUME TypesInv, Typed', instances' \in Seq(Instances), Len(instances') = Len(instances),
           \A i \in DOMAIN instances : instances'[i].plugin = instances[i].plugin,
           registered' \in [Plugins -> 0 .. Len(instances)],
           \A p \in Plugins : registered'[p] \in {0, registered[p]},
           returned' \in {"nothing", "ok", "failed"}, current' \in Tasks \cup {NoTask},
           answer' \in [Tasks -> [op : Operations, ok : BOOLEAN] \cup {NoAnswer}]
    PROVE  TypesInv'
<1>1. \A p \in Plugins : registered[p] # 0 => registered[p] \in DOMAIN instances
  BY LenProperties DEF TypesInv, TypeOK
<1>2. \A p \in Plugins : registered'[p] # 0 => instances'[registered'[p]].plugin = p
  BY <1>1 DEF TypesInv, TypeOK
<1> QED
  BY <1>2 DEF TypesInv, TypeOK, Typed

-----------------------------------------------------------------------------
(* Enumerations.                                                           *)

\* An enumeration of a set.
LEMMA Enumerated ==
    ASSUME NEW S \in SUBSET Plugins, NEW o \in SetToSeqs(S)
    PROVE  /\ o \in Seq(Plugins) /\ DOMAIN o = 1 .. Cardinality(S) /\ Len(o) = Cardinality(S)
           /\ Cardinality(S) \in Nat /\ IsFiniteSet(S)
           /\ \A i \in DOMAIN o : o[i] \in S
           /\ \A i, j \in DOMAIN o : o[i] = o[j] => i = j
           /\ \A x \in S : \E i \in DOMAIN o : o[i] = x
<1>1. IsFiniteSet(S) /\ Cardinality(S) \in Nat
  BY FS_Subset, FS_CardinalityType, PluginLifecycleAssumption
<1> DEFINE n == Cardinality(S)
<1>2. o \in [1 .. n -> S] /\ \A i, j \in 1 .. n : i # j => o[i] # o[j]
  BY DEF SetToSeqs
<1> HIDE DEF n
<1>3. n \in Nat
  BY <1>1 DEF n
<1>4. o \in [1 .. n -> Plugins]
  BY <1>2
<1>5. o \in Seq(Plugins) /\ Len(o) = n
  BY <1>3, <1>4
<1>6. IsFiniteSet(1 .. n) /\ Cardinality(1 .. n) = n
  BY <1>3, FS_Interval
<1>7. o \in Injection(1 .. n, S)
  BY <1>2 DEF Injection, IsInjective
<1>8. o \in Surjection(1 .. n, S)
  BY <1>1, <1>6, <1>7, FS_Injection DEF n
<1>9. \A x \in S : \E i \in 1 .. n : o[i] = x
  BY <1>8 DEF Surjection
<1> QED
  BY <1>1, <1>2, <1>5, <1>9 DEF n

LEMMA ReachedIsClosed ==
    ASSUME NEW p \in Plugins
    PROVE  /\ p \in Reached(p) /\ Reached(p) \in SUBSET Plugins
           /\ \A x \in Reached(p), y \in Plugins : Needs(x, y) /\ Registered(y) => y \in Reached(p)
  BY DEF Reached

LEMMA ReachedIsLeast ==
    ASSUME NEW p \in Plugins, NEW S \in SUBSET Plugins, p \in S,
           \A x \in S, y \in Plugins : Needs(x, y) /\ Registered(y) => y \in S
    PROVE  Reached(p) \subseteq S
  BY DEF Reached

\* An order to load p in: what p reaches, p last.
LEMMA OrderTyped ==
    ASSUME NEW p \in Plugins, NEW o \in LoadOrders(p)
    PROVE  /\ o \in SetToSeqs(Reached(p)) /\ o \in Seq(Plugins) /\ Len(o) \in Nat /\ Len(o) >= 1
           /\ DOMAIN o = 1 .. Len(o)
           /\ Front(o) \in Seq(Plugins) /\ DOMAIN Front(o) = 1 .. Len(o) - 1
           /\ \A i \in 1 .. Len(o) - 1 : Front(o)[i] = o[i]
<1>1. o \in SetToSeqs(Reached(p))
  BY DEF LoadOrders
<1>2. \A i \in DOMAIN o : o[i] \in Plugins
  BY <1>1, Enumerated, ReachedIsClosed
<1>3. o \in Seq(Plugins) /\ DOMAIN o = 1 .. Len(o) /\ Len(o) \in Nat
  BY <1>1, Enumerated, ReachedIsClosed
<1>4. Len(o) >= 1
  BY <1>1, <1>3, Enumerated, ReachedIsClosed
<1>5. /\ Front(o) \in Seq(Plugins) /\ Len(Front(o)) = Len(o) - 1
      /\ \A i \in 1 .. Len(o) - 1 : Front(o)[i] = o[i]
  <2>1. /\ SubSeq(o, 1, Len(o) - 1) \in Seq(Plugins)
        /\ Len(SubSeq(o, 1, Len(o) - 1)) = IF 1 <= Len(o) - 1 THEN Len(o) - 1 - 1 + 1 ELSE 0
        /\ \A i \in 1 .. Len(o) - 1 - 1 + 1 : SubSeq(o, 1, Len(o) - 1)[i] = o[1 + i - 1]
    BY <1>2, <1>3, <1>4, SubSeqProperties
  <2>2. \A i \in 1 .. Len(o) - 1 : i \in 1 .. Len(o) - 1 - 1 + 1 /\ 1 + i - 1 = i
    BY <1>3
  <2>3. (IF 1 <= Len(o) - 1 THEN Len(o) - 1 - 1 + 1 ELSE 0) = Len(o) - 1
    BY <1>3, <1>4
  <2> QED
    BY <2>1, <2>2, <2>3 DEF Front
<1>6. DOMAIN Front(o) = 1 .. Len(o) - 1
  BY <1>5, LenProperties
<1> QED
  BY <1>1, <1>3, <1>4, <1>5, <1>6

-----------------------------------------------------------------------------
(* Types of a step.                                                        *)

\* One step of any task keeps the types.
LEMMA Still ==
    ASSUME TypesInv
    PROVE  /\ instances \in Seq(Instances) /\ Len(instances) \in Nat
           /\ DOMAIN instances = 1 .. Len(instances)
           /\ registered \in [Plugins -> 0 .. Len(instances)]
           /\ \A p \in Plugins : registered[p] \in 0 .. MaxLoads
           /\ \A p \in Plugins : Registered(p) => registered[p] \in DOMAIN instances
           /\ current \in Tasks \cup {NoTask} /\ returned \in {"nothing", "ok", "failed"}
           /\ answer \in [Tasks -> [op : Operations, ok : BOOLEAN] \cup {NoAnswer}]
<1>1. /\ instances \in Seq(Instances) /\ Len(instances) \in Nat
      /\ DOMAIN instances = 1 .. Len(instances)
      /\ registered \in [Plugins -> 0 .. Len(instances)]
  BY LenProperties DEF TypesInv, TypeOK
<1>2. \A p \in Plugins : registered[p] \in 0 .. MaxLoads
  BY <1>1, PluginLifecycleAssumption DEF TypesInv
<1>3. \A p \in Plugins : Registered(p) => registered[p] \in DOMAIN instances
  BY <1>1 DEF Registered
<1> QED
  BY <1>1, <1>2, <1>3 DEF TypesInv, TypeOK

LEMMA ArrivalTyped == ASSUME TypesInv, NEW t \in Tasks, Arrival(t) PROVE TypesInv'
<1>1. ASSUME NEW p \in Plugins, Load(t, p) PROVE TypesInv'
  <2>1. /\ answer' \in [Tasks -> [op : Operations, ok : BOOLEAN] \cup {NoAnswer}]
        /\ UNCHANGED <<stack, returned, current>>
    BY <1>1, Still DEF Load
  <2>2. Typed'
    BY <2>1 DEF Typed, TypesInv, TypeOK
  <2>3. CASE UNCHANGED <<instances, registered>>
    BY <2>1, <2>2, <2>3, Still, RegistryTyped
  <2>4. CASE /\ ~Registered(p) /\ Len(instances) < MaxLoads
             /\ instances' = Append(instances, [plugin |-> p, state |-> "discovered",
                                                initialized |-> FALSE])
             /\ registered' = [registered EXCEPT ![p] = Len(instances) + 1]
    <3> DEFINE x == [plugin |-> p, state |-> "discovered", initialized |-> FALSE]
    <3>1. x \in Instances /\ x.plugin = p
      BY DEF Instances, States
    <3> HIDE DEF x
    <3>2. instances' = Append(instances, x)
      BY <2>4 DEF x
    <3>3. /\ instances' \in Seq(Instances) /\ Len(instances') = Len(instances) + 1
          /\ \A i \in 1 .. Len(instances) : instances'[i] = instances[i]
          /\ instances'[Len(instances) + 1] = x
      BY <3>1, <3>2, Still, AppendProperties
    <3>4. Len(instances') <= MaxLoads /\ registered' \in [Plugins -> 0 .. Len(instances')]
      BY <2>4, <3>3, Still, PluginLifecycleAssumption
    <3>5. \A q \in Plugins : registered'[q] # 0 => instances'[registered'[q]].plugin = q
      BY <2>4, <3>1, <3>3, Still DEF TypesInv, TypeOK
    <3> QED
      BY <2>1, <2>2, <3>3, <3>4, <3>5, Still DEF TypesInv, TypeOK, Typed
  <2> QED
    BY <1>1, <2>3, <2>4 DEF Load
<1>2. ASSUME NEW op \in Operations, NEW p \in Plugins \cup {NoPlugin}, Call(t, op, p),
             op # "shutdown" => p \in Plugins
      PROVE  TypesInv'
  <2>1. Frame(op, p) \in Frames /\ Formed(Frame(op, p))
    BY <1>2, PluginLifecycleAssumption, EmptySeq DEF Frame, Frames, Formed, Stands
  <2> DEFINE f == Frame(op, p)
  <2> HIDE DEF f
  <2>2. stack' = [stack EXCEPT ![t] = <<f>>] /\ stack \in [Tasks -> Seq(Frames)]
    BY <1>2 DEF Call, f, TypesInv, TypeOK
  <2>3. <<f>> \in Seq(Frames) /\ DOMAIN <<f>> = {1} /\ <<f>>[1] = f
    BY <2>1 DEF f
  <2>4. Typed'
    <3>1. stack' \in [Tasks -> Seq(Frames)]
      BY <2>2, <2>3
    <3>2. ASSUME NEW u \in Tasks, NEW i \in DOMAIN stack'[u]
          PROVE  Formed(stack'[u][i])
      <4>1. CASE u = t
        BY <1>2, <2>1, <2>2, <2>3, <3>2, <4>1 DEF f
      <4>2. CASE u # t
        BY <2>2, <3>2, <4>2 DEF TypesInv
      <4> QED
        BY <4>1, <4>2
    <3> QED
      BY <3>1, <3>2 DEF Typed
  <2>5. /\ answer' \in [Tasks -> [op : Operations, ok : BOOLEAN] \cup {NoAnswer}]
        /\ current' = t /\ UNCHANGED <<instances, registered, returned>>
    BY <1>2, Still DEF Call
  <2> QED
    BY <2>4, <2>5, Still, RegistryTyped
<1> QED
  BY <1>1, <1>2 DEF Arrival, Operations

LEMMA StateOfTyped == ASSUME NEW p PROVE Active(p) \in BOOLEAN /\ Registered(p) \in BOOLEAN
  BY DEF Active, Registered

-----------------------------------------------------------------------------
(* Busy activating.                                                        *)

\* Who is busy activating p.
Activates(f, p) == f.op = "activate" /\ f.plugin = p /\ f.pc # "enter"
Busy(p) == \E t \in Tasks : \E i \in DOMAIN stack[t] : Activates(stack[t][i], p)

LEMMA BusyBecomes ==
    ASSUME TypesInv, NEW t \in Tasks, stack[t] # <<>>,
           NEW pc \in Pcs, NEW id \in 0 .. MaxLoads, NEW rest \in Seq(Plugins),
           Become(t, pc, id, rest), Stands(Top(t).op, pc), pc # "enter"
    PROVE  \A p : Busy(p) \/ (Top(t).op = "activate" /\ p = Top(t).plugin) => Busy(p)'
<1>1. /\ Unmoved(t) /\ DOMAIN stack'[t] = DOMAIN stack[t] /\ 1 \in DOMAIN stack[t]
      /\ \A i \in DOMAIN stack[t] : i # 1 => stack'[t][i] = stack[t][i]
      /\ stack'[t][1] = FrameOf(Top(t), pc, id, rest)
  BY Becomes, TopFrame
<1>2. \A p : Activates(stack[t][1], p) => Activates(stack'[t][1], p)
  BY <1>1, TopFrame DEF Activates, FrameOf
<1>3. ASSUME NEW p, Busy(p) PROVE Busy(p)'
  <2>1. PICK u \in Tasks : \E i \in DOMAIN stack[u] : Activates(stack[u][i], p)
    BY <1>3 DEF Busy
  <2>2. PICK i \in DOMAIN stack[u] : Activates(stack[u][i], p)
    BY <2>1
  <2>3. i \in DOMAIN stack'[u] /\ Activates(stack'[u][i], p)
    BY <1>1, <1>2, <2>2 DEF Unmoved
  <2> QED
    BY <2>3 DEF Busy
<1>4. ASSUME Top(t).op = "activate", NEW p, p = Top(t).plugin PROVE Busy(p)'
  <2>1. Activates(stack'[t][1], p)
    BY <1>1, <1>4 DEF Activates, FrameOf
  <2> QED
    BY <1>1, <2>1 DEF Busy
<1> QED
  BY <1>3, <1>4

LEMMA BusyAwaited ==
    ASSUME TypesInv, NEW t \in Tasks, stack[t] # <<>>,
           NEW pc \in Pcs, NEW rest \in Seq(Plugins), NEW op \in Operations, NEW q \in Plugins,
           Await(t, pc, rest, op, q), Stands(Top(t).op, pc), pc # "enter"
    PROVE  \A p : Busy(p) => Busy(p)'
<1>1. /\ Unmoved(t) /\ DOMAIN stack'[t] = 1 .. Len(stack[t]) + 1
      /\ \A i \in 3 .. Len(stack[t]) + 1 : stack'[t][i] = stack[t][i - 1]
      /\ stack'[t][2] = FrameOf(Top(t), pc, Top(t).id, rest)
  BY Awaited
<1>2. /\ DOMAIN stack[t] = 1 .. Len(stack[t]) /\ Len(stack[t]) \in Nat /\ Len(stack[t]) >= 1
      /\ \A p : Activates(stack[t][1], p) => Activates(stack'[t][2], p)
  BY <1>1, TopFrame DEF Activates, FrameOf
<1>3. ASSUME NEW p, Busy(p) PROVE Busy(p)'
  <2>1. PICK u \in Tasks : \E i \in DOMAIN stack[u] : Activates(stack[u][i], p)
    BY <1>3 DEF Busy
  <2>2. PICK i \in DOMAIN stack[u] : Activates(stack[u][i], p)
    BY <2>1
  <2>3. CASE u # t
    <3>1. i \in DOMAIN stack'[u] /\ Activates(stack'[u][i], p)
      BY <1>1, <2>2, <2>3 DEF Unmoved
    <3> QED
      BY <3>1 DEF Busy
  <2>4. CASE u = t
    <3>1. i + 1 \in DOMAIN stack'[t] /\ i + 1 >= 2 /\ i \in 1 .. Len(stack[t])
      BY <1>1, <1>2, <2>4
    <3>2. Activates(stack'[t][i + 1], p)
      <4>1. CASE i = 1
        BY <1>2, <2>2, <2>4, <4>1
      <4>2. CASE i # 1
        <5>1. i + 1 \in 3 .. Len(stack[t]) + 1 /\ (i + 1) - 1 = i
          BY <1>2, <3>1, <4>2
        <5> QED
          BY <1>1, <2>2, <2>4, <5>1
      <4> QED
        BY <4>1, <4>2
    <3> QED
      BY <3>1, <3>2 DEF Busy
  <2> QED
    BY <2>3, <2>4
<1> QED
  BY <1>3

LEMMA BusyReturned ==
    ASSUME TypesInv, NEW t \in Tasks, stack[t] # <<>>, current \in {t, NoTask},
           NEW ok \in BOOLEAN, Return(t, ok)
    PROVE  \A p : Busy(p) => Busy(p)' \/ Activates(Top(t), p)
<1>1. /\ Unmoved(t) /\ DOMAIN stack'[t] = 1 .. Len(stack[t]) - 1
      /\ \A i \in 1 .. Len(stack[t]) - 1 : stack'[t][i] = stack[t][i + 1]
  BY Returned
<1>2. /\ DOMAIN stack[t] = 1 .. Len(stack[t]) /\ Len(stack[t]) \in Nat /\ Len(stack[t]) >= 1
      /\ Top(t) = stack[t][1]
  BY TopFrame
<1>3. ASSUME NEW p, Busy(p), ~Activates(Top(t), p) PROVE Busy(p)'
  <2>1. PICK u \in Tasks : \E i \in DOMAIN stack[u] : Activates(stack[u][i], p)
    BY <1>3 DEF Busy
  <2>2. PICK i \in DOMAIN stack[u] : Activates(stack[u][i], p)
    BY <2>1
  <2>3. CASE u # t
    <3>1. i \in DOMAIN stack'[u] /\ Activates(stack'[u][i], p)
      BY <1>1, <2>2, <2>3 DEF Unmoved
    <3> QED
      BY <3>1 DEF Busy
  <2>4. CASE u = t
    <3>1. i # 1 /\ i \in 1 .. Len(stack[t])
      BY <1>2, <1>3, <2>2, <2>4
    <3>2. i - 1 \in 1 .. Len(stack[t]) - 1 /\ (i - 1) + 1 = i
      BY <1>2, <3>1
    <3>3. i - 1 \in DOMAIN stack'[t] /\ Activates(stack'[t][i - 1], p)
      BY <1>1, <2>2, <2>4, <3>2
    <3> QED
      BY <3>3 DEF Busy
  <2> QED
    BY <2>3, <2>4
<1> QED
  BY <1>3

-----------------------------------------------------------------------------
(* Steps of any number of tasks.                                           *)

\* Types, and initializing plugins are attended.
Initializing(p) == Registered(p) /\ StateOf(p) = "initializing"
AttendedInv == TypesInv /\ \A p \in Plugins : Initializing(p) => Busy(p)

\* Writing states that are not initializing, of p or of none.
SameObjects ==
    /\ instances' \in Seq(Instances) /\ Len(instances') = Len(instances)
    /\ \A i \in DOMAIN instances : instances'[i].plugin = instances[i].plugin
SameStates(p) ==
    \A i \in DOMAIN instances :
        (p \in Plugins /\ Registered(p) => i # registered[p]) =>
            instances'[i].state = instances[i].state

OthersTyped ==
    /\ returned \in {"nothing", "ok", "failed"} /\ current \in Tasks \cup {NoTask}
    /\ answer \in [Tasks -> [op : Operations, ok : BOOLEAN] \cup {NoAnswer}]

LEMMA AttendedKept ==
    ASSUME AttendedInv, Typed', NEW p, SameObjects, SameStates(p),
           registered' \in [Plugins -> 0 .. Len(instances)],
           \A q \in Plugins : registered'[q] \in {0, registered[q]},
           OthersTyped',
           \A q \in Plugins : q # p /\ Busy(q) => Busy(q)',
           p \in Plugins /\ Initializing(p)' => Busy(p)'
    PROVE  AttendedInv'
<1>1. TypesInv /\ TypesInv'
  BY RegistryTyped DEF AttendedInv, SameObjects, OthersTyped
<1>2. ASSUME NEW q \in Plugins, q # p, Initializing(q)' PROVE Busy(q)'
  <2>1. registered'[q] = registered[q] /\ Registered(q)
    BY <1>2 DEF Initializing, Registered
  <2>2. registered[q] \in DOMAIN instances /\ instances[registered[q]].plugin = q
    BY <1>1, <2>1, Still DEF TypesInv, TypeOK, Registered
  <2>3. p \in Plugins /\ Registered(p) => registered[q] # registered[p]
    BY <1>1, <1>2, <2>2 DEF TypesInv, TypeOK, Registered
  <2>4. instances'[registered[q]].state = instances[registered[q]].state
    BY <2>2, <2>3 DEF SameStates
  <2>5. Initializing(q)
    BY <1>2, <2>1, <2>4 DEF Initializing, StateOf
  <2> QED
    BY <1>2, <2>5 DEF AttendedInv
<1> QED
  BY <1>1, <1>2 DEF AttendedInv

LEMMA AttendedSame ==
    ASSUME AttendedInv, Typed', OthersTyped', UNCHANGED <<instances, registered>>,
           \A q \in Plugins : Busy(q) /\ Initializing(q) => Busy(q)'
    PROVE  AttendedInv'
<1>1. TypesInv'
  BY Still, RegistryTyped DEF AttendedInv, OthersTyped
<1>2. ASSUME NEW q \in Plugins, Initializing(q)' PROVE Busy(q)'
  BY <1>2 DEF AttendedInv, Initializing, Registered, StateOf
<1> QED
  BY <1>1, <1>2 DEF AttendedInv

LEMMA StateKept ==
    ASSUME TypesInv, NEW p \in Plugins, NEW st \in States, instances' = SetState(p, st),
           registered' = registered
    PROVE  /\ SameObjects /\ SameStates(p)
           /\ Registered(p) => Registered(p)' /\ StateOf(p)' = st
<1>1. SameObjects /\ SameStates(p)
  BY StateWritten DEF SameObjects, SameStates
<1>2. Registered(p) => Registered(p)' /\ StateOf(p)' = st
  BY StateWritten, Still DEF StateOf, Registered
<1> QED
  BY <1>1, <1>2

LEMMA RunAttended == ASSUME AttendedInv, NEW t \in Tasks, Run(t) PROVE AttendedInv'
<1>0. TypesInv
  BY DEF AttendedInv
<1>1. PICK p : p = Top(t).plugin
  OBVIOUS
<1>2. current = t /\ stack[t] # <<>>
  BY DEF Run, EnterActivate, VisitDependency, DependencyActivated, DependencyFailed,
         StartInitialize, EnterDeactivate, EnterUnload, FinishUnload, EnterShutdown, VisitActive,
         Running
<1>3. /\ Top(t) \in Frames /\ Top(t).id \in 0 .. MaxLoads /\ Top(t).rest \in Seq(Plugins)
      /\ Top(t).op # "shutdown" => p \in Plugins
  BY <1>0, <1>1, <1>2, TopFrame DEF Frames
<1>4. /\ {"error", "initializing", "inactive", "active"} \subseteq States /\ {"activate", "deactivate"} \subseteq Operations
      /\ {"loop", "unload", "initialize", "cleanup"} \subseteq Pcs /\ <<>> \in Seq(Plugins) /\ 0 \in 0 .. MaxLoads
  BY EmptySeq, PluginLifecycleAssumption DEF States, Operations, Pcs
<1>5. OthersTyped
  BY <1>0, Still DEF OthersTyped
<1>s. /\ Top(t).op = "activate" => Stands(Top(t).op, "loop") /\ Stands(Top(t).op, "initialize")
      /\ Top(t).op = "deactivate" => Stands(Top(t).op, "cleanup")
      /\ Top(t).op \in {"unload", "reload"} => Stands(Top(t).op, "unload")
      /\ Top(t).op = "shutdown" => Stands(Top(t).op, "loop")
  BY DEF Stands
\* The moves.
<1>6. ASSUME NEW pc \in Pcs, NEW id \in 0 .. MaxLoads, NEW rest \in Seq(Plugins),
             pc # "enter", Stands(Top(t).op, pc), Goto(t, pc, id, rest)
      PROVE  Typed' /\ OthersTyped'
             /\ \A q : Busy(q) \/ (Top(t).op = "activate" /\ q = Top(t).plugin) => Busy(q)'
  BY <1>0, <1>2, <1>5, <1>6, Becomes, BusyBecomes DEF Goto, OthersTyped
<1>7. ASSUME NEW pc \in Pcs, NEW rest \in Seq(Plugins), NEW op \in Operations, NEW q \in Plugins,
             pc # "enter", Stands(Top(t).op, pc), Await(t, pc, rest, op, q)
      PROVE  Typed' /\ OthersTyped' /\ \A r : Busy(r) => Busy(r)'
  BY <1>0, <1>2, <1>5, <1>7, Awaited, BusyAwaited DEF Await, OthersTyped
<1>8. ASSUME NEW ok \in BOOLEAN, Return(t, ok)
      PROVE  Typed' /\ OthersTyped' /\ \A r : Busy(r) => Busy(r)' \/ Activates(Top(t), r)
  BY <1>0, <1>2, <1>8, Returned, BusyReturned DEF OthersTyped
<1>9. ASSUME NEW pc \in Pcs, NEW id \in 0 .. MaxLoads, pc # "enter", Stands(Top(t).op, pc),
             Suspend(t, pc, id)
      PROVE  Typed' /\ OthersTyped'
             /\ \A q : Busy(q) \/ (Top(t).op = "activate" /\ q = Top(t).plugin) => Busy(q)'
  BY <1>0, <1>2, <1>4, <1>5, <1>9, Becomes, BusyBecomes DEF Suspend, OthersTyped
<1>10. \A st \in States, q \in Plugins :
         instances' = SetState(q, st) /\ registered' = registered =>
           /\ SameObjects /\ SameStates(q)
           /\ Registered(q) => Registered(q)' /\ StateOf(q)' = st
  BY <1>0, StateKept
<1>11. registered' = registered =>
         /\ registered' \in [Plugins -> 0 .. Len(instances)]
         /\ \A q \in Plugins : registered'[q] \in {0, registered[q]}
  BY <1>0, Still
<1>12. CASE EnterActivate(t)
  <2>1. p \in Plugins /\ registered' = registered /\ Top(t).pc = "enter" /\ Top(t).op = "activate"
    BY <1>3, <1>12 DEF EnterActivate, Running
  <2>2. CASE (~Registered(p) \/ Active(p)) /\ Return(t, Active(p)) /\ UNCHANGED instances
    <3>1. ~Initializing(p) /\ Active(p) \in BOOLEAN
      BY <2>2 DEF Initializing, Active, Registered
    <3>2. \A q : ~Activates(Top(t), q)
      BY <2>1 DEF Activates
    <3> QED
      BY <1>8, <2>1, <2>2, <3>1, <3>2, AttendedSame
  <2>3. CASE Registered(p) /\ instances' = SetState(p, "error") /\ Return(t, FALSE)
    <3>1. SameObjects /\ SameStates(p) /\ StateOf(p)' = "error"
      BY <1>4, <1>10, <2>1, <2>3
    <3>2. \A q : ~Activates(Top(t), q)
      BY <2>1 DEF Activates
    <3>3. ~Initializing(p)'
      BY <3>1 DEF Initializing
    <3> QED
      BY <1>8, <1>11, <2>1, <2>3, <3>1, <3>2, <3>3, AttendedKept
  <2>4. ASSUME NEW order \in LoadOrders(p), Registered(p), instances' = SetState(p, "initializing"),
               Goto(t, "loop", registered[p], Front(order))
        PROVE  AttendedInv'
    <3>1. SameObjects /\ SameStates(p)
      BY <1>4, <1>10, <2>1, <2>4
    <3>2. Front(order) \in Seq(Plugins) /\ registered[p] \in 0 .. MaxLoads
      BY <1>0, <2>1, Still, OrderTyped
    <3>3. Typed' /\ OthersTyped' /\ \A q : Busy(q) \/ q = p => Busy(q)'
      BY <1>s, <1>1, <1>4, <1>6, <2>1, <2>4, <3>2
    <3> QED
      BY <1>11, <2>1, <3>1, <3>3, AttendedKept
  <2> QED
    BY <1>1, <1>12, <2>2, <2>3, <2>4 DEF EnterActivate
<1>13. CASE VisitDependency(t)
  <2>1. Top(t).rest # <<>> /\ UNCHANGED <<instances, registered>>
    BY <1>13 DEF VisitDependency
  <2>2. Head(Top(t).rest) \in Plugins /\ Tail(Top(t).rest) \in Seq(Plugins)
    BY <1>3, <2>1, HeadTailProperties
  <2>3. Typed' /\ OthersTyped' /\ \A r : Busy(r) => Busy(r)'
    BY <1>s, <1>3, <1>4, <1>6, <1>7, <1>13, <2>2 DEF VisitDependency, Running
  <2> QED
    BY <2>1, <2>3, AttendedSame
<1>14. CASE DependencyActivated(t)
  <2>1. Typed' /\ OthersTyped' /\ \A r : Busy(r) => Busy(r)'
    BY <1>s, <1>3, <1>4, <1>6, <1>14 DEF DependencyActivated, Running
  <2> QED
    BY <1>14, <2>1, AttendedSame DEF DependencyActivated
<1>15. CASE DependencyFailed(t)
  <2>1. /\ p \in Plugins /\ registered' = registered /\ Return(t, FALSE)
        /\ instances' = SetState(p, "error")
    BY <1>1, <1>3, <1>15 DEF DependencyFailed, Running
  <2>2. SameObjects /\ SameStates(p) /\ (Registered(p) => StateOf(p)' = "error")
    BY <1>4, <1>10, <2>1
  <2>3. ~Initializing(p)'
    BY <2>1, <2>2 DEF Initializing, Registered
  <2>4. \A q : Activates(Top(t), q) => q = p
    BY <1>1 DEF Activates
  <2> QED
    BY <1>8, <1>11, <2>1, <2>2, <2>3, <2>4, AttendedKept
<1>16. CASE StartInitialize(t)
  <2>1. Typed' /\ OthersTyped' /\ \A r : Busy(r) => Busy(r)'
    BY <1>s, <1>3, <1>4, <1>9, <1>16 DEF StartInitialize, Running
  <2> QED
    BY <1>16, <2>1, AttendedSame DEF StartInitialize
<1>17. CASE EnterDeactivate(t)
  <2>1. p \in Plugins /\ registered' = registered /\ Top(t).op = "deactivate"
    BY <1>3, <1>17 DEF EnterDeactivate, Running
  <2>2. \A q : ~Activates(Top(t), q)
    BY <2>1 DEF Activates
  <2>3. CASE UNCHANGED instances /\ \E ok \in BOOLEAN : Return(t, ok)
    BY <1>8, <2>1, <2>2, <2>3, AttendedSame
  <2>4. CASE Active(p) /\ instances' = SetState(p, "inactive") /\ Suspend(t, "cleanup", registered[p])
    <3>1. SameObjects /\ SameStates(p) /\ StateOf(p)' = "inactive"
      BY <1>4, <1>10, <2>1, <2>4 DEF Active
    <3>2. ~Initializing(p)' /\ registered[p] \in 0 .. MaxLoads
      BY <1>0, <2>1, <3>1, Still DEF Initializing
    <3> QED
      BY <1>s, <1>4, <1>9, <1>11, <2>1, <2>4, <3>1, <3>2, AttendedKept
  <2> QED
    BY <1>1, <1>17, <2>3, <2>4, StateOfTyped DEF EnterDeactivate
<1>18. CASE EnterUnload(t)
  <2>1. /\ p \in Plugins /\ UNCHANGED <<instances, registered>>
        /\ Stands(Top(t).op, "unload")
    BY <1>s, <1>3, <1>18 DEF EnterUnload, Running
  <2>2. CASE Await(t, "unload", <<>>, "deactivate", p)
    BY <1>4, <1>7, <2>1, <2>2, AttendedSame
  <2>3. CASE Become(t, "unload", 0, <<>>) /\ returned' = "ok" /\ UNCHANGED <<current, answer>>
    <3>1. Typed' /\ OthersTyped' /\ \A r : Busy(r) => Busy(r)'
      BY <1>0, <1>2, <1>4, <1>5, <2>1, <2>3, Becomes, BusyBecomes DEF OthersTyped
    <3> QED
      BY <2>1, <3>1, AttendedSame
  <2> QED
    BY <1>1, <1>18, <2>2, <2>3 DEF EnterUnload
<1>19. CASE FinishUnload(t)
  <2>1. /\ p \in Plugins /\ Top(t).op # "activate" /\ UNCHANGED instances
        /\ registered' = registered \/ registered' = [registered EXCEPT ![p] = 0]
        /\ \E ok \in BOOLEAN : Return(t, ok)
    BY <1>1, <1>3, <1>19 DEF FinishUnload, Running
  <2>2. \A q : ~Activates(Top(t), q)
    BY <2>1 DEF Activates
  <2>3. Typed' /\ OthersTyped' /\ \A r : Busy(r) => Busy(r)'
    BY <1>8, <2>1, <2>2
  <2>4. CASE registered' = registered
    BY <2>1, <2>3, <2>4, AttendedSame
  <2>5. CASE registered' = [registered EXCEPT ![p] = 0]
    <3>1. SameObjects /\ SameStates(p)
      BY <1>0, <2>1, Still DEF SameObjects, SameStates
    <3>2. /\ registered' \in [Plugins -> 0 .. Len(instances)]
          /\ \A q \in Plugins : registered'[q] \in {0, registered[q]}
          /\ registered'[p] = 0
      BY <1>0, <2>1, <2>5, Still
    <3>3. ~Initializing(p)'
      BY <3>2 DEF Initializing, Registered
    <3> QED
      BY <2>3, <3>1, <3>2, <3>3, AttendedKept
  <2> QED
    BY <2>1, <2>4, <2>5
<1>20. CASE EnterShutdown(t)
  <2> DEFINE active == {q \in Plugins : Active(q)}
  <2>1. PICK order \in SetToSeqs(active) : Goto(t, "loop", 0, order)
    BY <1>20 DEF EnterShutdown
  <2>2. order \in Seq(Plugins)
    BY Enumerated
  <2>3. Typed' /\ OthersTyped' /\ \A r : Busy(r) => Busy(r)'
    BY <1>s, <1>4, <1>6, <1>20, <2>1, <2>2 DEF EnterShutdown, Running
  <2> QED
    BY <1>20, <2>3, AttendedSame DEF EnterShutdown
<1>21. CASE VisitActive(t)
  <2>1. Top(t).op = "shutdown" /\ UNCHANGED <<instances, registered>>
    BY <1>21 DEF VisitActive, Running
  <2>2. \A q : ~Activates(Top(t), q)
    BY <2>1 DEF Activates
  <2>3. CASE Return(t, TRUE)
    BY <1>8, <2>1, <2>2, <2>3, AttendedSame
  <2>4. CASE Top(t).rest # <<>> /\ Await(t, "loop", Tail(Top(t).rest), "deactivate", Head(Top(t).rest))
    <3>1. Head(Top(t).rest) \in Plugins /\ Tail(Top(t).rest) \in Seq(Plugins)
      BY <1>3, <2>4, HeadTailProperties
    <3> QED
      BY <1>s, <1>4, <1>7, <2>1, <2>4, <3>1, AttendedSame
  <2> QED
    BY <1>21, <2>3, <2>4 DEF VisitActive
<1> QED
  BY <1>12, <1>13, <1>14, <1>15, <1>16, <1>17, <1>18, <1>19, <1>20, <1>21 DEF Run

LEMMA ResumeAttended == ASSUME AttendedInv, NEW t \in Tasks, Resume(t) PROVE AttendedInv'
<1>0. TypesInv
  BY DEF AttendedInv
<1>1. PICK p : p = Top(t).plugin
  OBVIOUS
<1>2. current = NoTask /\ stack[t] # <<>>
  BY DEF Resume, FinishInitialize, FinishCleanup, Resumed
<1>3. OthersTyped /\ {"error", "active"} \subseteq States
  BY <1>0, Still DEF OthersTyped, States
<1>4. ASSUME NEW ok \in BOOLEAN, Return(t, ok)
      PROVE  Typed' /\ OthersTyped' /\ \A r : Busy(r) => Busy(r)' \/ Activates(Top(t), r)
  BY <1>0, <1>2, <1>3, <1>4, Returned, BusyReturned DEF OthersTyped
<1>5. /\ registered \in [Plugins -> 0 .. Len(instances)]
      /\ \A q \in Plugins : registered[q] \in {0, registered[q]}
      /\ instances \in Seq(Instances)
  BY <1>0, Still
<1>6. \A q : Activates(Top(t), q) => q = p
  BY <1>1 DEF Activates
\* The state is written by name, if the plugin is one.
<1>7. ASSUME NEW st \in {"error", "active"}, p \in Plugins
      PROVE  LET new == SetState(p, st)
             IN  /\ new \in Seq(Instances) /\ Len(new) = Len(instances) /\ DOMAIN new = DOMAIN instances
                 /\ \A i \in DOMAIN instances :
                      /\ new[i].plugin = instances[i].plugin
                      /\ new[i].state = IF Registered(p) /\ i = registered[p] THEN st
                                        ELSE instances[i].state
  <2>1. st \in States
    BY <1>3
  <2> QED
    BY <1>0, <1>7, <2>1, StateWritten
<1>8. CASE FinishInitialize(t)
  <2>0. p \in Plugins
    BY <1>0, <1>1, <1>2, <1>8, TopFrame DEF FinishInitialize, Resumed, Stands
  <2>1. registered' = registered /\ \E ok \in BOOLEAN : Return(t, ok)
    BY <1>8 DEF FinishInitialize
  <2>2. \E st \in {"error", "active"} :
          \/ instances' = SetState(p, st)
          \/ instances' = [SetState(p, st) EXCEPT ![Top(t).id].initialized = TRUE]
    BY <1>1, <1>8 DEF FinishInitialize
  <2>3. PICK st \in {"error", "active"} :
          /\ instances' \in Seq(Instances) /\ Len(instances') = Len(instances)
          /\ \A i \in DOMAIN instances :
               /\ instances'[i].plugin = instances[i].plugin
               /\ instances'[i].state = IF Registered(p) /\ i = registered[p] THEN st
                                        ELSE instances[i].state
    <3>1. PICK st \in {"error", "active"} :
            \/ instances' = SetState(p, st)
            \/ instances' = [SetState(p, st) EXCEPT ![Top(t).id].initialized = TRUE]
      BY <2>2
    <3> DEFINE new == SetState(p, st)
    <3>2. /\ new \in Seq(Instances) /\ Len(new) = Len(instances) /\ DOMAIN new = DOMAIN instances
          /\ \A i \in DOMAIN instances :
               /\ new[i].plugin = instances[i].plugin
               /\ new[i].state = IF Registered(p) /\ i = registered[p] THEN st
                                 ELSE instances[i].state
      BY <1>7, <2>0
    <3> HIDE DEF new
    <3>3. CASE instances' = new
      BY <3>2, <3>3
    <3>4. CASE instances' = [new EXCEPT ![Top(t).id].initialized = TRUE]
      <4>1. /\ instances' \in Seq(Instances) /\ Len(instances') = Len(new)
            /\ \A i \in DOMAIN new : /\ instances'[i].plugin = new[i].plugin
                                      /\ instances'[i].state = new[i].state
        BY ZenonT(60), <3>2, <3>4, InitializedWritten
      <4> QED
        BY <3>2, <4>1
    <3> QED
      BY <3>1, <3>3, <3>4 DEF new
  <2>4. SameObjects /\ SameStates(p)
    BY <2>0, <2>3 DEF SameObjects, SameStates
  <2>5. Registered(p) => registered[p] \in DOMAIN instances
    BY <1>0, <2>0, Still
  <2>6. ~Initializing(p)'
    BY <2>1, <2>3, <2>5 DEF Initializing, Registered, StateOf
  <2> QED
    BY <1>4, <1>5, <1>6, <2>1, <2>4, <2>6, AttendedKept
<1>9. CASE FinishCleanup(t)
  <2>1. registered' = registered /\ \E ok \in BOOLEAN : Return(t, ok)
    BY <1>9 DEF FinishCleanup
  <2>2. instances' = instances \/ instances' = [instances EXCEPT ![Top(t).id].initialized = FALSE]
    BY <1>9 DEF FinishCleanup
  <2>3. /\ instances' \in Seq(Instances) /\ Len(instances') = Len(instances)
        /\ \A i \in DOMAIN instances : /\ instances'[i].plugin = instances[i].plugin
                                       /\ instances'[i].state = instances[i].state
    <3>1. CASE instances' = instances
      BY <1>5, <3>1
    <3>2. CASE instances' = [instances EXCEPT ![Top(t).id].initialized = FALSE]
      BY ZenonT(60), <1>5, <3>2, InitializedWritten
    <3> QED
      BY <2>2, <3>1, <3>2
  <2>4. SameObjects /\ SameStates(p)
    BY <2>3 DEF SameObjects, SameStates
  <2>5. \A q : ~Activates(Top(t), q)
    BY <1>0, <1>2, <1>9, TopFrame DEF Activates, FinishCleanup, Resumed, Stands
  <2>6. p \in Plugins
    BY <1>0, <1>1, <1>2, <1>9, TopFrame DEF FinishCleanup, Resumed, Stands
  <2>7. Initializing(p)' => Initializing(p)
    BY <1>0, <2>1, <2>3, <2>6, Still DEF Initializing, Registered, StateOf
  <2>8. \A q \in Plugins : Busy(q) => Busy(q)'
    BY <1>4, <2>1, <2>5
  <2>9. Initializing(p)' => Busy(p)'
    BY <2>6, <2>7, <2>8 DEF AttendedInv
  <2> QED
    BY <1>4, <1>5, <2>1, <2>4, <2>8, <2>9, AttendedKept
<1> QED
  BY <1>8, <1>9 DEF Resume

LEMMA ArrivalAttended == ASSUME AttendedInv, NEW t \in Tasks, Arrival(t) PROVE AttendedInv'
<1>1. TypesInv /\ TypesInv'
  BY ArrivalTyped DEF AttendedInv
\* A task that was idle is busy with nothing.
<1>2. \A q : Busy(q) => Busy(q)'
  <2>1. DOMAIN stack[t] = {} /\ \A u \in Tasks : u # t => stack'[u] = stack[u]
    <3>1. stack[t] = <<>>
      BY DEF Arrival, Load, Call, Idle
    <3>2. stack' = stack \/ \E s : stack' = [stack EXCEPT ![t] = s]
      BY DEF Arrival, Load, Call
    <3>3. stack \in [Tasks -> Seq(Frames)]
      BY <1>1 DEF TypesInv, TypeOK
    <3>4. \A u \in Tasks : u # t => stack'[u] = stack[u]
      BY <3>2, <3>3
    <3> QED
      BY <3>1, <3>4
  <2> QED
    BY <2>1 DEF Busy
<1>3. CASE UNCHANGED <<instances, registered>>
  BY <1>1, <1>2, <1>3 DEF AttendedInv, Initializing, Registered, StateOf
<1>4. ASSUME NEW p \in Plugins, ~Registered(p),
             instances' = Append(instances, [plugin |-> p, state |-> "discovered",
                                             initialized |-> FALSE]),
             registered' = [registered EXCEPT ![p] = Len(instances) + 1]
      PROVE  AttendedInv'
  <2> DEFINE x == [plugin |-> p, state |-> "discovered", initialized |-> FALSE]
  <2>1. x \in Instances /\ x.state = "discovered"
    BY DEF Instances, States
  <2> HIDE DEF x
  <2>2. instances' = Append(instances, x)
    BY <1>4 DEF x
  <2>3. /\ \A i \in 1 .. Len(instances) : instances'[i] = instances[i]
        /\ instances'[Len(instances) + 1] = x
    BY <1>1, <2>1, <2>2, Still, AppendProperties
  <2>4. ASSUME NEW q \in Plugins, Initializing(q)' PROVE Busy(q)'
    <3>1. q # p
      BY <1>1, <1>4, <2>1, <2>3, <2>4, Still DEF Initializing, StateOf
    <3>2. registered'[q] = registered[q] /\ Registered(q)
      BY <1>1, <1>4, <2>4, <3>1, Still DEF Initializing, Registered
    <3>3. Initializing(q)
      BY <1>1, <2>3, <2>4, <3>2, Still DEF Initializing, StateOf
    <3> QED
      BY <1>2, <3>3 DEF AttendedInv
  <2> QED
    BY <1>1, <2>4 DEF AttendedInv
<1> QED
  BY <1>3, <1>4 DEF Arrival, Load, Call

LEMMA InitAttended == ASSUME Init PROVE AttendedInv
<1>1. TypeOK
  BY EmptySeq DEF Init, TypeOK
<1>2. Len(instances) <= MaxLoads
  BY EmptySeq, PluginLifecycleAssumption DEF Init
<1>3. \A t \in Tasks : DOMAIN stack[t] = {}
  BY DEF Init
<1>4. \A p \in Plugins : ~Registered(p)
  BY DEF Init, Registered
<1> QED
  BY <1>1, <1>2, <1>3, <1>4 DEF AttendedInv, TypesInv, Initializing

LEMMA NextAttended == ASSUME AttendedInv, [Next]_vars PROVE AttendedInv'
<1>1. CASE Next
  BY <1>1, ArrivalAttended, RunAttended, ResumeAttended DEF Next
<1>2. CASE UNCHANGED vars
  BY <1>2 DEF vars, AttendedInv, TypesInv, TypeOK, Initializing, Registered, StateOf, Busy
<1> QED
  BY <1>1, <1>2

\* The inductive invariant of any number of tasks: types, the form of every
\* frame, and whoever is initializing is attended (manager.py:205-258).
THEOREM LifecycleTyped == Spec => []AttendedInv
  BY InitAttended, NextAttended, PTL DEF Spec

\* Whatever fails and however tasks interleave, no plugin is left in
\* INITIALIZING without a task that is busy activating it
\* (manager.py:213-258).
THEOREM InitializingAttended == Spec => []InitializingIsAttended
<1>1. AttendedInv => InitializingIsAttended
  BY Still DEF AttendedInv, Initializing, Busy, Activates, InitializingIsAttended
<1> QED
  BY <1>1, LifecycleTyped, PTL

\* Every variable has its type, and a name is registered for an object of
\* that name (registry.py).
THEOREM TypeCorrect == Spec => []TypeOK
<1>1. AttendedInv => TypeOK
  BY DEF AttendedInv, TypesInv
<1> QED
  BY <1>1, LifecycleTyped, PTL
-----------------------------------------------------------------------------
(* A single task.                                                          *)

Alone == \A s, t \in Tasks : s = t

\* The names of the registry, by state, and who goes up before whom.
InState(st) == {p \in Plugins : Registered(p) /\ StateOf(p) = st}
Known == {p \in Plugins : Registered(p)}
Before == {b \in Plugins \X Plugins : b[1] \in Reached(b[2]) /\ b[2] \notin Reached(b[1])}

Starts(f) == f.op = "activate" /\ f.pc # "enter"

\* Activations wait for those of plugins that go up before, other operations
\* for a deactivation.
Nested(t) ==
    \A i, j \in DOMAIN stack[t] : i < j =>
        IF stack[t][j].op = "activate"
        THEN /\ stack[t][i].op = "activate" /\ stack[t][j].pc = "loop"
             /\ <<stack[t][i].plugin, stack[t][j].plugin>> \in Before
        ELSE /\ stack[t][i].op = "deactivate" /\ stack[t][j].op # "deactivate"
             /\ stack[t][j].pc # "enter"
             /\ stack[t][j].op # "shutdown" => stack[t][i].plugin = stack[t][j].plugin

\* The plugin of an activation is initializing, it is the one fetched at the
\* start, what it requires is registered, and its loop goes over plugins that
\* go up before it.
Starting(t) ==
    \A i \in DOMAIN stack[t] : Starts(stack[t][i]) =>
        /\ stack[t][i].plugin \in InState("initializing")
        /\ stack[t][i].id = registered[stack[t][i].plugin]
        /\ \A q \in Plugins : <<stack[t][i].plugin, q>> \in Requires => q \in Known
        /\ \A k \in DOMAIN stack[t][i].rest : <<stack[t][i].rest[k], stack[t][i].plugin>> \in Before
        /\ stack[t][i].pc = "initialize" => stack[t][i].rest = <<>>

\* What a plugin needs is up, or its turn is still to come, or is now, or it
\* has just failed.
NeedsMet(t) ==
    \A i \in DOMAIN stack[t] : Starts(stack[t][i]) =>
        \A q \in Known : Needs(stack[t][i].plugin, q) =>
            \/ q \in InState("active")
            \/ \E k \in DOMAIN stack[t][i].rest : stack[t][i].rest[k] = q
            \/ i > 1 /\ stack[t][i - 1].plugin = q
            \/ i = 1 /\ stack[t][i].pc = "loop" /\ returned = "failed"

\* A plugin that cleans up is inactive, as is one that is to be unloaded.
Stopping(t) ==
    stack[t] # <<>> =>
        /\ Top(t).pc = "cleanup" =>
             Top(t).plugin \in InState("inactive") /\ Top(t).id = registered[Top(t).plugin]
        /\ Top(t).pc = "unload" /\ returned = "ok" => Top(t).plugin \notin InState("active")

StackInv(t) == Nested(t) /\ Starting(t) /\ NeedsMet(t) /\ Stopping(t)
SingleInv == AttendedInv /\ \A t \in Tasks : StackInv(t)

-----------------------------------------------------------------------------
(* The order of the plugins.                                               *)

\* Who goes up before whom.
LEMMA BeforeKept ==
    ASSUME registered' = registered
    PROVE  Before' = Before /\ Known' = Known
<1>1. \A p : Reached(p)' = Reached(p)
  BY DEF Reached, Registered
<1> QED
  BY <1>1 DEF Before, Known, Registered

LEMMA BeforeOrders ==
    /\ \A p : <<p, p>> \notin Before
    /\ \A p, q, r : <<r, q>> \in Before /\ <<q, p>> \in Before => <<r, p>> \in Before
<1>1. ASSUME NEW p \in Plugins, NEW q \in Reached(p) PROVE Reached(q) \subseteq Reached(p)
  <2>1. /\ q \in Plugins /\ Reached(p) \in SUBSET Plugins
        /\ \A x \in Reached(p), y \in Plugins : Needs(x, y) /\ Registered(y) => y \in Reached(p)
    BY <1>1, ReachedIsClosed
  <2> QED
    BY <1>1, <2>1, ReachedIsLeast
<1>2. \A p : <<p, p>> \notin Before
  BY ReachedIsClosed DEF Before
<1>3. ASSUME NEW p, NEW q, NEW r, <<r, q>> \in Before, <<q, p>> \in Before
      PROVE  <<r, p>> \in Before
  <2>1. /\ p \in Plugins /\ q \in Plugins /\ r \in Plugins
        /\ r \in Reached(q) /\ q \in Reached(p) /\ p \notin Reached(q)
    BY <1>3 DEF Before
  <2>2. Reached(q) \subseteq Reached(p) /\ Reached(r) \subseteq Reached(q)
    BY <1>1, <2>1
  <2> QED
    BY <2>1, <2>2 DEF Before
<1> QED
  BY <1>2, <1>3

LEMMA OrderBefore ==
    ASSUME TypesInv, NEW p \in Plugins, NEW o \in LoadOrders(p)
    PROVE  /\ \A k \in DOMAIN Front(o) : <<Front(o)[k], p>> \in Before
           /\ \A q \in Known : Needs(p, q) => \E k \in DOMAIN Front(o) : Front(o)[k] = q
           /\ \A q \in Plugins : <<p, q>> \in Requires => q \in Known
<1>1. /\ o \in SetToSeqs(Reached(p)) /\ DOMAIN o = 1 .. Len(o) /\ Len(o) \in Nat /\ Len(o) >= 1
      /\ DOMAIN Front(o) = 1 .. Len(o) - 1
      /\ \A i \in 1 .. Len(o) - 1 : Front(o)[i] = o[i]
  BY OrderTyped
<1>2. /\ p \in Reached(p) /\ Reached(p) \in SUBSET Plugins
      /\ \A x \in Reached(p), y \in Plugins : Needs(x, y) /\ Registered(y) => y \in Reached(p)
  BY ReachedIsClosed
<1>3. /\ \A i \in 1 .. Len(o) : o[i] \in Reached(p)
      /\ \A i, j \in 1 .. Len(o) : o[i] = o[j] => i = j
      /\ \A x \in Reached(p) : \E i \in 1 .. Len(o) : o[i] = x
  BY <1>1, <1>2, Enumerated
<1>4. \A i, j \in 1 .. Len(o) : Needs(o[i], o[j]) => j < i
  BY <1>1 DEF LoadOrders
<1>5. \A q \in Plugins : <<p, q>> \in Requires => q \in Known
  BY <1>2 DEF LoadOrders, Known
\* What the first i reach is among the first i.
<1>6. ASSUME NEW i \in 1 .. Len(o) PROVE Reached(o[i]) \subseteq {o[k] : k \in 1 .. i}
  <2> DEFINE S == {o[k] : k \in 1 .. i}
  <2>1. S \in SUBSET Plugins /\ o[i] \in S /\ o[i] \in Plugins
    BY <1>1, <1>2, <1>3
  <2>2. ASSUME NEW x \in S, NEW y \in Plugins, Needs(x, y), Registered(y) PROVE y \in S
    <3>1. PICK k \in 1 .. i : x = o[k]
      BY <2>2
    <3>2. k \in 1 .. Len(o) /\ x \in Reached(p)
      BY <1>1, <1>3, <3>1
    <3>3. PICK m \in 1 .. Len(o) : o[m] = y
      BY <1>2, <1>3, <2>2, <3>2
    <3>4. m < k
      BY <1>4, <2>2, <3>1, <3>2, <3>3
    <3>5. m \in 1 .. i
      BY <1>1, <3>1, <3>3, <3>4
    <3> QED
      BY <3>3, <3>5
  <2> HIDE DEF S
  <2>3. Reached(o[i]) \subseteq S
    BY <2>1, <2>2, ReachedIsLeast
  <2> QED
    BY <2>3 DEF S
<1>7. o[Len(o)] = p
  <2>1. PICK m \in 1 .. Len(o) : o[m] = p
    BY <1>2, <1>3
  <2>2. o[Len(o)] \in Reached(o[m])
    BY <1>1, <1>3, <2>1
  <2>3. PICK k \in 1 .. m : o[Len(o)] = o[k]
    BY <1>6, <2>1, <2>2
  <2>4. k \in 1 .. Len(o) /\ Len(o) \in 1 .. Len(o) /\ k <= m /\ m <= Len(o) /\ m \in Nat
    BY <1>1, <2>1, <2>3
  <2>5. k = Len(o)
    BY <1>3, <2>3, <2>4
  <2>6. m = Len(o)
    BY ONLY <2>4, <2>5, <1>1, SMT
  <2> QED
    BY <2>1, <2>6
<1>8. ASSUME NEW k \in DOMAIN Front(o) PROVE <<Front(o)[k], p>> \in Before
  <2>1. k \in 1 .. Len(o) /\ k # Len(o) /\ k < Len(o) /\ Front(o)[k] = o[k]
    BY <1>1, <1>8
  <2>2. o[k] \in Reached(p) /\ o[k] \in Plugins
    BY <1>2, <1>3, <2>1
  <2>3. ASSUME p \in Reached(o[k]) PROVE FALSE
    <3>1. PICK j \in 1 .. k : o[Len(o)] = o[j]
      BY <1>6, <1>7, <2>1, <2>3
    <3>2. j \in 1 .. Len(o) /\ Len(o) \in 1 .. Len(o)
      BY <1>1, <2>1, <3>1
    <3>3. j = Len(o)
      BY <1>3, <3>1, <3>2
    <3> QED
      BY <1>1, <2>1, <3>1, <3>3
  <2> QED
    BY <2>1, <2>2, <2>3 DEF Before
<1>9. ASSUME NEW q \in Known, Needs(p, q) PROVE \E k \in DOMAIN Front(o) : Front(o)[k] = q
  <2>1. q \in Reached(p)
    BY <1>2, <1>9 DEF Known
  <2>2. PICK k \in 1 .. Len(o) : o[k] = q
    BY <1>3, <2>1
  <2>3. k < Len(o)
    BY <1>1, <1>4, <1>7, <1>9, <2>2
  <2>4. k \in DOMAIN Front(o) /\ Front(o)[k] = q
    BY <1>1, <2>2, <2>3
  <2> QED
    BY <2>4
<1> QED
  BY <1>5, <1>8, <1>9

\* States, written by name.
LEMMA InStateWritten ==
    ASSUME TypesInv, NEW p \in Plugins, Registered(p), NEW st,
           \A i \in DOMAIN instances :
               instances'[i].state = IF i = registered[p] THEN st ELSE instances[i].state,
           registered' = registered
    PROVE  \A s : InState(s)' = IF s = st THEN InState(s) \cup {p} ELSE InState(s) \ {p}
<1>1. ASSUME NEW q \in Plugins, Registered(q)
      PROVE  StateOf(q)' = IF q = p THEN st ELSE StateOf(q)
  <2>1. registered[q] \in DOMAIN instances /\ registered[p] \in DOMAIN instances
    BY <1>1, Still
  <2>2. registered[q] = registered[p] => q = p
    BY <1>1 DEF TypesInv, TypeOK, Registered
  <2> QED
    BY <2>1, <2>2 DEF StateOf
<1> QED
  BY <1>1 DEF InState, Registered

-----------------------------------------------------------------------------
(* Steps of a single task.                                                 *)

\* The moves of a task that is alone.
LEMMA AllAlike ==
    ASSUME TypesInv, NEW t \in Tasks, stack[t] # <<>>, Nested(t)
    PROVE  /\ Top(t).op = "activate" => \A i \in DOMAIN stack[t] : stack[t][i].op = "activate"
           /\ Top(t).op # "activate" => \A i \in DOMAIN stack[t] : ~Starts(stack[t][i])
           /\ Top(t).op \notin {"activate", "deactivate"} => Len(stack[t]) = 1
<1>1. /\ Top(t) = stack[t][1] /\ DOMAIN stack[t] = 1 .. Len(stack[t])
      /\ Len(stack[t]) \in Nat /\ Len(stack[t]) >= 1
  BY TopFrame
<1>2. ASSUME NEW j \in DOMAIN stack[t], j # 1
      PROVE  /\ stack[t][j].op = "activate" => stack[t][1].op = "activate"
             /\ stack[t][j].op # "activate" => stack[t][1].op = "deactivate"
  <2>1. 1 \in DOMAIN stack[t] /\ 1 < j
    BY <1>1, <1>2
  <2> QED
    BY <1>2, <2>1 DEF Nested
<1>3. Top(t).op \notin {"activate", "deactivate"} => Len(stack[t]) = 1
  <2>1. Len(stack[t]) # 1 => Len(stack[t]) \in DOMAIN stack[t]
    BY <1>1
  <2> QED
    BY <1>1, <1>2, <2>1
<1> QED
  BY <1>1, <1>2, <1>3 DEF Starts

\* An activation goes on.
LEMMA ActivationGoes ==
    ASSUME TypesInv, NEW t \in Tasks, stack[t] # <<>>, StackInv(t), NEW p, p = Top(t).plugin,
           Top(t).op = "activate", NEW pc \in {"loop", "initialize"}, NEW rest \in Seq(Plugins),
           Become(t, pc, registered[p], rest), returned' = "nothing", registered' = registered,
           p \in InState("initializing")',
           InState("initializing") \subseteq InState("initializing")',
           InState("active") \subseteq InState("active")',
           \A q \in Plugins : <<p, q>> \in Requires => q \in Known,
           \A k \in DOMAIN rest : <<rest[k], p>> \in Before,
           pc = "initialize" => rest = <<>>,
           \A q \in Known : Needs(p, q) => q \in InState("active")'
                                           \/ \E k \in DOMAIN rest : rest[k] = q
    PROVE  StackInv(t)'
<1>1. /\ Top(t) = stack[t][1] /\ DOMAIN stack[t] = 1 .. Len(stack[t])
      /\ Len(stack[t]) \in Nat /\ Len(stack[t]) >= 1 /\ p \in Plugins
  BY TopFrame
<1>2. /\ DOMAIN stack'[t] = DOMAIN stack[t]
      /\ \A i \in DOMAIN stack[t] : i # 1 => stack'[t][i] = stack[t][i]
      /\ stack'[t][1].op = "activate" /\ stack'[t][1].pc = pc /\ stack'[t][1].plugin = p
      /\ stack'[t][1].id = registered[p] /\ stack'[t][1].rest = rest
  <2>1. pc \in Pcs /\ registered[p] \in 0 .. MaxLoads /\ Stands(Top(t).op, pc)
    BY <1>1, Still DEF Pcs, Stands
  <2>2. /\ DOMAIN stack'[t] = DOMAIN stack[t]
        /\ \A i \in DOMAIN stack[t] : i # 1 => stack'[t][i] = stack[t][i]
        /\ stack'[t][1] = FrameOf(Top(t), pc, registered[p], rest)
    BY <2>1, Becomes
  <2> QED
    BY <2>2 DEF FrameOf
<1>3. Before' = Before /\ Known' = Known
  BY BeforeKept
<1>4. Nested(t)'
  BY SMTT(30), <1>1, <1>2, <1>3 DEF StackInv, Nested
<1>5. Starting(t)'
  <2> SUFFICES ASSUME NEW i \in DOMAIN stack'[t], Starts(stack'[t][i])
               PROVE  /\ stack'[t][i].plugin \in InState("initializing")'
                      /\ stack'[t][i].id = registered[stack'[t][i].plugin]
                      /\ \A q \in Plugins : <<stack'[t][i].plugin, q>> \in Requires => q \in Known
                      /\ \A k \in DOMAIN stack'[t][i].rest :
                           <<stack'[t][i].rest[k], stack'[t][i].plugin>> \in Before
                      /\ stack'[t][i].pc = "initialize" => stack'[t][i].rest = <<>>
    BY <1>3 DEF Starting
  <2>1. CASE i = 1
    BY <1>2, <2>1
  <2>2. CASE i # 1
    <3> PICK f : f = stack[t][i]
      OBVIOUS
    <3>1. i \in DOMAIN stack[t] /\ stack'[t][i] = f
      BY <1>2, <2>2
    <3>2. /\ f.plugin \in InState("initializing") /\ f.id = registered[f.plugin]
          /\ \A q \in Plugins : <<f.plugin, q>> \in Requires => q \in Known
          /\ \A k \in DOMAIN f.rest : <<f.rest[k], f.plugin>> \in Before
          /\ f.pc = "initialize" => f.rest = <<>>
      BY <3>1 DEF StackInv, Starting
    <3> QED
      BY <3>1, <3>2
  <2> QED
    BY <2>1, <2>2
<1>6. NeedsMet(t)'
  <2> SUFFICES ASSUME NEW i \in DOMAIN stack'[t], Starts(stack'[t][i]),
                      NEW q \in Known, Needs(stack'[t][i].plugin, q)
               PROVE  \/ q \in InState("active")'
                      \/ \E k \in DOMAIN stack'[t][i].rest : stack'[t][i].rest[k] = q
                      \/ i > 1 /\ stack'[t][i - 1].plugin = q
    BY <1>3 DEF NeedsMet, Needs
  <2>1. CASE i = 1
    BY <1>2, <2>1
  <2>2. CASE i # 1
    <3>1. i > 1 /\ i - 1 \in DOMAIN stack[t] /\ stack'[t][i - 1].plugin = stack[t][i - 1].plugin
      BY <1>1, <1>2, <2>2
    <3> QED
      BY <1>2, <2>2, <3>1 DEF StackInv, NeedsMet
  <2> QED
    BY <2>1, <2>2
<1>7. Stopping(t)'
  <2>1. Head(stack'[t]) = stack'[t][1]
    <3>1. stack'[t] \in Seq(Frames) /\ stack'[t] # <<>>
      <4>1. Typed'
        BY <1>1, Becomes, Still DEF Pcs, Stands
      <4> QED
        BY <1>1, <1>2, <4>1 DEF Typed
    <3> QED
      BY <3>1, HeadTailProperties
  <2> QED
    BY <1>2, <2>1 DEF Stopping, Top
<1> QED
  BY <1>4, <1>5, <1>6, <1>7 DEF StackInv

\* An operation that activates nothing goes on.
LEMMA OtherGoes ==
    ASSUME TypesInv, NEW t \in Tasks, stack[t] # <<>>, StackInv(t),
           Top(t).op # "activate", NEW pc \in Pcs, NEW id \in 0 .. MaxLoads,
           NEW rest \in Seq(Plugins), Become(t, pc, id, rest), Stands(Top(t).op, pc),
           registered' = registered,
           NEW p, p = Top(t).plugin,
           pc = "cleanup" => p \in InState("inactive")' /\ id = registered[p],
           pc = "unload" /\ returned' = "ok" => p \notin InState("active")'
    PROVE  StackInv(t)'
<1>1. /\ Top(t) = stack[t][1] /\ DOMAIN stack[t] = 1 .. Len(stack[t])
      /\ Len(stack[t]) \in Nat /\ Len(stack[t]) >= 1
  BY TopFrame
<1>2. /\ DOMAIN stack'[t] = DOMAIN stack[t] /\ Typed'
      /\ \A i \in DOMAIN stack[t] : i # 1 => stack'[t][i] = stack[t][i]
      /\ stack'[t][1].op = Top(t).op /\ stack'[t][1].pc = pc /\ stack'[t][1].plugin = p
      /\ stack'[t][1].id = id
  <2>1. /\ DOMAIN stack'[t] = DOMAIN stack[t] /\ Typed'
        /\ \A i \in DOMAIN stack[t] : i # 1 => stack'[t][i] = stack[t][i]
        /\ stack'[t][1] = FrameOf(Top(t), pc, id, rest)
    BY Becomes
  <2> QED
    BY <2>1 DEF FrameOf
<1>3. ASSUME NEW i \in DOMAIN stack[t] PROVE stack[t][i].op # "activate"
  <2>1. i # 1 => 1 \in DOMAIN stack[t] /\ 1 < i
    BY <1>1
  <2> QED
    BY <1>1, <2>1 DEF StackInv, Nested
<1>4. Nested(t)'
  BY SMTT(30), <1>1, <1>2, <1>3 DEF StackInv, Nested
<1>5. Starting(t)' /\ NeedsMet(t)'
  BY <1>1, <1>2, <1>3 DEF Starting, NeedsMet, Starts
<1>6. Stopping(t)'
  <2>1. Head(stack'[t]) = stack'[t][1]
    <3>1. stack'[t] \in Seq(Frames) /\ stack'[t] # <<>>
      BY <1>1, <1>2 DEF Typed
    <3> QED
      BY <3>1, HeadTailProperties
  <2> QED
    BY <1>2, <2>1 DEF Stopping, Top
<1> QED
  BY <1>4, <1>5, <1>6 DEF StackInv

\* An activation awaits that of the next dependency.
LEMMA ActivationAwaits ==
    ASSUME TypesInv, NEW t \in Tasks, stack[t] # <<>>, StackInv(t),
           Top(t).op = "activate", Top(t).pc = "loop", returned = "nothing",
           NEW rest, rest = Top(t).rest, rest # <<>>,
           Await(t, "loop", Tail(rest), "activate", Head(rest)),
           UNCHANGED <<instances, registered>>
    PROVE  StackInv(t)'
<1>1. /\ Top(t) = stack[t][1] /\ DOMAIN stack[t] = 1 .. Len(stack[t])
      /\ Len(stack[t]) \in Nat /\ Len(stack[t]) >= 1
  BY TopFrame
<1>2. PICK p : p = Top(t).plugin
  OBVIOUS
<1>3. PICK q : q = Head(rest)
  OBVIOUS
<1>4. /\ rest \in Seq(Plugins) /\ q \in Plugins /\ Tail(rest) \in Seq(Plugins) /\ p \in Plugins
      /\ Len(rest) \in Nat /\ Len(rest) >= 1 /\ DOMAIN rest = 1 .. Len(rest) /\ q = rest[1]
      /\ DOMAIN Tail(rest) = 1 .. Len(rest) - 1
      /\ \A k \in 1 .. Len(rest) - 1 : Tail(rest)[k] = rest[k + 1]
  <2>1. rest \in Seq(Plugins) /\ p \in Plugins
    BY <1>2, TopFrame DEF Frames
  <2> QED
    BY <1>3, <2>1, HeadTailProperties, LenProperties, EmptySeq, ElementOfSeq
<1>5. /\ Typed' /\ DOMAIN stack'[t] = 1 .. Len(stack[t]) + 1
      /\ \A i \in 3 .. Len(stack[t]) + 1 : stack'[t][i] = stack[t][i - 1]
      /\ stack'[t][1].op = "activate" /\ stack'[t][1].pc = "enter" /\ stack'[t][1].plugin = q
      /\ stack'[t][2].op = "activate" /\ stack'[t][2].pc = "loop" /\ stack'[t][2].plugin = p
      /\ stack'[t][2].id = Top(t).id /\ stack'[t][2].rest = Tail(rest)
  <2>1. "loop" \in Pcs /\ "activate" \in Operations /\ Stands(Top(t).op, "loop")
    BY DEF Pcs, Operations, Stands
  <2>2. /\ Typed' /\ DOMAIN stack'[t] = 1 .. Len(stack[t]) + 1
        /\ \A i \in 3 .. Len(stack[t]) + 1 : stack'[t][i] = stack[t][i - 1]
        /\ stack'[t][1] = Frame("activate", q)
        /\ stack'[t][2] = FrameOf(Top(t), "loop", Top(t).id, Tail(rest))
    BY <1>3, <1>4, <2>1, Awaited
  <2> QED
    BY <1>2, <2>2 DEF Frame, FrameOf
<1>6. \A i \in 1 .. Len(stack[t]) + 1 :
        i # 1 => /\ i - 1 \in DOMAIN stack[t] /\ i - 1 >= 1
                 /\ stack'[t][i].op = stack[t][i - 1].op /\ stack'[t][i].pc = stack[t][i - 1].pc
                 /\ stack'[t][i].plugin = stack[t][i - 1].plugin
                 /\ stack'[t][i].id = stack[t][i - 1].id
  <2> SUFFICES ASSUME NEW i \in 1 .. Len(stack[t]) + 1, i # 1
               PROVE  /\ i - 1 \in DOMAIN stack[t] /\ i - 1 >= 1
                      /\ stack'[t][i].op = stack[t][i - 1].op /\ stack'[t][i].pc = stack[t][i - 1].pc
                      /\ stack'[t][i].plugin = stack[t][i - 1].plugin
                      /\ stack'[t][i].id = stack[t][i - 1].id
    OBVIOUS
  <2>1. i - 1 \in DOMAIN stack[t] /\ i - 1 >= 1
    BY <1>1
  <2>2. CASE i = 2
    BY <1>1, <1>2, <1>5, <2>1, <2>2
  <2>3. CASE i # 2
    BY <1>1, <1>5, <2>1, <2>3
  <2> QED
    BY <2>1, <2>2, <2>3
<1>7. /\ Before' = Before /\ Known' = Known /\ registered' = registered
      /\ \A s : InState(s)' = InState(s)
  BY BeforeKept DEF InState, Registered, StateOf
<1>8. Starting(t) /\ Nested(t) /\ NeedsMet(t) /\ 1 \in DOMAIN stack[t] /\ Starts(stack[t][1])
  BY <1>1 DEF StackInv, Starts
<1>9. /\ <<q, p>> \in Before /\ \A k \in DOMAIN rest : <<rest[k], p>> \in Before
      /\ \A i \in DOMAIN stack[t] : stack[t][i].op = "activate"
  <2>1. \A i \in DOMAIN stack[t] : stack[t][i].op = "activate"
    BY <1>8, AllAlike
  <2>2. \A k \in DOMAIN rest : <<rest[k], p>> \in Before
    BY <1>1, <1>2, <1>8 DEF Starting
  <2>3. 1 \in DOMAIN rest
    BY <1>4
  <2> QED
    BY <1>4, <2>1, <2>2, <2>3
<1>10. \A i \in DOMAIN stack[t] : stack[t][i].pc = "loop" /\ <<q, stack[t][i].plugin>> \in Before
  <2> SUFFICES ASSUME NEW i \in DOMAIN stack[t]
               PROVE  stack[t][i].pc = "loop" /\ <<q, stack[t][i].plugin>> \in Before
    OBVIOUS
  <2>1. CASE i = 1
    BY <1>1, <1>2, <1>9, <2>1
  <2>2. CASE i # 1
    <3>1. 1 < i
      BY <1>1, <2>2
    <3>2. stack[t][i].pc = "loop" /\ <<p, stack[t][i].plugin>> \in Before
      BY <1>1, <1>2, <1>8, <1>9, <3>1 DEF Nested
    <3> QED
      BY <1>9, <3>2, BeforeOrders
  <2> QED
    BY <2>1, <2>2
<1>11. Nested(t)'
  <2> SUFFICES ASSUME NEW i \in 1 .. Len(stack[t]) + 1, NEW j \in 1 .. Len(stack[t]) + 1, i < j
               PROVE  /\ stack'[t][j].op = "activate" /\ stack'[t][i].op = "activate"
                      /\ stack'[t][j].pc = "loop"
                      /\ <<stack'[t][i].plugin, stack'[t][j].plugin>> \in Before
    BY <1>5, <1>7 DEF Nested
  <2>1. j # 1 /\ j - 1 \in DOMAIN stack[t]
    BY <1>1, <1>6
  <2>2. CASE i = 1
    BY <1>5, <1>6, <1>9, <1>10, <2>1, <2>2
  <2>3. CASE i # 1
    <3>1. i - 1 \in DOMAIN stack[t] /\ i - 1 < j - 1
      BY <1>6, <2>3
    <3>2. <<stack[t][i - 1].plugin, stack[t][j - 1].plugin>> \in Before
      BY <1>8, <1>9, <2>1, <3>1 DEF Nested
    <3> QED
      BY <1>6, <1>9, <1>10, <2>1, <2>3, <3>1, <3>2
  <2> QED
    BY <2>2, <2>3
<1>12. Starting(t)'
  <2> SUFFICES ASSUME NEW i \in 1 .. Len(stack[t]) + 1, Starts(stack'[t][i])
               PROVE  /\ stack'[t][i].plugin \in InState("initializing")
                      /\ stack'[t][i].id = registered[stack'[t][i].plugin]
                      /\ \A r \in Plugins : <<stack'[t][i].plugin, r>> \in Requires => r \in Known
                      /\ \A k \in DOMAIN stack'[t][i].rest :
                           <<stack'[t][i].rest[k], stack'[t][i].plugin>> \in Before
                      /\ stack'[t][i].pc = "initialize" => stack'[t][i].rest = <<>>
    BY <1>5, <1>7 DEF Starting
  <2>1. i # 1 /\ i - 1 \in DOMAIN stack[t]
    BY <1>5, <1>6 DEF Starts
  <2>2. PICK f : f = stack[t][i - 1]
    OBVIOUS
  <2>3. Starts(f)
    BY <1>6, <2>1, <2>2 DEF Starts
  <2>4. /\ f.plugin \in InState("initializing") /\ f.id = registered[f.plugin]
        /\ \A r \in Plugins : <<f.plugin, r>> \in Requires => r \in Known
        /\ \A k \in DOMAIN f.rest : <<f.rest[k], f.plugin>> \in Before
    BY <1>8, <2>1, <2>2, <2>3 DEF Starting
  <2>5. stack'[t][i].pc = "loop" /\ stack'[t][i].plugin = f.plugin /\ stack'[t][i].id = f.id
    BY <1>6, <1>10, <2>1, <2>2
  <2>6. \A k \in DOMAIN stack'[t][i].rest : <<stack'[t][i].rest[k], f.plugin>> \in Before
    <3>1. CASE i = 2
      <4>1. stack'[t][i].rest = Tail(rest) /\ f.plugin = p
        BY <1>1, <1>2, <1>5, <2>2, <3>1
      <4>2. \A k \in DOMAIN Tail(rest) : k + 1 \in DOMAIN rest /\ Tail(rest)[k] = rest[k + 1]
        BY <1>4
      <4> QED
        BY <1>9, <4>1, <4>2
    <3>2. CASE i # 2
      <4>1. stack'[t][i] = f
        BY <1>1, <1>5, <2>1, <2>2, <3>2
      <4> QED
        BY <2>4, <4>1
    <3> QED
      BY <3>1, <3>2
  <2> QED
    BY <2>4, <2>5, <2>6
<1>13. NeedsMet(t)'
  <2> SUFFICES ASSUME NEW i \in 1 .. Len(stack[t]) + 1, Starts(stack'[t][i]),
                      NEW r \in Known, Needs(stack'[t][i].plugin, r)
               PROVE  \/ r \in InState("active")
                      \/ \E k \in DOMAIN stack'[t][i].rest : stack'[t][i].rest[k] = r
                      \/ i > 1 /\ stack'[t][i - 1].plugin = r
    BY <1>5, <1>7 DEF NeedsMet, Needs
  <2>1. i # 1 /\ i > 1 /\ i - 1 \in DOMAIN stack[t] /\ i - 1 \in Nat
    BY <1>1, <1>5, <1>6 DEF Starts
  <2>2. PICK f : f = stack[t][i - 1]
    OBVIOUS
  <2>3. Starts(f) /\ Needs(f.plugin, r)
    BY <1>6, <2>1, <2>2 DEF Starts
  <2>4. \/ r \in InState("active")
        \/ \E k \in DOMAIN f.rest : f.rest[k] = r
        \/ i - 1 > 1 /\ stack[t][(i - 1) - 1].plugin = r
    BY <1>8, <2>1, <2>2, <2>3 DEF NeedsMet
  <2>5. CASE i = 2
    <3>1. f.rest = rest /\ stack'[t][i].rest = Tail(rest) /\ i - 1 = 1
      BY <1>1, <1>5, <2>2, <2>5
    <3>2. \A k \in DOMAIN rest : rest[k] = r =>
            r = q \/ \E m \in DOMAIN Tail(rest) : Tail(rest)[m] = r
      <4> SUFFICES ASSUME NEW k \in DOMAIN rest, rest[k] = r, r # q
                   PROVE  \E m \in DOMAIN Tail(rest) : Tail(rest)[m] = r
        OBVIOUS
      <4>1. k # 1 /\ k - 1 \in 1 .. Len(rest) - 1 /\ (k - 1) + 1 = k
        BY <1>4
      <4> QED
        BY <1>4, <4>1
    <3> QED
      BY <1>5, <2>1, <2>4, <3>1, <3>2
  <2>6. CASE i # 2
    <3>1. stack'[t][i] = f
      BY <1>1, <1>5, <2>1, <2>2, <2>6
    <3>2. i - 1 # 1 /\ i - 1 \in 1 .. Len(stack[t]) + 1
      BY <1>1, <2>1, <2>6
    <3>3. stack'[t][i - 1].plugin = stack[t][(i - 1) - 1].plugin
      BY <1>6, <3>2
    <3> QED
      BY <2>1, <2>4, <3>1, <3>3
  <2> QED
    BY <2>5, <2>6
<1>14. Stopping(t)'
  <2>1. stack'[t] \in Seq(Frames) /\ stack'[t] # <<>>
    BY <1>1, <1>5 DEF Typed
  <2>2. Head(stack'[t]) = stack'[t][1]
    BY <2>1, HeadTailProperties
  <2> QED
    BY <1>5, <2>2 DEF Stopping, Top
<1> QED
  BY <1>11, <1>12, <1>13, <1>14 DEF StackInv

\* An operation that activates nothing awaits a deactivation.
LEMMA OtherAwaits ==
    ASSUME TypesInv, NEW t \in Tasks, stack[t] # <<>>, StackInv(t),
           Top(t).op \notin {"activate", "deactivate"}, NEW pc \in Pcs, pc # "enter",
           Stands(Top(t).op, pc), NEW rest \in Seq(Plugins), NEW q \in Plugins,
           Await(t, pc, rest, "deactivate", q),
           Top(t).op # "shutdown" => q = Top(t).plugin
    PROVE  StackInv(t)'
<1>1. PICK f : f = Top(t)
  OBVIOUS
<1>2. /\ Typed' /\ DOMAIN stack'[t] = {1, 2} /\ f.op \notin {"activate", "deactivate"}
      /\ stack'[t][1].op = "deactivate" /\ stack'[t][1].pc = "enter" /\ stack'[t][1].plugin = q
      /\ stack'[t][2].op = f.op /\ stack'[t][2].pc = pc /\ stack'[t][2].plugin = f.plugin
  <2>1. Len(stack[t]) = 1 /\ "deactivate" \in Operations
    BY AllAlike DEF StackInv, Operations
  <2>2. /\ Typed' /\ DOMAIN stack'[t] = 1 .. 1 + 1
        /\ stack'[t][1] = Frame("deactivate", q)
        /\ stack'[t][2] = FrameOf(Top(t), pc, Top(t).id, rest)
    BY <2>1, Awaited
  <2> QED
    BY <1>1, <2>2 DEF Frame, FrameOf
<1>3. Nested(t)'
  <2>1. /\ stack'[t][2].op \notin {"activate", "deactivate"} /\ stack'[t][2].pc # "enter"
        /\ stack'[t][2].op # "shutdown" => stack'[t][1].plugin = stack'[t][2].plugin
    BY <1>1, <1>2
  <2>2. \A i, j \in DOMAIN stack'[t] : i < j => i = 1 /\ j = 2
    BY <1>2
  <2> QED
    BY <1>2, <2>1, <2>2 DEF Nested
<1>4. Starting(t)' /\ NeedsMet(t)'
  <2>1. \A i \in DOMAIN stack'[t] : ~Starts(stack'[t][i])
    BY <1>2 DEF Starts
  <2> QED
    BY <2>1 DEF Starting, NeedsMet
<1>5. Stopping(t)'
  <2>1. stack'[t] \in Seq(Frames) /\ stack'[t] # <<>>
    BY <1>2 DEF Typed
  <2>2. Head(stack'[t]) = stack'[t][1]
    BY <2>1, HeadTailProperties
  <2> QED
    BY <1>2, <2>2 DEF Stopping, Top
<1> QED
  BY <1>3, <1>4, <1>5 DEF StackInv

\* An activation returns.
LEMMA ActivationReturns ==
    ASSUME TypesInv, NEW t \in Tasks, stack[t] # <<>>, current \in {t, NoTask}, StackInv(t),
           NEW p, p = Top(t).plugin, Top(t).op = "activate",
           NEW ok \in BOOLEAN, Return(t, ok), registered' = registered,
           InState("initializing") \ {p} \subseteq InState("initializing")',
           InState("active") \subseteq InState("active")',
           ok => p \in InState("active")'
    PROVE  StackInv(t)'
<1>1. /\ Top(t) = stack[t][1] /\ DOMAIN stack[t] = 1 .. Len(stack[t])
      /\ Len(stack[t]) \in Nat /\ Len(stack[t]) >= 1
  BY TopFrame
<1>2. /\ Typed' /\ DOMAIN stack'[t] = 1 .. Len(stack[t]) - 1
      /\ returned' = IF Len(stack[t]) = 1 THEN "nothing" ELSE IF ok THEN "ok" ELSE "failed"
      /\ \A i \in 1 .. Len(stack[t]) - 1 : stack'[t][i] = stack[t][i + 1]
  BY Returned
<1>3. Before' = Before /\ Known' = Known
  BY BeforeKept
<1>4. Starting(t) /\ Nested(t) /\ NeedsMet(t) /\ 1 \in DOMAIN stack[t]
  BY <1>1 DEF StackInv
<1>5. \A i \in DOMAIN stack'[t] :
        /\ i \in Nat /\ i >= 1 /\ i + 1 \in DOMAIN stack[t] /\ stack'[t][i] = stack[t][i + 1]
        /\ stack'[t][i].op = "activate" /\ stack'[t][i].pc = "loop"
        /\ <<p, stack'[t][i].plugin>> \in Before /\ stack'[t][i].plugin # p
  <2> SUFFICES ASSUME NEW i \in DOMAIN stack'[t]
               PROVE  /\ i \in Nat /\ i >= 1 /\ i + 1 \in DOMAIN stack[t]
                      /\ stack'[t][i] = stack[t][i + 1]
                      /\ stack'[t][i].op = "activate" /\ stack'[t][i].pc = "loop"
                      /\ <<p, stack'[t][i].plugin>> \in Before /\ stack'[t][i].plugin # p
    OBVIOUS
  <2>1. i \in Nat /\ i >= 1 /\ i + 1 \in DOMAIN stack[t] /\ 1 < i + 1
    BY <1>1, <1>2
  <2>0. stack'[t][i] = stack[t][i + 1]
    BY <1>2
  <2>2. stack[t][i + 1].op = "activate"
    BY <1>4, <2>1, AllAlike
  <2>3. stack[t][i + 1].pc = "loop" /\ <<p, stack[t][i + 1].plugin>> \in Before
    BY <1>1, <1>4, <2>1, <2>2 DEF Nested
  <2>4. stack[t][i + 1].plugin # p
    BY <2>3, BeforeOrders
  <2> QED
    BY <2>0, <2>1, <2>2, <2>3, <2>4
<1>6. Nested(t)'
  <2> SUFFICES ASSUME NEW i \in DOMAIN stack'[t], NEW j \in DOMAIN stack'[t], i < j
               PROVE  <<stack'[t][i].plugin, stack'[t][j].plugin>> \in Before
    BY <1>3, <1>5 DEF Nested
  <2>1. /\ i \in Nat /\ i + 1 \in DOMAIN stack[t] /\ stack'[t][i] = stack[t][i + 1]
        /\ j \in Nat /\ j + 1 \in DOMAIN stack[t] /\ stack'[t][j] = stack[t][j + 1]
        /\ stack'[t][j].op = "activate"
    BY <1>5
  <2>2. i + 1 < j + 1
    BY <2>1
  <2>3. <<stack[t][i + 1].plugin, stack[t][j + 1].plugin>> \in Before
    <3>1. PICK m, n : m = i + 1 /\ n = j + 1
      OBVIOUS
    <3>2. m \in DOMAIN stack[t] /\ n \in DOMAIN stack[t] /\ m < n /\ stack[t][n].op = "activate"
      BY <2>1, <2>2, <3>1
    <3>3. <<stack[t][m].plugin, stack[t][n].plugin>> \in Before
      BY <1>4, <3>2 DEF Nested
    <3> QED
      BY <3>1, <3>3
  <2> QED
    BY <2>1, <2>3
<1>7. Starting(t)'
  <2> SUFFICES ASSUME NEW i \in DOMAIN stack'[t], Starts(stack'[t][i])
               PROVE  /\ stack'[t][i].plugin \in InState("initializing")'
                      /\ stack'[t][i].id = registered[stack'[t][i].plugin]
                      /\ \A r \in Plugins : <<stack'[t][i].plugin, r>> \in Requires => r \in Known
                      /\ \A k \in DOMAIN stack'[t][i].rest :
                           <<stack'[t][i].rest[k], stack'[t][i].plugin>> \in Before
                      /\ stack'[t][i].pc = "initialize" => stack'[t][i].rest = <<>>
    BY <1>3 DEF Starting
  <2>1. PICK f : f = stack'[t][i]
    OBVIOUS
  <2>2. f = stack[t][i + 1] /\ i + 1 \in DOMAIN stack[t] /\ f.plugin # p /\ Starts(f)
    BY <1>5, <2>1
  <2>3. /\ f.plugin \in InState("initializing") /\ f.id = registered[f.plugin]
        /\ \A r \in Plugins : <<f.plugin, r>> \in Requires => r \in Known
        /\ \A k \in DOMAIN f.rest : <<f.rest[k], f.plugin>> \in Before
        /\ f.pc = "initialize" => f.rest = <<>>
    BY <1>4, <2>2 DEF Starting
  <2>4. f.plugin \in InState("initializing")'
    BY <2>2, <2>3
  <2> QED
    BY <2>1, <2>3, <2>4
<1>8. NeedsMet(t)'
  <2> SUFFICES ASSUME NEW i \in DOMAIN stack'[t], Starts(stack'[t][i]),
                      NEW r \in Known, Needs(stack'[t][i].plugin, r)
               PROVE  \/ r \in InState("active")'
                      \/ \E k \in DOMAIN stack'[t][i].rest : stack'[t][i].rest[k] = r
                      \/ i > 1 /\ stack'[t][i - 1].plugin = r
                      \/ i = 1 /\ stack'[t][i].pc = "loop" /\ returned' = "failed"
    BY <1>3 DEF NeedsMet, Needs
  <2>1. PICK f : f = stack'[t][i]
    OBVIOUS
  <2>0. /\ f = stack[t][i + 1] /\ i + 1 \in DOMAIN stack[t] /\ Starts(f) /\ Needs(f.plugin, r)
        /\ i \in Nat /\ i >= 1 /\ f.pc = "loop"
    BY <1>5, <2>1
  <2>2. /\ f = stack[t][i + 1] /\ i + 1 \in DOMAIN stack[t] /\ Starts(f) /\ Needs(f.plugin, r)
        /\ i \in Nat /\ i >= 1 /\ f.pc = "loop" /\ (i + 1) - 1 = i /\ i + 1 # 1
    BY <2>0
  <2>3. \/ r \in InState("active")
        \/ \E k \in DOMAIN f.rest : f.rest[k] = r
        \/ stack[t][i].plugin = r
    BY <1>4, <2>2 DEF NeedsMet
  <2>4. ASSUME stack[t][i].plugin = r, i # 1 PROVE i > 1 /\ stack'[t][i - 1].plugin = r
    <3>1. i > 1 /\ i - 1 \in 1 .. Len(stack[t]) - 1 /\ (i - 1) + 1 = i
      BY <1>1, <2>2, <2>4
    <3> QED
      BY <1>2, <2>4, <3>1
  <2>5. ASSUME stack[t][i].plugin = r, i = 1 PROVE r \in InState("active")' \/ returned' = "failed"
    <3>1. r = p /\ Len(stack[t]) # 1
      BY <1>1, <2>2, <2>5
    <3> QED
      BY <1>2, <3>1
  <2> QED
    BY <2>1, <2>2, <2>3, <2>4, <2>5
<1>9. Stopping(t)'
  <2> SUFFICES ASSUME stack'[t] # <<>>
               PROVE  Head(stack'[t]).pc = "loop"
    BY DEF Stopping, Top
  <2>1. stack'[t] \in Seq(Frames)
    BY <1>2 DEF Typed
  <2>2. Head(stack'[t]) = stack'[t][1] /\ 1 \in DOMAIN stack'[t]
    BY <2>1, HeadTailProperties, LenProperties, EmptySeq
  <2> QED
    BY <1>5, <2>2
<1> QED
  BY <1>6, <1>7, <1>8, <1>9 DEF StackInv

\* Another operation returns.
LEMMA OtherReturns ==
    ASSUME TypesInv, NEW t \in Tasks, stack[t] # <<>>, current \in {t, NoTask}, StackInv(t),
           NEW p, p = Top(t).plugin, Top(t).op # "activate", NEW ok \in BOOLEAN, Return(t, ok),
           Top(t).op = "deactivate" =>
               registered' = registered /\ (ok => p \notin InState("active")')
    PROVE  StackInv(t)'
<1>1. /\ Top(t) = stack[t][1] /\ DOMAIN stack[t] = 1 .. Len(stack[t])
      /\ Len(stack[t]) \in Nat /\ Len(stack[t]) >= 1
  BY TopFrame
<1>2. /\ Typed' /\ DOMAIN stack'[t] = 1 .. Len(stack[t]) - 1
      /\ returned' = IF Len(stack[t]) = 1 THEN "nothing" ELSE IF ok THEN "ok" ELSE "failed"
      /\ \A i \in 1 .. Len(stack[t]) - 1 : stack'[t][i] = stack[t][i + 1]
      /\ Len(stack'[t]) = Len(stack[t]) - 1
  BY Returned
<1>3. Nested(t) /\ 1 \in DOMAIN stack[t]
  BY <1>1 DEF StackInv
<1>4. CASE Len(stack[t]) = 1
  <2>1. DOMAIN stack'[t] = {}
    BY <1>2, <1>4
  <2>2. stack'[t] = <<>>
    BY <1>2, <1>4, EmptySeq DEF Typed
  <2> QED
    BY <2>1, <2>2 DEF StackInv, Nested, Starting, NeedsMet, Stopping
<1>5. CASE Len(stack[t]) # 1
  <2>1. Top(t).op = "deactivate"
    BY <1>3, <1>5, AllAlike
  <2>a. ASSUME NEW j \in DOMAIN stack[t], j # 1
        PROVE  /\ stack[t][j].op \notin {"activate", "deactivate"}
               /\ stack[t][j].op # "shutdown" => stack[t][j].plugin = p
    <3>1. 1 < j
      BY <1>1, <2>a
    <3>2. stack[t][j].op # "activate"
      BY <1>1, <1>3, <2>1, <2>a, <3>1 DEF Nested
    <3> QED
      BY <1>1, <1>3, <2>1, <2>a, <3>1, <3>2 DEF Nested
  <2>2. ~(Len(stack[t]) >= 3)
    <3> SUFFICES ASSUME Len(stack[t]) >= 3 PROVE FALSE
      OBVIOUS
    <3>1. PICK i, j : i = 2 /\ j = 3
      OBVIOUS
    <3>2. i \in DOMAIN stack[t] /\ j \in DOMAIN stack[t] /\ i < j /\ i # 1 /\ j # 1
      BY <1>1, <3>1
    <3>3. stack[t][i].op # "deactivate" /\ stack[t][j].op # "activate"
      BY <2>a, <3>2
    <3> QED
      BY <1>3, <3>2, <3>3 DEF Nested
  <2>3. 2 \in DOMAIN stack[t] /\ DOMAIN stack'[t] = {1} /\ stack'[t][1] = stack[t][2]
    <3>1. PICK n : n = Len(stack[t])
      OBVIOUS
    <3>2. n \in Nat /\ n >= 1 /\ n # 1 /\ ~(n >= 3)
      BY <1>1, <1>5, <2>2, <3>1
    <3>3. n = 2
      BY ONLY <3>2
    <3>4. DOMAIN stack[t] = 1 .. n /\ DOMAIN stack'[t] = 1 .. n - 1
      BY <1>1, <1>2, <3>1
    <3>5. 1 \in 1 .. n - 1
      BY <3>3
    <3> QED
      BY <1>2, <3>1, <3>3, <3>4, <3>5
  <2>4. PICK f : f = stack[t][2]
    OBVIOUS
  <2>5. /\ f.op \notin {"activate", "deactivate"} /\ (f.op # "shutdown" => f.plugin = p)
    BY <2>a, <2>3, <2>4
  <2>6. f.pc # "cleanup" /\ (f.pc = "unload" => f.op # "shutdown")
    BY <2>3, <2>4, <2>5 DEF TypesInv, Formed, Stands
  <2>7. Stopping(t)'
    <3>1. stack'[t] \in Seq(Frames) /\ stack'[t] # <<>>
      BY <1>2, <2>3 DEF Typed
    <3>2. Head(stack'[t]) = f
      BY <2>3, <2>4, <3>1, HeadTailProperties
    <3>3. returned' = "ok" => ok
      BY <1>2
    <3> QED
      BY <2>1, <2>5, <2>6, <3>2, <3>3 DEF Stopping, Top
  <2>8. Nested(t)' /\ Starting(t)' /\ NeedsMet(t)'
    <3>1. \A i \in DOMAIN stack'[t] : i = 1 /\ ~Starts(stack'[t][i])
      BY <2>3, <2>4, <2>5 DEF Starts
    <3> QED
      BY <2>3, <3>1 DEF Nested, Starting, NeedsMet
  <2> QED
    BY <2>7, <2>8 DEF StackInv
<1> QED
  BY <1>4, <1>5

-----------------------------------------------------------------------------
(* The plugins that are up.                                                *)

\* The steps of a task that is alone, and what they do to the plugins that
\* are up.
UpMoves ==
    \/ InState("active")' = InState("active")
    \/ \E p \in Plugins :
         /\ p \notin InState("active")
         /\ \A q \in Plugins : <<p, q>> \in Requires => q \in InState("active")
         /\ InState("active")' = InState("active") \cup {p}
    \/ \E p \in Plugins :
         /\ p \in InState("active")
         /\ \A q \in InState("active") : <<q, p>> \notin Requires
         /\ InState("active")' = InState("active") \ {p}

LEMMA StatesSet ==
    ASSUME TypesInv, NEW p \in Plugins, Registered(p), NEW st \in States,
           instances' = SetState(p, st), registered' = registered
    PROVE  \A s : InState(s)' = IF s = st THEN InState(s) \cup {p} ELSE InState(s) \ {p}
<1>1. \A i \in DOMAIN instances :
        instances'[i].state = IF i = registered[p] THEN st ELSE instances[i].state
  BY StateWritten
<1> QED
  BY <1>1, InStateWritten

LEMMA StatesSame ==
    ASSUME UNCHANGED <<instances, registered>>
    PROVE  \A s : InState(s)' = InState(s)
  BY DEF InState, Registered, StateOf

LEMMA StatesApart ==
    ASSUME NEW p \in Plugins
    PROVE  /\ \A s, r : s # r /\ p \in InState(s) => p \notin InState(r)
           /\ p \in InState("active") <=> Active(p)
           /\ p \in Known <=> Registered(p)
           /\ \A s : p \in InState(s) => Registered(p)
  BY DEF InState, Active, Known

\* What holds of an activation that has started.
LEMMA Underway ==
    ASSUME TypesInv, NEW t \in Tasks, stack[t] # <<>>, StackInv(t), Starts(Top(t)),
           NEW p, p = Top(t).plugin
    PROVE  /\ p \in Plugins /\ Top(t).op = "activate" /\ Top(t).rest \in Seq(Plugins)
           /\ p \in InState("initializing") /\ Top(t).id = registered[p] /\ Registered(p)
           /\ \A q \in Plugins : <<p, q>> \in Requires => q \in Known
           /\ \A k \in DOMAIN Top(t).rest : <<Top(t).rest[k], p>> \in Before
           /\ Top(t).pc = "initialize" => Top(t).rest = <<>>
           /\ \/ returned = "failed" /\ Top(t).pc = "loop"
              \/ \A q \in Known : Needs(p, q) =>
                   q \in InState("active") \/ \E k \in DOMAIN Top(t).rest : Top(t).rest[k] = q
<1>1. Top(t) = stack[t][1] /\ 1 \in DOMAIN stack[t] /\ Top(t) \in Frames /\ Top(t).op = "activate"
  BY TopFrame DEF Starts
<1>2. p \in Plugins /\ Top(t).rest \in Seq(Plugins)
  BY <1>1, TopFrame DEF Frames
<1>3. /\ p \in InState("initializing") /\ Top(t).id = registered[p]
      /\ \A q \in Plugins : <<p, q>> \in Requires => q \in Known
      /\ \A k \in DOMAIN Top(t).rest : <<Top(t).rest[k], p>> \in Before
      /\ Top(t).pc = "initialize" => Top(t).rest = <<>>
  BY <1>1 DEF StackInv, Starting
<1>4. \/ returned = "failed" /\ Top(t).pc = "loop"
      \/ \A q \in Known : Needs(p, q) =>
           q \in InState("active") \/ \E k \in DOMAIN Top(t).rest : Top(t).rest[k] = q
  <2>1. NeedsMet(t)
    BY DEF StackInv
  <2> QED
    BY <1>1, <2>1 DEF NeedsMet
<1> QED
  BY <1>1, <1>2, <1>3, <1>4, StatesApart

LEMMA LoneActivate ==
    ASSUME TypesInv, NEW t \in Tasks, StackInv(t),
           \/ EnterActivate(t) \/ VisitDependency(t) \/ DependencyActivated(t)
           \/ DependencyFailed(t) \/ StartInitialize(t)
    PROVE  StackInv(t)' /\ InState("active")' = InState("active")
<1>1. PICK p : p = Top(t).plugin
  OBVIOUS
<1>2. /\ current = t /\ stack[t] # <<>> /\ Top(t).op = "activate" /\ registered' = registered
      /\ EnterActivate(t) \/ Top(t).pc = "loop"
  BY DEF EnterActivate, VisitDependency, DependencyActivated, DependencyFailed, StartInitialize,
         Running
<1>3. /\ Top(t) \in Frames /\ Top(t).rest \in Seq(Plugins) /\ p \in Plugins
      /\ {"error", "initializing"} \subseteq States /\ <<>> \in Seq(Plugins)
  BY <1>1, <1>2, TopFrame, EmptySeq DEF Frames, States
<1>4. Top(t).pc = "loop" => Starts(Top(t))
  BY <1>2 DEF Starts
<1>5. CASE EnterActivate(t)
  <2>1. CASE (~Registered(p) \/ Active(p)) /\ Return(t, Active(p)) /\ UNCHANGED instances
    <3>1. /\ \A s : InState(s)' = InState(s)
          /\ Active(p) \in BOOLEAN /\ (Active(p) => p \in InState("active"))
      BY <1>2, <1>3, <2>1, StatesSame, StatesApart, StateOfTyped
    <3>2. /\ InState("initializing") \ {p} \subseteq InState("initializing")'
          /\ InState("active") \subseteq InState("active")'
          /\ Active(p) => p \in InState("active")'
      BY <3>1
    <3>3. StackInv(t)'
      BY <1>1, <1>2, <2>1, <3>1, <3>2, ActivationReturns
    <3> QED
      BY <3>1, <3>3
  <2>2. CASE /\ Registered(p) /\ ~Active(p) /\ instances' = SetState(p, "error")
             /\ Return(t, FALSE)
    <3>1. /\ InState("initializing")' = InState("initializing") \ {p}
          /\ InState("active")' = InState("active") \ {p} /\ p \notin InState("active")
      BY <1>2, <1>3, <2>2, StatesSet, StatesApart
    <3>2. /\ InState("initializing") \ {p} \subseteq InState("initializing")'
          /\ InState("active")' = InState("active") /\ InState("active") \subseteq InState("active")'
      BY <3>1
    <3>3. StackInv(t)'
      BY <1>1, <1>2, <2>2, <3>2, ActivationReturns
    <3> QED
      BY <3>2, <3>3
  <2>3. ASSUME NEW order \in LoadOrders(p), Registered(p), ~Active(p),
               instances' = SetState(p, "initializing"),
               Goto(t, "loop", registered[p], Front(order))
        PROVE  StackInv(t)' /\ InState("active")' = InState("active")
    <3>1. /\ InState("initializing")' = InState("initializing") \cup {p}
          /\ InState("active")' = InState("active") \ {p} /\ p \notin InState("active")
      BY <1>2, <1>3, <2>3, StatesSet, StatesApart
    <3>2. /\ InState("initializing") \subseteq InState("initializing")'
          /\ p \in InState("initializing")'
          /\ InState("active")' = InState("active") /\ InState("active") \subseteq InState("active")'
      BY <3>1
    <3>3. /\ Front(order) \in Seq(Plugins)
          /\ \A k \in DOMAIN Front(order) : <<Front(order)[k], p>> \in Before
          /\ \A q \in Known : Needs(p, q) => \E k \in DOMAIN Front(order) : Front(order)[k] = q
          /\ \A q \in Plugins : <<p, q>> \in Requires => q \in Known
      BY <1>3, OrderTyped, OrderBefore
    <3>4. Become(t, "loop", registered[p], Front(order)) /\ returned' = "nothing"
      BY <2>3 DEF Goto
    <3> HIDE DEF Front
    <3>5. PICK rest : rest = Front(order)
      OBVIOUS
    <3>6. StackInv(t)'
      BY <1>1, <1>2, <3>2, <3>3, <3>4, <3>5, ActivationGoes
    <3> QED
      BY <3>2, <3>6
  <2> QED
    BY <1>1, <1>5, <2>1, <2>2, <2>3 DEF EnterActivate
\* The activation is under way.
<1>6. ASSUME Top(t).pc = "loop"
      PROVE  /\ p \in InState("initializing") /\ Top(t).id = registered[p] /\ Registered(p)
             /\ \A q \in Plugins : <<p, q>> \in Requires => q \in Known
             /\ \A k \in DOMAIN Top(t).rest : <<Top(t).rest[k], p>> \in Before
             /\ \/ returned = "failed"
                \/ \A q \in Known : Needs(p, q) =>
                     q \in InState("active") \/ \E k \in DOMAIN Top(t).rest : Top(t).rest[k] = q
  BY <1>1, <1>2, <1>4, <1>6, Underway
<1>7. ASSUME Top(t).pc = "loop", UNCHANGED <<instances, registered>>, NEW rest \in Seq(Plugins),
             NEW pc \in {"loop", "initialize"}, Become(t, pc, registered[p], rest),
             returned' = "nothing", \A k \in DOMAIN rest : <<rest[k], p>> \in Before,
             pc = "initialize" => rest = <<>>,
             \A q \in Known : Needs(p, q) => q \in InState("active")
                                             \/ \E k \in DOMAIN rest : rest[k] = q
      PROVE  StackInv(t)'
  <2>1. \A s : InState(s)' = InState(s)
    BY <1>7, StatesSame
  <2>2. /\ p \in InState("initializing")' /\ InState("initializing") \subseteq InState("initializing")'
        /\ InState("active") \subseteq InState("active")'
        /\ \A q \in Known : Needs(p, q) => q \in InState("active")'
                                           \/ \E k \in DOMAIN rest : rest[k] = q
    BY <1>6, <1>7, <2>1
  <2>3. \A q \in Plugins : <<p, q>> \in Requires => q \in Known
    BY <1>6, <1>7
  <2> QED
    BY <1>1, <1>2, <1>7, <2>2, <2>3, ActivationGoes
<1>8. CASE VisitDependency(t)
  <2>1. /\ Top(t).pc = "loop" /\ Top(t).rest # <<>> /\ returned = "nothing"
        /\ UNCHANGED <<instances, registered>>
    BY <1>8 DEF VisitDependency, Running
  <2>2. InState("active")' = InState("active")
    BY <2>1, StatesSame
  <2>3. PICK rest : rest = Top(t).rest
    OBVIOUS
  <2>4. CASE Await(t, "loop", Tail(rest), "activate", Head(rest))
    BY <1>2, <2>1, <2>2, <2>3, <2>4, ActivationAwaits
  <2>5. CASE (Registered(Head(rest)) => Active(Head(rest))) /\ Goto(t, "loop", Top(t).id, Tail(rest))
    <3>1. /\ rest \in Seq(Plugins) /\ rest # <<>> /\ Tail(rest) \in Seq(Plugins)
          /\ Len(rest) \in Nat /\ Len(rest) >= 1 /\ DOMAIN rest = 1 .. Len(rest)
          /\ Head(rest) = rest[1] /\ Head(rest) \in Plugins
          /\ DOMAIN Tail(rest) = 1 .. Len(rest) - 1
          /\ \A k \in 1 .. Len(rest) - 1 : Tail(rest)[k] = rest[k + 1]
      BY <1>3, <2>1, <2>3, HeadTailProperties, LenProperties, EmptySeq, ElementOfSeq
    <3>2. \A k \in DOMAIN Tail(rest) : <<Tail(rest)[k], p>> \in Before
      <4>1. \A k \in DOMAIN Tail(rest) : k + 1 \in DOMAIN rest /\ Tail(rest)[k] = rest[k + 1]
        BY <3>1
      <4>2. \A k \in DOMAIN rest : <<rest[k], p>> \in Before
        BY <1>6, <2>1, <2>3
      <4> QED
        BY <4>1, <4>2
    <3>3. ASSUME NEW q \in Known, Needs(p, q), q \notin InState("active")
          PROVE  \E k \in DOMAIN Tail(rest) : Tail(rest)[k] = q
      <4>1. PICK k \in DOMAIN rest : rest[k] = q
        BY <1>6, <2>1, <2>3, <3>3
      <4>2. q # Head(rest)
        BY <2>5, <3>1, <3>3, StatesApart
      <4>3. k - 1 \in 1 .. Len(rest) - 1 /\ (k - 1) + 1 = k
        BY <3>1, <4>1, <4>2
      <4>4. k - 1 \in DOMAIN Tail(rest) /\ Tail(rest)[k - 1] = q
        BY <3>1, <4>1, <4>3
      <4> QED
        BY <4>4
    <3>4. Become(t, "loop", registered[p], Tail(rest)) /\ returned' = "nothing"
      BY <1>6, <2>1, <2>5 DEF Goto
    <3>5. PICK others : others = Tail(rest)
      OBVIOUS
    <3>6. /\ others \in Seq(Plugins) /\ Become(t, "loop", registered[p], others)
          /\ \A k \in DOMAIN others : <<others[k], p>> \in Before
          /\ \A q \in Known : Needs(p, q) => q \in InState("active")
                                             \/ \E k \in DOMAIN others : others[k] = q
      BY <3>1, <3>2, <3>3, <3>4, <3>5
    <3> QED
      BY <1>7, <2>1, <2>2, <3>4, <3>6
  <2> QED
    BY <1>8, <2>3, <2>4, <2>5 DEF VisitDependency
<1>9. CASE DependencyActivated(t)
  <2>1. /\ Top(t).pc = "loop" /\ returned = "ok" /\ UNCHANGED <<instances, registered>>
        /\ Become(t, "loop", Top(t).id, Top(t).rest) /\ returned' = "nothing"
    BY <1>9 DEF DependencyActivated, Running, Goto
  <2>2. InState("active")' = InState("active")
    BY <2>1, StatesSame
  <2>3. PICK rest : rest = Top(t).rest
    OBVIOUS
  <2> QED
    BY <1>3, <1>6, <1>7, <2>1, <2>2, <2>3
<1>10. CASE StartInitialize(t)
  <2>1. /\ Top(t).pc = "loop" /\ returned = "nothing" /\ UNCHANGED <<instances, registered>>
        /\ Top(t).rest = <<>> /\ Become(t, "initialize", Top(t).id, <<>>) /\ returned' = "nothing"
    BY <1>10 DEF StartInitialize, Running, Suspend
  <2>2. InState("active")' = InState("active")
    BY <2>1, StatesSame
  <2>3. PICK rest : rest = <<>> /\ rest = Top(t).rest
    BY <2>1
  <2>4. rest \in Seq(Plugins) /\ Become(t, "initialize", registered[p], rest)
    BY <1>3, <1>6, <2>1, <2>3
  <2> QED
    BY <1>6, <1>7, <2>1, <2>2, <2>3, <2>4
<1>11. CASE DependencyFailed(t)
  <2>1. Top(t).pc = "loop" /\ instances' = SetState(p, "error") /\ Return(t, FALSE)
    BY <1>1, <1>11 DEF DependencyFailed, Running
  <2>2. /\ InState("initializing")' = InState("initializing") \ {p}
        /\ InState("active")' = InState("active") \ {p} /\ p \notin InState("active")
    BY <1>2, <1>3, <1>6, <2>1, StatesSet, StatesApart
  <2>3. /\ InState("initializing") \ {p} \subseteq InState("initializing")'
        /\ InState("active")' = InState("active") /\ InState("active") \subseteq InState("active")'
    BY <2>2
  <2>4. StackInv(t)'
    BY <1>1, <1>2, <2>1, <2>3, ActivationReturns
  <2> QED
    BY <2>3, <2>4
<1> QED
  BY <1>5, <1>8, <1>9, <1>10, <1>11

LEMMA LoneOther ==
    ASSUME TypesInv, NEW t \in Tasks, StackInv(t),
           \/ EnterDeactivate(t) \/ EnterUnload(t) \/ FinishUnload(t)
           \/ EnterShutdown(t) \/ VisitActive(t)
    PROVE  StackInv(t)' /\ UpMoves
<1>1. PICK p : p = Top(t).plugin
  OBVIOUS
<1>2. /\ current = t /\ stack[t] # <<>> /\ Top(t).op # "activate"
      /\ Top(t).op # "shutdown" => p \in Plugins
  <2>1. current = t /\ stack[t] # <<>> /\ Top(t).op # "activate"
    BY DEF EnterDeactivate, EnterUnload, FinishUnload, EnterShutdown, VisitActive, Running
  <2> QED
    BY <1>1, <2>1, TopFrame
<1>3. /\ "inactive" \in States /\ <<>> \in Seq(Plugins) /\ 0 \in 0 .. MaxLoads
      /\ {"cleanup", "unload", "loop"} \subseteq Pcs
      /\ Top(t).op = "deactivate" => Stands(Top(t).op, "cleanup")
      /\ Top(t).op \in {"unload", "reload"} => Stands(Top(t).op, "unload")
      /\ Top(t).op = "shutdown" => Stands(Top(t).op, "loop")
      /\ Top(t).rest \in Seq(Plugins)
  BY <1>2, EmptySeq, PluginLifecycleAssumption, TopFrame DEF States, Pcs, Stands, Frames
<1>4. CASE EnterDeactivate(t)
  <2>1. p \in Plugins /\ Top(t).op = "deactivate" /\ registered' = registered
    BY <1>2, <1>4 DEF EnterDeactivate, Running
  <2>2. ASSUME UNCHANGED instances, NEW ok \in BOOLEAN, Return(t, ok), ok => ~Active(p)
        PROVE  StackInv(t)' /\ UpMoves
    <3>1. InState("active")' = InState("active") /\ (ok => p \notin InState("active"))
      BY <2>1, <2>2, StatesSame, StatesApart
    <3>2. ok => p \notin InState("active")'
      BY <3>1
    <3>3. StackInv(t)'
      BY <1>1, <1>2, <2>1, <2>2, <3>2, OtherReturns
    <3> QED
      BY <3>1, <3>3 DEF UpMoves
  <2>3. CASE /\ Active(p) /\ ~(\E q \in Dependents(p) : Active(q))
             /\ instances' = SetState(p, "inactive") /\ Suspend(t, "cleanup", registered[p])
    <3>1. p \in InState("active") /\ Registered(p)
      BY <2>1, <2>3, StatesApart
    <3>2. /\ InState("active")' = InState("active") \ {p}
          /\ InState("inactive")' = InState("inactive") \cup {p}
      BY <1>3, <2>1, <2>3, <3>1, StatesSet
    <3>3. \A q \in InState("active") : <<q, p>> \notin Requires
      <4>1. ASSUME NEW q \in InState("active") PROVE q \in Plugins /\ Active(q) /\ Registered(q)
        BY <4>1 DEF InState, Active
      <4> QED
        BY <2>3, <4>1 DEF Dependents, Needs
    <3>4. UpMoves
      BY <2>1, <3>1, <3>2, <3>3 DEF UpMoves
    <3>5. Become(t, "cleanup", registered[p], <<>>)
      BY <2>3 DEF Suspend
    <3>6. registered[p] \in 0 .. MaxLoads
      BY <2>1, Still
    <3>7. p \in InState("inactive")'
      BY <3>2
    <3>8. PICK id : id = registered[p]
      OBVIOUS
    <3>9. StackInv(t)'
      BY <1>1, <1>2, <1>3, <2>1, <3>5, <3>6, <3>7, <3>8, OtherGoes
    <3> QED
      BY <3>4, <3>9
  <2>4. Registered(p) \in BOOLEAN
    BY StateOfTyped
  <2> QED
    BY <1>1, <1>4, <2>2, <2>3, <2>4 DEF EnterDeactivate
<1>5. CASE EnterUnload(t)
  <2>1. p \in Plugins /\ Top(t).op \in {"unload", "reload"} /\ UNCHANGED <<instances, registered>>
    BY <1>2, <1>5 DEF EnterUnload, Running
  <2>2. InState("active")' = InState("active")
    BY <2>1, StatesSame
  <2>3. CASE Await(t, "unload", <<>>, "deactivate", p)
    <3>1. StackInv(t)'
      BY <1>1, <1>2, <1>3, <2>1, <2>3, OtherAwaits
    <3> QED
      BY <2>2, <3>1 DEF UpMoves
  <2>4. CASE ~Active(p) /\ Become(t, "unload", 0, <<>>)
    <3>1. p \notin InState("active")'
      BY <2>1, <2>2, <2>4, StatesApart
    <3>2. StackInv(t)'
      BY <1>1, <1>2, <1>3, <2>1, <2>4, <3>1, OtherGoes
    <3> QED
      BY <2>2, <3>2 DEF UpMoves
  <2> QED
    BY <1>1, <1>5, <2>3, <2>4 DEF EnterUnload
<1>6. CASE FinishUnload(t)
  <2>1. /\ p \in Plugins /\ Top(t).op \notin {"activate", "deactivate"} /\ UNCHANGED instances
        /\ Top(t).pc = "unload"
        /\ \/ registered' = registered
           \/ returned = "ok" /\ registered' = [registered EXCEPT ![p] = 0]
        /\ \E ok \in BOOLEAN : Return(t, ok)
    BY <1>1, <1>2, <1>6 DEF FinishUnload, Running
  <2>2. StackInv(t)'
    BY <1>1, <1>2, <2>1, OtherReturns
  <2>3. CASE registered' = registered
    BY <2>1, <2>2, <2>3, StatesSame DEF UpMoves
  <2>4. CASE returned = "ok" /\ registered' = [registered EXCEPT ![p] = 0]
    <3>1. p \notin InState("active")
      BY <1>1, <1>2, <2>1, <2>4 DEF StackInv, Stopping
    <3>2. ASSUME NEW q \in Plugins PROVE q \in InState("active")' <=> q \in InState("active")
      <4>1. registered'[q] = IF q = p THEN 0 ELSE registered[q]
        BY <2>4, Still
      <4> QED
        BY <2>1, <3>1, <4>1 DEF InState, Registered, StateOf
    <3>3. InState("active")' = InState("active")
      BY <3>2 DEF InState
    <3> QED
      BY <2>2, <3>3 DEF UpMoves
  <2> QED
    BY <2>1, <2>3, <2>4
<1>7. CASE EnterShutdown(t)
  <2> DEFINE active == {q \in Plugins : Active(q)}
  <2>1. PICK order \in SetToSeqs(active) : Goto(t, "loop", 0, order)
    BY <1>7 DEF EnterShutdown
  <2>2. order \in Seq(Plugins)
    BY Enumerated
  <2>3. Top(t).op = "shutdown" /\ UNCHANGED <<instances, registered>> /\ Become(t, "loop", 0, order)
    BY <1>7, <2>1 DEF EnterShutdown, Running, Goto
  <2>4. StackInv(t)'
    BY <1>1, <1>2, <1>3, <2>2, <2>3, OtherGoes
  <2> QED
    BY <2>3, <2>4, StatesSame DEF UpMoves
<1>8. CASE VisitActive(t)
  <2>1. Top(t).op = "shutdown" /\ UNCHANGED <<instances, registered>>
    BY <1>8 DEF VisitActive, Running
  <2>2. CASE Return(t, TRUE)
    <3>1. StackInv(t)'
      BY <1>1, <1>2, <2>1, <2>2, OtherReturns
    <3> QED
      BY <2>1, <3>1, StatesSame DEF UpMoves
  <2>3. CASE Top(t).rest # <<>> /\ Await(t, "loop", Tail(Top(t).rest), "deactivate", Head(Top(t).rest))
    <3>1. PICK rest, q : rest = Tail(Top(t).rest) /\ q = Head(Top(t).rest)
      OBVIOUS
    <3>2. rest \in Seq(Plugins) /\ q \in Plugins
      BY <1>3, <2>3, <3>1, HeadTailProperties
    <3>3. StackInv(t)'
      BY <1>2, <1>3, <2>1, <2>3, <3>1, <3>2, OtherAwaits
    <3> QED
      BY <2>1, <3>3, StatesSame DEF UpMoves
  <2> QED
    BY <1>8, <2>2, <2>3 DEF VisitActive
<1> QED
  BY <1>4, <1>5, <1>6, <1>7, <1>8

\* The states after FinishInitialize.
LEMMA Initialized ==
    ASSUME TypesInv, NEW p \in Plugins, Registered(p), NEW k, registered' = registered,
           instances' = [SetState(p, "active") EXCEPT ![k].initialized = TRUE]
    PROVE  \A s : InState(s)' = IF s = "active" THEN InState(s) \cup {p} ELSE InState(s) \ {p}
<1>0. PICK old : old = SetState(p, "active")
  OBVIOUS
<1>1. /\ old \in Seq(Instances) /\ DOMAIN old = DOMAIN instances
      /\ \A i \in DOMAIN instances :
           old[i].state = IF i = registered[p] THEN "active" ELSE instances[i].state
  <2>1. "active" \in States
    BY DEF States
  <2> QED
    BY <1>0, <2>1, StateWritten
<1>2. \A i \in DOMAIN old : instances'[i].state = old[i].state
  <2>1. instances' = [old EXCEPT ![k].initialized = TRUE]
    BY <1>0
  <2>2. \A i \in DOMAIN old : [old EXCEPT ![k].initialized = TRUE][i].state = old[i].state
    BY ONLY <1>1, InitializedWritten
  <2> QED
    BY <2>1, <2>2
<1>3. \A i \in DOMAIN instances :
        instances'[i].state = IF i = registered[p] THEN "active" ELSE instances[i].state
  BY <1>1, <1>2
<1> QED
  BY <1>3, InStateWritten

LEMMA LoneResume ==
    ASSUME TypesInv, NEW t \in Tasks, StackInv(t), Resume(t)
    PROVE  StackInv(t)' /\ UpMoves
<1>1. PICK p : p = Top(t).plugin
  OBVIOUS
<1>2. current = NoTask /\ stack[t] # <<>> /\ registered' = registered
  BY DEF Resume, FinishInitialize, FinishCleanup, Resumed
<1>3. CASE FinishInitialize(t)
  <2>1. Top(t).pc = "initialize" /\ Starts(Top(t))
    BY <1>2, <1>3, TopFrame DEF FinishInitialize, Resumed, Starts, Stands
  <2>2. /\ p \in Plugins /\ Top(t).op = "activate" /\ p \in InState("initializing") /\ Registered(p)
        /\ \A q \in Plugins : <<p, q>> \in Requires => q \in Known
        /\ \A q \in Known : Needs(p, q) => q \in InState("active")
    <3>1. /\ p \in Plugins /\ Top(t).op = "activate" /\ p \in InState("initializing") /\ Registered(p)
          /\ \A q \in Plugins : <<p, q>> \in Requires => q \in Known
          /\ Top(t).rest = <<>>
          /\ \A q \in Known : Needs(p, q) =>
               q \in InState("active") \/ \E k \in DOMAIN Top(t).rest : Top(t).rest[k] = q
      BY <1>1, <1>2, <2>1, Underway
    <3> QED
      BY <3>1
  <2>3. CASE instances' = SetState(p, "error") /\ Return(t, FALSE)
    <3>1. /\ InState("initializing")' = InState("initializing") \ {p}
          /\ InState("active")' = InState("active") \ {p} /\ p \notin InState("active")
      <4>1. "error" \in States
        BY DEF States
      <4> QED
        BY <1>2, <2>2, <2>3, <4>1, StatesSet, StatesApart
    <3>2. /\ InState("initializing") \ {p} \subseteq InState("initializing")'
          /\ InState("active")' = InState("active") /\ InState("active") \subseteq InState("active")'
      BY <3>1
    <3>3. StackInv(t)'
      BY <1>1, <1>2, <2>2, <2>3, <3>2, ActivationReturns
    <3> QED
      BY <3>2, <3>3 DEF UpMoves
  <2>4. CASE /\ instances' = [SetState(p, "active") EXCEPT ![Top(t).id].initialized = TRUE]
             /\ Return(t, TRUE)
    <3>1. /\ InState("initializing")' = InState("initializing") \ {p}
          /\ InState("active")' = InState("active") \cup {p} /\ p \notin InState("active")
      BY <1>2, <2>2, <2>4, Initialized, StatesApart
    <3>2. /\ InState("initializing") \ {p} \subseteq InState("initializing")'
          /\ InState("active") \subseteq InState("active")' /\ p \in InState("active")'
      BY <3>1
    <3>3. StackInv(t)'
      BY <1>1, <1>2, <2>2, <2>4, <3>2, ActivationReturns
    <3>4. UpMoves
      BY <2>2, <3>1 DEF UpMoves, Needs
    <3> QED
      BY <3>3, <3>4
  <2> QED
    BY <1>1, <1>3, <2>3, <2>4 DEF FinishInitialize
<1>4. CASE FinishCleanup(t)
  <2>1. /\ Top(t).pc = "cleanup" /\ Top(t).op = "deactivate" /\ p \in InState("inactive")
        /\ p \in Plugins
    <3>1. Top(t).pc = "cleanup" /\ Top(t).op = "deactivate" /\ p \in Plugins
      BY <1>1, <1>2, <1>4, TopFrame DEF FinishCleanup, Resumed, Stands
    <3> QED
      BY <1>1, <1>2, <3>1 DEF StackInv, Stopping
  <2>2. \A s : InState(s)' = InState(s)
    <3>1. CASE instances' = instances
      BY <1>2, <3>1, StatesSame
    <3>2. CASE instances' = [instances EXCEPT ![Top(t).id].initialized = FALSE]
      <4>1. \A i \in DOMAIN instances : instances'[i].state = instances[i].state
        BY <3>2, Still, InitializedWritten
      <4>2. \A q \in Plugins : Registered(q) => StateOf(q)' = StateOf(q)
        BY <1>2, <4>1, Still DEF StateOf
      <4> QED
        BY <1>2, <4>2 DEF InState, Registered
    <3> QED
      BY <1>4, <3>1, <3>2 DEF FinishCleanup
  <2>3. InState("active")' = InState("active") /\ p \notin InState("active")'
    BY <2>1, <2>2, StatesApart
  <2>4. StackInv(t)'
    <3>1. \E ok \in BOOLEAN : Return(t, ok)
      BY <1>4 DEF FinishCleanup
    <3> QED
      BY <1>1, <1>2, <2>1, <2>3, <3>1, OtherReturns
  <2> QED
    BY <2>3, <2>4 DEF UpMoves
<1> QED
  BY <1>3, <1>4 DEF Resume

LEMMA LoneArrival ==
    ASSUME TypesInv, NEW t \in Tasks, Arrival(t)
    PROVE  StackInv(t)' /\ InState("active")' = InState("active")
<1>1. ASSUME stack'[t] = <<>> PROVE StackInv(t)'
  BY <1>1 DEF StackInv, Nested, Starting, NeedsMet, Stopping
<1>2. ASSUME NEW p \in Plugins, Load(t, p)
      PROVE  StackInv(t)' /\ InState("active")' = InState("active")
  <2>1. stack' = stack /\ stack[t] = <<>>
    BY <1>2 DEF Load, Idle
  <2>2. CASE UNCHANGED <<instances, registered>>
    BY <1>1, <2>1, <2>2, StatesSame
  <2>3. CASE /\ ~Registered(p)
             /\ instances' = Append(instances, [plugin |-> p, state |-> "discovered",
                                                initialized |-> FALSE])
             /\ registered' = [registered EXCEPT ![p] = Len(instances) + 1]
    <3>1. PICK x : x = [plugin |-> p, state |-> "discovered", initialized |-> FALSE]
      OBVIOUS
    <3>2. x \in Instances /\ x.state = "discovered" /\ instances' = Append(instances, x)
      BY <2>3, <3>1 DEF Instances, States
    <3>3. /\ \A i \in 1 .. Len(instances) : instances'[i] = instances[i]
          /\ instances'[Len(instances) + 1] = x
      BY <3>2, Still, AppendProperties
    <3>4. ASSUME NEW q \in Plugins PROVE q \in InState("active")' <=> q \in InState("active")
      <4>1. CASE q = p
        <5>1. registered'[q] = Len(instances) + 1
          BY <2>3, <4>1, Still
        <5>2. StateOf(q)' = "discovered"
          BY <3>2, <3>3, <5>1 DEF StateOf
        <5> QED
          BY <2>3, <4>1, <5>2 DEF InState
      <4>2. CASE q # p
        <5>1. registered'[q] = registered[q]
          BY <2>3, <4>2, Still
        <5>2. Registered(q) => StateOf(q)' = StateOf(q)
          BY <3>3, <5>1, Still DEF StateOf
        <5> QED
          BY <5>1, <5>2 DEF InState, Registered
      <4> QED
        BY <4>1, <4>2
    <3>5. InState("active")' = InState("active")
      BY <3>4 DEF InState
    <3> QED
      BY <1>1, <2>1, <3>5
  <2> QED
    BY <1>2, <2>2, <2>3 DEF Load
<1>3. ASSUME NEW op, NEW p, Call(t, op, p)
      PROVE  StackInv(t)' /\ InState("active")' = InState("active")
  <2>1. stack'[t] = <<Frame(op, p)>> /\ UNCHANGED <<instances, registered>>
    BY <1>3 DEF Call, TypesInv, TypeOK
  <2>2. PICK f : f = Frame(op, p)
    OBVIOUS
  <2>3. f.pc = "enter" /\ stack'[t] = <<f>>
    BY <2>1, <2>2 DEF Frame
  <2>4. DOMAIN stack'[t] = {1} /\ stack'[t][1] = f /\ Head(stack'[t]) = f
    BY <2>3
  <2>5. ~Starts(f)
    BY <2>3 DEF Starts
  <2>6. StackInv(t)'
    BY <2>3, <2>4, <2>5 DEF StackInv, Nested, Starting, NeedsMet, Stopping, Top
  <2> QED
    BY <2>1, <2>6, StatesSame
<1> QED
  BY <1>2, <1>3 DEF Arrival

LEMMA LoneStep ==
    ASSUME SingleInv, [Next]_vars, Alone
    PROVE  SingleInv' /\ UpMoves
<1>1. AttendedInv' /\ TypesInv
  BY NextAttended DEF SingleInv, AttendedInv
<1>2. CASE UNCHANGED vars
  <2>1. UNCHANGED <<instances, registered>> /\ stack' = stack /\ returned' = returned
    BY <1>2 DEF vars
  <2>2. Before' = Before /\ Known' = Known /\ \A s : InState(s)' = InState(s)
    BY <2>1, BeforeKept, StatesSame
  <2>3. \A t \in Tasks : StackInv(t)'
    BY <2>1, <2>2 DEF SingleInv, StackInv, Nested, Starting, NeedsMet, Stopping, Top
  <2> QED
    BY <1>1, <2>2, <2>3 DEF SingleInv, UpMoves
<1>3. CASE Next
  <2>1. PICK t \in Tasks : Arrival(t) \/ Run(t) \/ Resume(t)
    BY <1>3 DEF Next
  <2>2. StackInv(t)
    BY DEF SingleInv
  <2>3. StackInv(t)' /\ UpMoves
    <3>1. CASE Arrival(t)
      BY <1>1, <3>1, LoneArrival DEF UpMoves
    <3>2. CASE Resume(t)
      BY <1>1, <2>2, <3>2, LoneResume
    <3>3. CASE Run(t)
      BY <1>1, <2>2, <3>3, LoneActivate, LoneOther DEF Run, UpMoves
    <3> QED
      BY <2>1, <3>1, <3>2, <3>3
  <2>4. \A u \in Tasks : StackInv(u)'
    <3>1. \A u \in Tasks : u = t
      BY DEF Alone
    <3> QED
      BY <2>3, <3>1
  <2> QED
    BY <1>1, <2>3, <2>4 DEF SingleInv
<1> QED
  BY <1>2, <1>3

LEMMA LoneInit == ASSUME Init PROVE SingleInv /\ InState("active") = {}
<1>1. AttendedInv
  BY InitAttended
<1>2. \A t \in Tasks : StackInv(t)
  BY DEF Init, StackInv, Nested, Starting, NeedsMet, Stopping
<1>3. InState("active") = {}
  BY DEF Init, InState, Registered
<1> QED
  BY <1>1, <1>2, <1>3 DEF SingleInv

\* With a single task, activations wait for those of plugins below and
\* everything a plugin needs is up by the time it initializes
\* (manager.py:205-258).
THEOREM LoneInvariant == ASSUME Alone PROVE Spec => []SingleInv
  BY LoneInit, LoneStep, PTL DEF Spec

\* With a single task, plugins go up after those they require and down
\* before them, one at a time: the manager implements ServiceOrder.
THEOREM ServicesGoInOrder == ASSUME Alone PROVE Spec => RefinesServiceOrder
<1>1. {p \in Plugins : Active(p)} = InState("active")
  BY DEF InState, Active
<1>2. Init => Order!Init
  BY <1>1, LoneInit DEF Order!Init
<1>3. {p \in Plugins : Active(p)}' = InState("active")'
  BY DEF InState, Active
<1>4. UpMoves => [Order!Next]_({p \in Plugins : Active(p)})
  BY <1>1, <1>3 DEF UpMoves, Order!Next, Order!Start, Order!Stop
<1>5. SingleInv /\ [Next]_vars => [Order!Next]_({p \in Plugins : Active(p)})
  BY <1>4, LoneStep
<1> QED
  BY <1>2, <1>5, LoneInvariant, PTL DEF Spec, RefinesServiceOrder, Order!Spec

\* With a single task, what an active plugin requires is active
\* (manager.py:223, 282); with two it is not, as plugins_overlap shows.
THEOREM DependenciesHeldAlone == ASSUME Alone PROVE Spec => []DependenciesHeld
<1> DEFINE Held == \A p \in InState("active"), q \in Plugins :
                     <<p, q>> \in Requires => q \in InState("active")
<1>1. Init => Held
  BY LoneInit
<1>2. Held /\ UpMoves => Held'
  BY DEF UpMoves
<1>3. SingleInv /\ [Next]_vars /\ Held => Held'
  BY <1>2, LoneStep
<1>4. Held => DependenciesHeld
  BY DEF DependenciesHeld, InState, Active
<1> HIDE DEF Held
<1> QED
  BY <1>1, <1>3, <1>4, LoneInvariant, PTL DEF Spec

-----------------------------------------------------------------------------
(* Resources.                                                              *)

\* Resources, of a task that is alone.
Cleans(t, i) == stack[t] # <<>> /\ Top(t).pc = "cleanup" /\ Top(t).id = i
CleansNothing(t) == stack[t] # <<>> => Top(t).pc # "cleanup"
Holds(i) == instances[i].state = "active" /\ registered[instances[i].plugin] = i

\* The frame on top after a move.
LEMMA TopAfter ==
    ASSUME TypesInv, NEW t \in Tasks, stack[t] # <<>>, StackInv(t)
    PROVE  /\ \A ok \in BOOLEAN : Return(t, ok) /\ current \in {t, NoTask} => CleansNothing(t)'
           /\ \A pc \in Pcs, id \in 0 .. MaxLoads, rest \in Seq(Plugins) :
                Become(t, pc, id, rest) /\ Stands(Top(t).op, pc) =>
                    stack'[t] # <<>> /\ Head(stack'[t]).pc = pc /\ Head(stack'[t]).id = id
           /\ \A pc \in Pcs, rest \in Seq(Plugins), op \in Operations, p \in Plugins :
                Await(t, pc, rest, op, p) /\ Stands(Top(t).op, pc) => CleansNothing(t)'
<1>1. /\ Top(t) = stack[t][1] /\ DOMAIN stack[t] = 1 .. Len(stack[t])
      /\ Len(stack[t]) \in Nat /\ Len(stack[t]) >= 1 /\ Nested(t)
  BY TopFrame DEF StackInv
<1>2. ASSUME Typed', stack'[t] # <<>>
      PROVE  Head(stack'[t]) = stack'[t][1] /\ 1 \in DOMAIN stack'[t]
  <2>1. stack'[t] \in Seq(Frames)
    BY <1>2 DEF Typed
  <2> QED
    BY <1>2, <2>1, HeadTailProperties, LenProperties, EmptySeq
<1>3. ASSUME NEW ok \in BOOLEAN, Return(t, ok), current \in {t, NoTask}, stack'[t] # <<>>
      PROVE  Head(stack'[t]).pc # "cleanup"
  <2>1. /\ Typed' /\ DOMAIN stack'[t] = 1 .. Len(stack[t]) - 1
        /\ \A i \in 1 .. Len(stack[t]) - 1 : stack'[t][i] = stack[t][i + 1]
    BY <1>3, Returned
  <2>2. PICK j : j = 2
    OBVIOUS
  <2>3. Head(stack'[t]) = stack[t][j] /\ 1 \in DOMAIN stack[t] /\ j \in DOMAIN stack[t] /\ 1 < j
    BY <1>1, <1>2, <1>3, <2>1, <2>2
  <2>4. stack[t][j].op # "deactivate"
    BY <1>1, <2>3 DEF Nested
  <2> QED
    BY <2>3, <2>4 DEF TypesInv, Formed, Stands
<1>4. ASSUME NEW pc \in Pcs, NEW id \in 0 .. MaxLoads, NEW rest \in Seq(Plugins),
             Become(t, pc, id, rest), Stands(Top(t).op, pc)
      PROVE  stack'[t] # <<>> /\ Head(stack'[t]).pc = pc /\ Head(stack'[t]).id = id
  <2>1. /\ Typed' /\ DOMAIN stack'[t] = DOMAIN stack[t]
        /\ stack'[t][1] = FrameOf(Top(t), pc, id, rest)
    BY <1>4, Becomes
  <2>2. stack'[t] # <<>>
    BY <1>1, <2>1
  <2> QED
    BY <1>2, <2>1, <2>2 DEF FrameOf
<1>5. ASSUME NEW pc \in Pcs, NEW rest \in Seq(Plugins), NEW op \in Operations, NEW p \in Plugins,
             Await(t, pc, rest, op, p), Stands(Top(t).op, pc), stack'[t] # <<>>
      PROVE  Head(stack'[t]).pc # "cleanup"
  <2>1. Typed' /\ stack'[t][1] = Frame(op, p)
    BY <1>5, Awaited
  <2> QED
    BY <1>2, <1>5, <2>1 DEF Frame
<1> QED
  BY <1>3, <1>4, <1>5 DEF CleansNothing, Top

\* Nothing changes hands.
LEMMA ResourcesKept ==
    ASSUME TypesInv, TypesInv', ResourcesTracked, Alone, NEW t \in Tasks,
           CleansNothing(t), CleansNothing(t)', DOMAIN instances \subseteq DOMAIN instances',
           \A i \in DOMAIN instances :
               /\ instances'[i].plugin = instances[i].plugin
               /\ instances'[i].initialized = instances[i].initialized,
           \A i \in DOMAIN instances' : i \notin DOMAIN instances =>
               ~instances'[i].initialized /\ instances'[i].state # "active",
           InState("active")' = InState("active"),
           \A p \in InState("active") : registered'[p] = registered[p]
    PROVE  ResourcesTracked'
<1>1. /\ \A i \in DOMAIN instances : i # 0 /\ instances[i] \in Instances
      /\ \A i \in DOMAIN instances' : i # 0 /\ instances'[i] \in Instances
  BY LenProperties, ElementOfSeq DEF TypesInv, TypeOK
<1>2. \A u \in Tasks : u = t
  BY DEF Alone
<1>3. \A i \in DOMAIN instances : instances[i].initialized <=> Holds(i)
  BY <1>2 DEF ResourcesTracked, Holds, CleansNothing
<1>4. ASSUME NEW i \in DOMAIN instances'
      PROVE  instances'[i].initialized <=>
               instances'[i].state = "active" /\ registered'[instances'[i].plugin] = i
  <2>1. CASE i \notin DOMAIN instances
    BY <1>1, <1>4, <2>1
  <2>2. CASE i \in DOMAIN instances
    <3>1. PICK p : p = instances[i].plugin
      OBVIOUS
    <3>2. p \in Plugins /\ instances'[i].plugin = p /\ i # 0
      BY <1>1, <2>2, <3>1 DEF Instances
    <3>3. Holds(i) <=> p \in InState("active") /\ registered[p] = i
      BY <3>1, <3>2 DEF Holds, InState, Registered, StateOf
    <3>4. instances'[i].state = "active" /\ registered'[p] = i
            <=> p \in InState("active")' /\ registered'[p] = i
      BY <3>2 DEF InState, Registered, StateOf
    <3> QED
      BY <1>3, <2>2, <3>2, <3>3, <3>4
  <2> QED
    BY <2>1, <2>2
<1> QED
  BY <1>2, <1>4 DEF ResourcesTracked, CleansNothing

\* The steps that hand resources over: a plugin is initialized, or starts or
\* ends its clean-up.
LEMMA ResourcesGiven ==
    ASSUME TypesInv, TypesInv', ResourcesTracked, Alone, NEW t \in Tasks, stack[t] # <<>>,
           NEW p \in Plugins, Registered(p), NEW k, k = registered[p],
           registered' = registered, SameObjects,
           \A i \in DOMAIN instances : i # k =>
               /\ instances'[i].state = instances[i].state
               /\ instances'[i].initialized = instances[i].initialized,
           \A i \in DOMAIN instances : i # k => ~Cleans(t, i) /\ ~Cleans(t, i)',
           instances'[k].initialized <=> instances'[k].state = "active" \/ Cleans(t, k)'
    PROVE  ResourcesTracked'
<1>1. /\ DOMAIN instances' = DOMAIN instances /\ k \in DOMAIN instances
      /\ \A i \in DOMAIN instances : instances'[i].plugin = instances[i].plugin
      /\ instances[k].plugin = p
  <2>1. DOMAIN instances' = DOMAIN instances
    BY LenProperties DEF SameObjects, TypesInv, TypeOK
  <2> QED
    BY <2>1, Still DEF SameObjects, TypesInv, TypeOK, Registered
<1>2. \A u \in Tasks : u = t
  BY DEF Alone
<1>3. ASSUME NEW i \in DOMAIN instances
      PROVE  instances'[i].initialized <=>
               \/ instances'[i].state = "active" /\ registered'[instances'[i].plugin] = i
               \/ Cleans(t, i)'
  <2>1. CASE i = k
    BY <1>1, <2>1
  <2>2. CASE i # k
    <3>1. instances[i].initialized <=> Holds(i)
      BY <1>2, <2>2 DEF ResourcesTracked, Holds, Cleans
    <3> QED
      BY <1>1, <2>2, <3>1 DEF Holds
  <2> QED
    BY <2>1, <2>2
<1> QED
  BY <1>1, <1>2, <1>3 DEF ResourcesTracked, Cleans

LEMMA ResourcesRun ==
    ASSUME SingleInv, SingleInv', ResourcesTracked, Alone, NEW t \in Tasks, Run(t)
    PROVE  ResourcesTracked'
<1>0. TypesInv /\ TypesInv' /\ StackInv(t) /\ StackInv(t)'
  BY DEF SingleInv, AttendedInv
<1>1. PICK p : p = Top(t).plugin
  OBVIOUS
<1>2. /\ current = t /\ stack[t] # <<>> /\ Top(t).pc \in {"enter", "loop", "unload"}
      /\ Top(t).op # "shutdown" => p \in Plugins
  <2>1. current = t /\ stack[t] # <<>> /\ Top(t).pc \in {"enter", "loop", "unload"}
    BY DEF Run, EnterActivate, VisitDependency, DependencyActivated, DependencyFailed,
           StartInitialize, EnterDeactivate, EnterUnload, FinishUnload, EnterShutdown,
           VisitActive, Running
  <2> QED
    BY <1>0, <1>1, <2>1, TopFrame
<1>3. /\ CleansNothing(t) /\ Top(t).rest \in Seq(Plugins) /\ Top(t).id \in 0 .. MaxLoads
      /\ {"error", "initializing", "inactive"} \subseteq States /\ <<>> \in Seq(Plugins)
      /\ {"activate", "deactivate"} \subseteq Operations
      /\ {"loop", "unload", "initialize", "cleanup"} \subseteq Pcs /\ 0 \in 0 .. MaxLoads
  BY <1>0, <1>2, TopFrame, EmptySeq, PluginLifecycleAssumption
     DEF CleansNothing, Frames, States, Operations, Pcs
\* A step that keeps what is up and writes at most one state.
<1>4. ASSUME InState("active")' = InState("active"), CleansNothing(t)',
             \/ instances' = instances
             \/ p \in Plugins /\ \E st \in {"error", "initializing"} : instances' = SetState(p, st),
             \A q \in InState("active") : registered'[q] = registered[q]
      PROVE  ResourcesTracked'
  <2>1. /\ DOMAIN instances' = DOMAIN instances
        /\ \A i \in DOMAIN instances :
             /\ instances'[i].plugin = instances[i].plugin
             /\ instances'[i].initialized = instances[i].initialized
    <3>1. CASE instances' = instances
      BY <3>1
    <3>2. ASSUME p \in Plugins, NEW st \in {"error", "initializing"}, instances' = SetState(p, st)
          PROVE  /\ DOMAIN instances' = DOMAIN instances
                 /\ \A i \in DOMAIN instances :
                      /\ instances'[i].plugin = instances[i].plugin
                      /\ instances'[i].initialized = instances[i].initialized
      BY <1>0, <1>3, <3>2, StateWritten
    <3> QED
      BY <1>4, <3>1, <3>2
  <2> QED
    BY <1>0, <1>3, <1>4, <2>1, ResourcesKept
<1>5. \A ok \in BOOLEAN : Return(t, ok) => CleansNothing(t)'
  BY <1>0, <1>2, TopAfter
<1>6. \A pc \in {"loop", "initialize", "unload"}, id \in 0 .. MaxLoads, rest \in Seq(Plugins) :
        Become(t, pc, id, rest) /\ Stands(Top(t).op, pc) => CleansNothing(t)'
  BY <1>0, <1>2, <1>3, TopAfter DEF CleansNothing, Top
<1>7. \A pc \in Pcs, rest \in Seq(Plugins), op \in Operations, q \in Plugins :
        Await(t, pc, rest, op, q) /\ Stands(Top(t).op, pc) => CleansNothing(t)'
  BY <1>0, <1>2, TopAfter
<1>8. /\ Top(t).op = "activate" => Stands(Top(t).op, "loop") /\ Stands(Top(t).op, "initialize")
      /\ Top(t).op = "deactivate" => Stands(Top(t).op, "cleanup")
      /\ Top(t).op \in {"unload", "reload"} => Stands(Top(t).op, "unload")
      /\ Top(t).op = "shutdown" => Stands(Top(t).op, "loop")
      /\ Active(p) \in BOOLEAN /\ Registered(p) \in BOOLEAN
  BY StateOfTyped DEF Stands
<1>9. CASE \/ EnterActivate(t) \/ VisitDependency(t) \/ DependencyActivated(t)
           \/ DependencyFailed(t) \/ StartInitialize(t)
  <2>1. InState("active")' = InState("active")
    BY <1>0, <1>9, LoneActivate
  <2>2. registered' = registered /\ Top(t).op = "activate" /\ p \in Plugins
    BY <1>2, <1>9 DEF EnterActivate, VisitDependency, DependencyActivated, DependencyFailed,
                      StartInitialize, Running
  <2>3. instances' = instances \/ \E st \in {"error", "initializing"} : instances' = SetState(p, st)
    BY <1>1, <1>9 DEF EnterActivate, VisitDependency, DependencyActivated, DependencyFailed,
                      StartInitialize
  <2>4. CleansNothing(t)'
    <3>1. CASE EnterActivate(t)
      <4>1. ASSUME NEW order \in LoadOrders(p), Goto(t, "loop", registered[p], Front(order))
            PROVE  CleansNothing(t)'
        <5>1. Front(order) \in Seq(Plugins) /\ registered[p] \in 0 .. MaxLoads
          BY <1>0, <2>2, OrderTyped, Still
        <5> QED
          BY <1>6, <1>8, <2>2, <4>1, <5>1 DEF Goto
      <4>2. \/ \E ok \in BOOLEAN : Return(t, ok)
            \/ \E order \in LoadOrders(p) : Goto(t, "loop", registered[p], Front(order))
        BY <1>1, <1>8, <3>1 DEF EnterActivate
      <4> QED
        BY <1>5, <4>1, <4>2
    <3>2. CASE VisitDependency(t)
      <4>1. Top(t).rest # <<>>
        BY <3>2 DEF VisitDependency
      <4>2. Head(Top(t).rest) \in Plugins /\ Tail(Top(t).rest) \in Seq(Plugins)
        BY <1>3, <4>1, HeadTailProperties
      <4> QED
        BY <1>3, <1>6, <1>7, <1>8, <2>2, <3>2, <4>2 DEF VisitDependency, Goto
    <3>3. CASE DependencyActivated(t)
      BY <1>3, <1>6, <1>8, <2>2, <3>3 DEF DependencyActivated, Goto
    <3>4. CASE DependencyFailed(t)
      BY <1>5, <3>4 DEF DependencyFailed
    <3>5. CASE StartInitialize(t)
      BY <1>3, <1>6, <1>8, <2>2, <3>5 DEF StartInitialize, Suspend
    <3> QED
      BY <1>9, <3>1, <3>2, <3>3, <3>4, <3>5
  <2> QED
    BY <1>4, <2>1, <2>2, <2>3, <2>4
<1>10. CASE EnterDeactivate(t)
  <2>1. registered' = registered /\ Top(t).op = "deactivate" /\ p \in Plugins /\ Top(t).pc = "enter"
    BY <1>2, <1>10 DEF EnterDeactivate, Running
  <2>2. CASE UNCHANGED instances /\ \E ok \in BOOLEAN : Return(t, ok)
    BY <1>4, <1>5, <2>1, <2>2, StatesSame
  <2>3. CASE Active(p) /\ instances' = SetState(p, "inactive") /\ Suspend(t, "cleanup", registered[p])
    <3>1. PICK k : k = registered[p]
      OBVIOUS
    <3>2. Registered(p) /\ k \in DOMAIN instances /\ k \in 0 .. MaxLoads /\ StateOf(p) = "active"
      BY <1>0, <2>1, <2>3, <3>1, Still DEF Active
    <3>3. /\ SameObjects
          /\ \A i \in DOMAIN instances :
               /\ instances'[i].initialized = instances[i].initialized
               /\ instances'[i].state = IF i = k THEN "inactive" ELSE instances[i].state
      BY <1>0, <1>3, <2>1, <2>3, <3>1, <3>2, StateWritten DEF SameObjects
    <3>4. stack'[t] # <<>> /\ Head(stack'[t]).pc = "cleanup" /\ Head(stack'[t]).id = k
      BY <1>0, <1>2, <1>3, <1>8, <2>1, <2>3, <3>1, <3>2, TopAfter DEF Suspend
    <3>5. Cleans(t, k)' /\ \A i : i # k => ~Cleans(t, i)'
      BY <3>4 DEF Cleans, Top
    <3>6. \A i : ~Cleans(t, i)
      BY <1>3 DEF Cleans, CleansNothing
    <3>7. instances[k].initialized
      <4>1. instances[k].plugin = p /\ instances[k].state = "active"
        BY <1>0, <2>1, <3>1, <3>2 DEF TypesInv, TypeOK, StateOf, Registered
      <4> QED
        BY <3>1, <3>2, <4>1 DEF ResourcesTracked
    <3> QED
      BY <1>0, <1>2, <2>1, <3>1, <3>2, <3>3, <3>5, <3>6, <3>7, ResourcesGiven
  <2> QED
    BY <1>1, <1>8, <1>10, <2>2, <2>3 DEF EnterDeactivate
<1>11. CASE EnterUnload(t)
  <2>1. p \in Plugins /\ Top(t).op \in {"unload", "reload"} /\ UNCHANGED <<instances, registered>>
    BY <1>2, <1>11 DEF EnterUnload, Running
  <2>2. CleansNothing(t)'
    BY <1>1, <1>3, <1>6, <1>7, <1>8, <1>11, <2>1 DEF EnterUnload
  <2> QED
    BY <1>4, <2>1, <2>2, StatesSame
<1>12. CASE FinishUnload(t)
  <2>1. /\ p \in Plugins /\ UNCHANGED instances /\ Top(t).pc = "unload"
        /\ \/ registered' = registered
           \/ returned = "ok" /\ registered' = [registered EXCEPT ![p] = 0]
        /\ \E ok \in BOOLEAN : Return(t, ok)
    BY <1>1, <1>2, <1>12 DEF FinishUnload, Running
  <2>2. CASE registered' = registered
    BY <1>4, <1>5, <2>1, <2>2, StatesSame
  <2>3. CASE returned = "ok" /\ registered' = [registered EXCEPT ![p] = 0]
    <3>1. p \notin InState("active")
      BY <1>0, <1>1, <1>2, <2>1, <2>3 DEF StackInv, Stopping
    <3>2. \A q \in Plugins : registered'[q] = IF q = p THEN 0 ELSE registered[q]
      BY <1>0, <2>3, Still
    <3>3. ASSUME NEW q \in Plugins PROVE q \in InState("active")' <=> q \in InState("active")
      BY <2>1, <3>1, <3>2 DEF InState, Registered, StateOf
    <3>4. InState("active")' = InState("active")
      BY <3>3 DEF InState
    <3>5. \A q \in InState("active") : registered'[q] = registered[q]
      BY <3>1, <3>2 DEF InState
    <3> QED
      BY <1>4, <1>5, <2>1, <3>4, <3>5
  <2> QED
    BY <2>1, <2>2, <2>3
<1>13. CASE EnterShutdown(t)
  <2> DEFINE active == {q \in Plugins : Active(q)}
  <2>1. PICK order \in SetToSeqs(active) : Goto(t, "loop", 0, order)
    BY <1>13 DEF EnterShutdown
  <2>2. order \in Seq(Plugins)
    BY Enumerated
  <2>3. Top(t).op = "shutdown" /\ UNCHANGED <<instances, registered>> /\ Become(t, "loop", 0, order)
    BY <1>13, <2>1 DEF EnterShutdown, Running, Goto
  <2>4. CleansNothing(t)'
    BY <1>3, <1>6, <1>8, <2>2, <2>3
  <2> QED
    BY <1>4, <2>3, <2>4, StatesSame
<1>14. CASE VisitActive(t)
  <2>1. Top(t).op = "shutdown" /\ UNCHANGED <<instances, registered>>
    BY <1>14 DEF VisitActive, Running
  <2>2. CASE Return(t, TRUE)
    BY <1>4, <1>5, <2>1, <2>2, StatesSame
  <2>3. CASE Top(t).rest # <<>> /\ Await(t, "loop", Tail(Top(t).rest), "deactivate", Head(Top(t).rest))
    <3>1. Tail(Top(t).rest) \in Seq(Plugins) /\ Head(Top(t).rest) \in Plugins
      BY <1>3, <2>3, HeadTailProperties
    <3>2. CleansNothing(t)'
      BY <1>3, <1>7, <1>8, <2>1, <2>3, <3>1
    <3> QED
      BY <1>4, <2>1, <3>2, StatesSame
  <2> QED
    BY <1>14, <2>2, <2>3 DEF VisitActive
<1> QED
  BY <1>9, <1>10, <1>11, <1>12, <1>13, <1>14 DEF Run

LEMMA ResourcesResume ==
    ASSUME SingleInv, SingleInv', ResourcesTracked, Alone, "cleanup" \notin Faulty,
           NEW t \in Tasks, Resume(t)
    PROVE  ResourcesTracked'
<1>0. TypesInv /\ TypesInv' /\ StackInv(t) /\ \A u \in Tasks : u = t
  BY DEF SingleInv, AttendedInv, Alone
<1>1. PICK p : p = Top(t).plugin
  OBVIOUS
<1>2. current = NoTask /\ stack[t] # <<>> /\ registered' = registered
  BY DEF Resume, FinishInitialize, FinishCleanup, Resumed
<1>3. ASSUME NEW ok \in BOOLEAN, Return(t, ok) PROVE CleansNothing(t)'
  BY <1>0, <1>2, <1>3, TopAfter
<1>4. CASE FinishInitialize(t)
  <2>1. Top(t).pc = "initialize" /\ Starts(Top(t))
    BY <1>0, <1>2, <1>4, TopFrame DEF FinishInitialize, Resumed, Starts, Stands
  <2>2. p \in Plugins /\ p \in InState("initializing") /\ Registered(p) /\ Top(t).id = registered[p]
    BY <1>0, <1>1, <1>2, <2>1, Underway
  <2>3. PICK k : k = registered[p]
    OBVIOUS
  <2>4. k \in DOMAIN instances /\ instances[k].plugin = p /\ instances[k].state = "initializing"
    BY <1>0, <2>2, <2>3, Still DEF TypesInv, TypeOK, Registered, InState, StateOf
  <2>5. CleansNothing(t)' /\ CleansNothing(t) /\ {"active", "error"} \subseteq States
    BY <1>3, <1>4, <2>1 DEF FinishInitialize, CleansNothing, States
  <2>6. \A i : ~Cleans(t, i) /\ ~Cleans(t, i)'
    BY <2>5 DEF CleansNothing, Cleans
  <2>7. PICK old : old = SetState(p, "active")
    OBVIOUS
  <2>8. CASE instances' = [old EXCEPT ![k].initialized = TRUE]
    <3>1. /\ old \in Seq(Instances) /\ Len(old) = Len(instances) /\ DOMAIN old = DOMAIN instances
          /\ \A i \in DOMAIN instances :
               /\ old[i].plugin = instances[i].plugin
               /\ old[i].initialized = instances[i].initialized
               /\ old[i].state = IF i = k THEN "active" ELSE instances[i].state
      BY <1>0, <2>2, <2>3, <2>5, <2>7, StateWritten
    <3>2. LET new == [old EXCEPT ![k].initialized = TRUE]
          IN  /\ new \in Seq(Instances) /\ Len(new) = Len(old)
              /\ \A i \in DOMAIN old :
                   /\ new[i].plugin = old[i].plugin /\ new[i].state = old[i].state
                   /\ new[i].initialized = IF i = k THEN TRUE ELSE old[i].initialized
      BY ONLY <3>1, InitializedWritten
    <3>3. /\ SameObjects /\ instances'[k].initialized /\ instances'[k].state = "active"
          /\ \A i \in DOMAIN instances : i # k =>
               /\ instances'[i].state = instances[i].state
               /\ instances'[i].initialized = instances[i].initialized
      BY <2>4, <2>8, <3>1, <3>2 DEF SameObjects
    <3> QED
      BY <1>0, <1>2, <2>2, <2>3, <2>6, <3>3, ResourcesGiven
  <2>9. CASE instances' = SetState(p, "error")
    <3>1. /\ SameObjects
          /\ \A i \in DOMAIN instances :
               /\ instances'[i].initialized = instances[i].initialized
               /\ instances'[i].state = IF i = k THEN "error" ELSE instances[i].state
      BY <1>0, <2>2, <2>3, <2>5, <2>9, StateWritten DEF SameObjects
    <3>2. ~instances[k].initialized
      BY <1>0, <2>4, <2>6 DEF ResourcesTracked, Cleans
    <3> QED
      BY <1>0, <1>2, <2>2, <2>3, <2>4, <2>6, <3>1, <3>2, ResourcesGiven
  <2> QED
    BY <1>1, <1>4, <2>2, <2>3, <2>7, <2>8, <2>9 DEF FinishInitialize
<1>5. CASE FinishCleanup(t)
  <2>1. Top(t).pc = "cleanup" /\ p \in Plugins
    BY <1>0, <1>1, <1>2, <1>5, TopFrame DEF FinishCleanup, Resumed, Stands
  <2>2. PICK k : k = registered[p]
    OBVIOUS
  <2>3. p \in InState("inactive") /\ Top(t).id = k
    BY <1>0, <1>1, <1>2, <2>1, <2>2 DEF StackInv, Stopping
  <2>4. k \in DOMAIN instances /\ instances[k].state = "inactive" /\ Registered(p)
    BY <1>0, <2>1, <2>2, <2>3, Still DEF InState, StateOf
  <2>5. /\ instances' = [instances EXCEPT ![k].initialized = FALSE]
        /\ CleansNothing(t)'
    BY <1>3, <1>5, <2>3 DEF FinishCleanup
  <2>6. LET new == [instances EXCEPT ![k].initialized = FALSE]
        IN  /\ new \in Seq(Instances) /\ Len(new) = Len(instances)
            /\ \A i \in DOMAIN instances :
                 /\ new[i].plugin = instances[i].plugin /\ new[i].state = instances[i].state
                 /\ new[i].initialized = IF i = k THEN FALSE ELSE instances[i].initialized
    <3>1. instances \in Seq(Instances)
      BY <1>0, Still
    <3> QED
      BY ONLY <3>1, InitializedWritten
  <2>7. /\ SameObjects /\ ~instances'[k].initialized /\ instances'[k].state # "active"
        /\ \A i \in DOMAIN instances : i # k =>
             /\ instances'[i].state = instances[i].state
             /\ instances'[i].initialized = instances[i].initialized
    BY <2>4, <2>5, <2>6 DEF SameObjects
  <2>8. /\ \A i : ~Cleans(t, i)'
        /\ \A i : i # k => ~Cleans(t, i)
    BY <2>3, <2>5 DEF Cleans, CleansNothing
  <2> QED
    BY <1>0, <1>2, <2>1, <2>2, <2>4, <2>7, <2>8, ResourcesGiven
<1> QED
  BY <1>4, <1>5 DEF Resume

LEMMA ResourcesArrival ==
    ASSUME SingleInv, SingleInv', ResourcesTracked, Alone, NEW t \in Tasks, Arrival(t)
    PROVE  ResourcesTracked'
<1>0. TypesInv /\ TypesInv'
  BY DEF SingleInv, AttendedInv
<1>1. InState("active")' = InState("active")
  BY <1>0, LoneArrival
<1>2. CleansNothing(t)
  BY DEF Arrival, Load, Call, Idle, CleansNothing
<1>3. ASSUME NEW op, NEW p, Call(t, op, p) PROVE ResourcesTracked'
  <2>1. stack'[t] = <<Frame(op, p)>> /\ UNCHANGED <<instances, registered>>
    BY <1>0, <1>3 DEF Call, TypesInv, TypeOK
  <2>2. Head(stack'[t]).pc # "cleanup"
    BY <2>1 DEF Frame
  <2>3. CleansNothing(t)'
    BY <2>2 DEF CleansNothing, Top
  <2> QED
    BY <1>0, <1>1, <1>2, <2>1, <2>3, ResourcesKept
<1>4. ASSUME NEW p \in Plugins, Load(t, p) PROVE ResourcesTracked'
  <2>1. stack' = stack
    BY <1>4 DEF Load
  <2>2. CleansNothing(t)'
    BY <1>2, <2>1 DEF CleansNothing, Top
  <2>3. CASE UNCHANGED <<instances, registered>>
    BY <1>0, <1>1, <1>2, <2>2, <2>3, ResourcesKept
  <2>4. CASE /\ ~Registered(p)
             /\ instances' = Append(instances, [plugin |-> p, state |-> "discovered",
                                                initialized |-> FALSE])
             /\ registered' = [registered EXCEPT ![p] = Len(instances) + 1]
    <3>1. PICK x : x = [plugin |-> p, state |-> "discovered", initialized |-> FALSE]
      OBVIOUS
    <3>2. x \in Instances /\ x.state = "discovered" /\ ~x.initialized /\ instances' = Append(instances, x)
      BY <2>4, <3>1 DEF Instances, States
    <3>3. /\ instances' \in Seq(Instances) /\ Len(instances') = Len(instances) + 1
          /\ \A i \in 1 .. Len(instances) : instances'[i] = instances[i]
          /\ instances'[Len(instances) + 1] = x
      BY <1>0, <3>2, Still, AppendProperties
    <3>4. DOMAIN instances' = 1 .. Len(instances) + 1 /\ DOMAIN instances = 1 .. Len(instances)
          /\ Len(instances) \in Nat
      BY <1>0, <3>3, Still, LenProperties
    <3>5. /\ DOMAIN instances \subseteq DOMAIN instances'
          /\ \A i \in DOMAIN instances : /\ instances'[i].plugin = instances[i].plugin
                                         /\ instances'[i].initialized = instances[i].initialized
          /\ \A i \in DOMAIN instances' : i \notin DOMAIN instances =>
               ~instances'[i].initialized /\ instances'[i].state # "active"
      BY <3>2, <3>3, <3>4
    <3>6. \A q \in InState("active") : registered'[q] = registered[q]
      <4>1. p \notin InState("active") /\ InState("active") \subseteq Plugins
        BY <2>4 DEF InState
      <4> QED
        BY <1>0, <2>4, <4>1, Still
    <3> QED
      BY <1>0, <1>1, <1>2, <2>2, <3>5, <3>6, ResourcesKept
  <2> QED
    BY <1>4, <2>3, <2>4 DEF Load
<1> QED
  BY <1>3, <1>4 DEF Arrival

\* With a single task and plugins whose clean-up does not fail, an object
\* holds resources exactly while it is registered and active, or being
\* cleaned up (base.py:179-201).
THEOREM ResourcesTrackedAlone ==
    ASSUME Alone, "cleanup" \notin Faulty
    PROVE  Spec => []ResourcesTracked
<1>1. Init => ResourcesTracked
  BY DEF Init, ResourcesTracked
<1>2. SingleInv /\ SingleInv' /\ [Next]_vars /\ ResourcesTracked => ResourcesTracked'
  <2> SUFFICES ASSUME SingleInv, SingleInv', [Next]_vars, ResourcesTracked
               PROVE  ResourcesTracked'
    OBVIOUS
  <2>1. CASE UNCHANGED vars
    BY <2>1 DEF vars, ResourcesTracked, Top
  <2>2. CASE Next
    BY <2>2, ResourcesArrival, ResourcesRun, ResourcesResume DEF Next
  <2> QED
    BY <2>1, <2>2
<1> QED
  BY <1>1, <1>2, LoneInvariant, PTL DEF Spec
=============================================================================
