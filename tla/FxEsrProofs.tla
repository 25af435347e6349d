---------------------------- MODULE FxEsrProofs ----------------------------
(***************************************************************************)
(* Frames of service routines nest, and no routine that was activated      *)
(* waits below one whose level it is above: for every set of routines with *)
(* levels of their own, and every capacity of the queue.  A message that   *)
(* the queue accepted is in it or with one routine.                        *)
(***************************************************************************)
EXTENDS FxEsr, RtlQueueProofs, FiniteSetTheorems

Ready(e) == ~suspended[e]

Best(e) == e \in AnyEsr /\ Ready(e)
             /\ \A f \in AnyEsr : Ready(f) => Epl[e] <= Epl[f]

(* The container has the routines that are ready, and the one that the     *)
(* scheduler believes to be active is the best of them unless a dispatch   *)
(* is requested.                                                           *)
SchedOK ==
  /\ container.items_map = {Epl[e] : e \in {f \in AnyEsr : Ready(f)}}
  /\ \A e \in AnyEsr : Ready(e) => container.items[Epl[e]] = e
  /\ Ready(IdleEsr)
  /\ resched_pending = swi
  /\ ~swi => Best(sched_active)

(* Only a routine that has a frame runs at another level than its own.     *)
LevelsOK ==
  \A e \in AnyEsr : epl[e] <= Epl[e] /\ (~active[e] => epl[e] = Epl[e])

(* The frames up to the one that the dispatcher starts from are those of   *)
(* the active routines, in the order of their levels; a frame above them   *)
(* was left by a routine that has ended.                                   *)
FramesOK ==
  /\ Base \in 1 .. Len(stack)
  /\ stack[1] = IdleEsr
  /\ \A e \in AnyEsr : active[e] <=> \E k \in 1 .. Base : stack[k] = e
  /\ \A k \in 2 .. Base : intr_context[stack[k]] = k - 1
  /\ \A j, k \in 1 .. Base : j < k => Epl[stack[k]] < Epl[stack[j]]
  /\ \A e \in AnyEsr : active[e] => Ready(e)
  /\ current_esr # NoEsr => virtual_frame = 0 /\ current_esr = Running
  /\ current_esr = NoEsr => swi

IInv == TypeOK /\ SchedOK /\ LevelsOK /\ FramesOK /\ NoLostPreemption

(* What TypeOK says of the scheduler.                                      *)
SchedTypes ==
  /\ container \in [items_map : SUBSET Level,
                    items : [Level -> AnyEsr \cup {NoEsr}]]
  /\ resched_pending \in BOOLEAN /\ swi \in BOOLEAN
  /\ sched_active \in AnyEsr
  /\ suspended \in [AnyEsr -> BOOLEAN]

-----------------------------------------------------------------------------
(* Levels are numbers, and tell routines apart.                            *)
LEMMA LevelFacts ==
  /\ Level \in SUBSET Nat
  /\ \A e \in AnyEsr : Epl[e] \in Nat /\ Epl[e] \in Level
  /\ \A e, f \in AnyEsr : Epl[e] = Epl[f] => e = f
  /\ IdleEsr \in AnyEsr /\ IdleEsr \notin Esr /\ NoEsr \notin AnyEsr
  /\ Esr \in SUBSET AnyEsr
BY EsrAssumption DEF Level, AnyEsr

(* The search of the bitmap finds the best routine that is ready.          *)
LEMMA ContainerGetBest ==
  ASSUME SchedTypes, SchedOK
  PROVE  Best(ContainerGet(container))
<1> DEFINE S == container.items_map
           m == Min(S)
<1>1. S = {Epl[e] : e \in {f \in AnyEsr : Ready(f)}}
  BY DEF SchedOK
<1>2. S \in SUBSET Nat /\ S # {}
  BY <1>1, LevelFacts DEF SchedOK
<1>3. \E x \in S : \A y \in S : x <= y
  <2> HIDE DEF S
  <2> QED BY <1>2, LeastElement
<1>4. m \in S /\ \A y \in S : m <= y
  <2> HIDE DEF S
  <2> QED BY <1>3 DEF Min
<1>5. PICK e \in AnyEsr : Ready(e) /\ m = Epl[e]
  BY <1>1, <1>4
<1>6. ContainerGet(container) = e
  BY <1>5 DEF ContainerGet, SchedOK
<1>7. \A f \in AnyEsr : Ready(f) => Epl[e] <= Epl[f]
  BY <1>1, <1>4, <1>5
<1> QED BY <1>5, <1>6, <1>7 DEF Best

(* fx_sched_item_resume makes routines ready; it requests a dispatch if    *)
(* one of them is better than the one that is active.                      *)
LEMMA ResumeKeeps ==
  ASSUME SchedTypes, SchedOK, NEW E \in SUBSET Esr, Resume(E)
  PROVE  /\ SchedTypes' /\ SchedOK'
         /\ sched_active' = sched_active
         /\ swi => swi'
         /\ \A e \in AnyEsr : Ready(e) => Ready(e)'
         /\ ~swi' => \A e \in AnyEsr : Ready(e)' =>
                       Ready(e) \/ Epl[sched_active] < Epl[e]
<1> DEFINE W == {e \in E : suspended[e]}
           c == ContainerAddAll(container, Epl, W)
<1>1. W \in SUBSET AnyEsr /\ W \in SUBSET Esr
  BY LevelFacts
<1>2. /\ suspended' = [e \in AnyEsr |-> suspended[e] /\ e \notin W]
      /\ container' = c
      /\ sched_active' = sched_active
      /\ IF \E e \in W : Epl[e] <= Epl[sched_active]
         THEN resched_pending' = TRUE /\ swi' = TRUE
         ELSE UNCHANGED << resched_pending, swi >>
  BY DEF Resume
<1>3. \A e \in AnyEsr : Ready(e)' <=> Ready(e) \/ e \in W
  BY <1>2 DEF Ready, SchedTypes
<1>4. \A e \in W : ~Ready(e)
  BY DEF Ready
<1> HIDE DEF W
<1>5. /\ c.items_map = container.items_map \cup {Epl[e] : e \in W}
      /\ c.items = [p \in Level |->
                      IF \E i \in W : Epl[i] = p
                      THEN CHOOSE i \in W : Epl[i] = p ELSE container.items[p]]
      /\ c = [items_map |-> c.items_map, items |-> c.items]
  BY DEF ContainerAddAll, SchedTypes
<1>6. \A e \in W : c.items[Epl[e]] = e
  <2> SUFFICES ASSUME NEW e \in W PROVE c.items[Epl[e]] = e
    OBVIOUS
  <2>1. Epl[e] \in Level /\ \E i \in W : Epl[i] = Epl[e]
    BY <1>1, LevelFacts
  <2>2. c.items[Epl[e]] = CHOOSE i \in W : Epl[i] = Epl[e]
    BY <1>5, <2>1
  <2>3. (CHOOSE i \in W : Epl[i] = Epl[e]) \in W
        /\ Epl[CHOOSE i \in W : Epl[i] = Epl[e]] = Epl[e]
    BY <2>1
  <2> QED BY <2>2, <2>3, <1>1, LevelFacts
<1>7. \A e \in AnyEsr \ W : c.items[Epl[e]] = container.items[Epl[e]]
  <2> SUFFICES ASSUME NEW e \in AnyEsr \ W
               PROVE  c.items[Epl[e]] = container.items[Epl[e]]
    OBVIOUS
  <2>1. Epl[e] \in Level /\ ~\E i \in W : Epl[i] = Epl[e]
    BY <1>1, LevelFacts
  <2> QED BY <1>5, <2>1
<1>8. c \in [items_map : SUBSET Level, items : [Level -> AnyEsr \cup {NoEsr}]]
  <2>1. c.items_map \in SUBSET Level
    BY <1>1, <1>5, LevelFacts DEF SchedTypes
  <2>2. \A p \in Level : c.items[p] \in AnyEsr \cup {NoEsr}
    <3> TAKE p \in Level
    <3>1. CASE \E i \in W : Epl[i] = p
      BY <3>1, <1>1, <1>5
    <3>2. CASE ~\E i \in W : Epl[i] = p
      BY <3>2, <1>5 DEF SchedTypes
    <3> QED BY <3>1, <3>2
  <2>3. c.items \in [Level -> AnyEsr \cup {NoEsr}]
    BY <1>5, <2>2
  <2> QED BY <1>5, <2>1, <2>3
<1>9. SchedTypes'
  BY <1>2, <1>8 DEF SchedTypes
<1> HIDE DEF c
<1>10. SchedOK'
  <2>1. container'.items_map = {Epl[e] : e \in {f \in AnyEsr : Ready(f)'}}
    BY <1>1, <1>2, <1>3, <1>5 DEF SchedOK
  <2>2. ASSUME NEW e \in AnyEsr, Ready(e)'
        PROVE  container'.items[Epl[e]] = e
    BY <2>2, <1>2, <1>3, <1>6, <1>7 DEF SchedOK
  <2>3. Ready(IdleEsr)'
    BY <1>3, LevelFacts DEF SchedOK
  <2>4. resched_pending' = swi'
    BY <1>2 DEF SchedOK
  <2>5. ASSUME ~swi' PROVE Best(sched_active)'
    <3>1. ~swi /\ \A e \in W : ~(Epl[e] <= Epl[sched_active])
      BY <2>5, <1>2
    <3>2. Best(sched_active)
      BY <3>1 DEF SchedOK
    <3> QED BY <1>1, <1>2, <1>3, <3>1, <3>2, LevelFacts DEF Best
  <2> QED BY <2>1, <2>2, <2>3, <2>4, <2>5 DEF SchedOK
<1>11. swi => swi'
  BY <1>2 DEF SchedTypes
<1>12. ASSUME ~swi', NEW e \in AnyEsr, Ready(e)', ~Ready(e)
       PROVE  Epl[sched_active] < Epl[e]
  <2>1. e \in W /\ ~(Epl[e] <= Epl[sched_active])
    BY <1>12, <1>2, <1>3
  <2> QED BY <2>1, LevelFacts DEF SchedTypes
<1> QED BY <1>2, <1>3, <1>9, <1>10, <1>11, <1>12

(* A routine other than the idle one leaves the container, and a dispatch  *)
(* is requested if it was active.                                          *)
LEMMA SuspendKeeps ==
  ASSUME SchedTypes, SchedOK, NEW e \in Esr, Ready(e),
         container' = ContainerRemove(container, Epl[e], NoEsr),
         suspended' = [suspended EXCEPT ![e] = TRUE],
         sched_active' = sched_active,
         resched_pending' \in BOOLEAN, swi' = resched_pending',
         sched_active # e /\ ~swi' => ~swi,
         sched_active = e => swi'
  PROVE  /\ SchedTypes' /\ SchedOK'
         /\ \A f \in AnyEsr : Ready(f)' <=> Ready(f) /\ f # e
<1>1. \A f \in AnyEsr : Ready(f)' <=> Ready(f) /\ f # e
  BY DEF Ready, SchedTypes
<1>2. /\ container'.items_map = container.items_map \ {Epl[e]}
      /\ container'.items = [container.items EXCEPT ![Epl[e]] = NoEsr]
      /\ container' \in [items_map : SUBSET Level,
                         items : [Level -> AnyEsr \cup {NoEsr}]]
  BY LevelFacts DEF ContainerRemove, SchedTypes
<1>3. SchedTypes'
  BY <1>2, LevelFacts DEF SchedTypes
<1>4. e \in AnyEsr /\ e # IdleEsr
  BY LevelFacts
<1>5. SchedOK'
  <2>1. container'.items_map = {Epl[g] : g \in {f \in AnyEsr : Ready(f)'}}
    BY <1>1, <1>2, <1>4, LevelFacts DEF SchedOK
  <2>2. ASSUME NEW f \in AnyEsr, Ready(f)'
        PROVE  container'.items[Epl[f]] = f
    <3>1. f # e /\ Ready(f) /\ Epl[f] # Epl[e] /\ Epl[f] \in Level
      BY <2>2, <1>1, <1>4, LevelFacts
    <3> QED BY <3>1, <1>2 DEF SchedOK, SchedTypes
  <2>3. Ready(IdleEsr)'
    BY <1>1, <1>4, LevelFacts DEF SchedOK
  <2>4. ASSUME ~swi' PROVE Best(sched_active)'
    <3>1. sched_active # e /\ Best(sched_active)
      BY <2>4 DEF SchedOK
    <3> QED BY <3>1, <1>1 DEF Best
  <2> QED BY <2>1, <2>2, <2>3, <2>4 DEF SchedOK
<1> QED BY <1>1, <1>3, <1>5

-----------------------------------------------------------------------------
(* The best of the routines that are ready has the last of the frames, if  *)
(* it has any.                                                             *)
LEMMA BestOnTop ==
  ASSUME TypeOK, FramesOK, NEW e, Best(e), active[e]
  PROVE  e = stack[Base]
<1>1. /\ e \in AnyEsr
      /\ \A f \in AnyEsr : Ready(f) => Epl[e] <= Epl[f]
  BY DEF Best
<1>2. Base \in 1 .. Len(stack) /\ Len(stack) \in Nat
  BY LenProperties DEF FramesOK, TypeOK
<1>3. stack[Base] \in AnyEsr
  BY <1>2, ElementOfSeq DEF TypeOK
<1>4. Base \in 1 .. Base
  BY <1>2
<1>5. active[stack[Base]]
  BY <1>3, <1>4 DEF FramesOK
<1>6. Epl[e] <= Epl[stack[Base]]
  BY <1>1, <1>3, <1>5 DEF FramesOK
<1>7. PICK k \in 1 .. Base : stack[k] = e
  BY <1>1 DEF FramesOK
<1>8. k < Base => Epl[stack[Base]] < Epl[stack[k]]
  BY <1>4, <1>7 DEF FramesOK
<1>9. k = Base
  BY <1>1, <1>2, <1>3, <1>6, <1>7, <1>8, LevelFacts
<1> QED BY <1>7, <1>9

(* A routine that calls something has the last frame.                      *)
LEMMA CallerOnTop ==
  ASSUME TypeOK, FramesOK, NEW e \in AnyEsr, Calls(e)
  PROVE  /\ Len(stack) \in Nat /\ Len(stack) >= 1 /\ Base = Len(stack)
         /\ virtual_frame = 0 /\ current_esr = e /\ stack[Len(stack)] = e
         /\ active[e] /\ Ready(e)
<1>1. current_esr = e /\ e = Running
  BY DEF Calls
<1>2. virtual_frame = 0
  BY <1>1, LevelFacts DEF FramesOK
<1>3. Base = Len(stack) /\ Base \in 1 .. Base
  BY <1>2, LenProperties DEF FramesOK, TypeOK, Base
<1>4. active[e]
  BY <1>1, <1>3 DEF FramesOK, Running
<1> QED BY <1>1, <1>2, <1>3, <1>4, LenProperties DEF FramesOK, Running, TypeOK

(* Steps that leave the frames alone keep them in order.                   *)
LEMMA SameFrames ==
  ASSUME TypeOK, FramesOK, UNCHANGED frameVars,
         \A e \in AnyEsr : active[e] => Ready(e)',
         swi => swi'
  PROVE  FramesOK'
<1>1. Base' = Base /\ Running' = Running
  BY DEF Base, Running, frameVars
<1> QED BY <1>1 DEF FramesOK, frameVars

(* After a step that resumes routines and leaves the frames alone, nobody  *)
(* waits below a routine that runs, because the one that the scheduler     *)
(* believes to be active is the best of those that were ready.             *)
LEMMA ResumeKeepsOrder ==
  ASSUME IInv, NEW E \in SUBSET Esr, Resume(E),
         UNCHANGED << frameVars, epl >>
  PROVE  SchedTypes' /\ SchedOK' /\ LevelsOK' /\ FramesOK' /\ NoLostPreemption'
<1>1. SchedTypes
  BY DEF IInv, TypeOK, SchedTypes
<1>2. /\ SchedTypes' /\ SchedOK'
      /\ sched_active' = sched_active
      /\ swi => swi'
      /\ \A e \in AnyEsr : Ready(e) => Ready(e)'
      /\ ~swi' => \A e \in AnyEsr : Ready(e)' =>
                    Ready(e) \/ Epl[sched_active] < Epl[e]
  BY <1>1, ResumeKeeps DEF IInv
<1>3. FramesOK'
  BY <1>2, SameFrames DEF IInv, FramesOK
<1>4. LevelsOK'
  BY DEF IInv, LevelsOK, frameVars
<1>5. ASSUME ~swi', NEW e \in Esr, Ready(e)', ~active[e]
      PROVE  epl[current_esr] <= Epl[e]
  <2>1. ~swi /\ e \in AnyEsr /\ current_esr = Running /\ virtual_frame = 0
    BY <1>2, <1>5, LevelFacts DEF IInv, FramesOK
  <2>2. Best(sched_active)
    BY <2>1 DEF IInv, SchedOK
  <2>3. Base = Len(stack) /\ current_esr = stack[Base]
    BY <2>1 DEF Base, Running
  <2>4. current_esr \in AnyEsr
    BY <2>1, <2>3, ElementOfSeq DEF IInv, FramesOK, TypeOK
  <2>5. /\ epl[current_esr] \in Nat /\ epl[current_esr] <= Epl[current_esr]
        /\ Epl[current_esr] \in Nat /\ Epl[e] \in Nat
        /\ Epl[sched_active] \in Nat /\ sched_active \in AnyEsr
    BY <2>1, <2>4, LevelFacts DEF IInv, TypeOK, LevelsOK
  <2>6. CASE Ready(e)
    BY <1>5, <2>1, <2>6 DEF IInv, NoLostPreemption, Ready
  <2>7. CASE ~Ready(e)
    <3>1. Epl[sched_active] < Epl[e]
      BY <1>2, <1>5, <2>1, <2>7
    <3>2. CASE active[sched_active]
      <4>1. sched_active = current_esr
        BY <2>2, <2>3, <3>2, BestOnTop DEF IInv
      <4> QED BY <2>5, <3>1, <4>1
    <3>3. CASE ~active[sched_active]
      <4>1. active[IdleEsr]
        <5>1. 1 \in 1 .. Base
          BY LenProperties DEF IInv, FramesOK, TypeOK
        <5> QED BY <5>1, LevelFacts DEF IInv, FramesOK
      <4>2. sched_active \in Esr
        BY <2>5, <3>3, <4>1 DEF AnyEsr
      <4>3. epl[current_esr] <= Epl[sched_active]
        BY <2>1, <2>2, <3>3, <4>2 DEF IInv, NoLostPreemption, Best, Ready
      <4> QED BY <2>5, <3>1, <4>3
    <3> QED BY <3>2, <3>3
  <2> QED BY <2>6, <2>7
<1>6. NoLostPreemption'
  BY <1>5 DEF NoLostPreemption, Ready, frameVars
<1> QED BY <1>2, <1>3, <1>4, <1>6

(* A routine that ends or waits leaves the frame that it interrupted to    *)
(* the dispatcher.                                                         *)
LEMMA LeaveKeepsOrder ==
  ASSUME TypeOK, LevelsOK, FramesOK, NEW e \in Esr, Calls(e), epl[e] = Epl[e],
         LeaveFrame(e), UNCHANGED epl, swi',
         \A f \in AnyEsr : Ready(f) /\ f # e => Ready(f)'
  PROVE  LevelsOK' /\ FramesOK' /\ NoLostPreemption'
<1> DEFINE n == Len(stack)
<1>1. /\ n \in Nat /\ Base = n /\ virtual_frame = 0 /\ stack[n] = e
      /\ e \in AnyEsr /\ e # IdleEsr /\ n >= 1
  BY CallerOnTop, LevelFacts
<1>2. n >= 2
  BY <1>1 DEF FramesOK
<1>3. intr_context[e] = n - 1
  BY <1>1, <1>2 DEF FramesOK
<1>4. /\ virtual_frame' = n - 1 /\ current_esr' = NoEsr
      /\ active' = [active EXCEPT ![e] = FALSE]
      /\ UNCHANGED << intr_context, stack >>
  BY <1>3 DEF LeaveFrame
<1>5. Base' = n - 1
  BY <1>1, <1>2, <1>4 DEF Base
<1> HIDE DEF n
<1>6. \A f \in AnyEsr : active'[f] <=> active[f] /\ f # e
  BY <1>1, <1>4 DEF TypeOK
<1>7. \A k \in 1 .. n - 1 : stack[k] # e
  <2> SUFFICES ASSUME NEW k \in 1 .. n - 1, stack[k] = e PROVE FALSE
    OBVIOUS
  <2>1. Epl[stack[n]] < Epl[stack[k]]
    BY <1>1 DEF FramesOK
  <2> QED BY <1>1, <2>1, LevelFacts
<1>8. FramesOK'
  <2>1. Base' \in 1 .. Len(stack')
    BY <1>1, <1>2, <1>4, <1>5 DEF n
  <2>2. ASSUME NEW f \in AnyEsr
        PROVE  active'[f] <=> \E k \in 1 .. n - 1 : stack[k] = f
    <3>1. active[f] <=> \E k \in 1 .. n : stack[k] = f
      BY <1>1 DEF FramesOK
    <3>2. ASSUME active'[f] PROVE \E k \in 1 .. n - 1 : stack[k] = f
      <4>1. PICK k \in 1 .. n : stack[k] = f
        BY <3>1, <3>2, <1>6
      <4>2. k # n
        BY <4>1, <3>2, <1>1, <1>6
      <4> QED BY <4>1, <4>2, <1>1
    <3>3. ASSUME NEW k \in 1 .. n - 1, stack[k] = f PROVE active'[f]
      BY <3>1, <3>3, <1>1, <1>6, <1>7
    <3> QED BY <3>2, <3>3
  <2>3. \A f \in AnyEsr : active'[f] => Ready(f)'
    BY <1>6 DEF FramesOK
  <2>4. \A k \in 2 .. n - 1 : intr_context[stack[k]] = k - 1
    BY <1>1 DEF FramesOK
  <2>5. \A j, k \in 1 .. n - 1 : j < k => Epl[stack[k]] < Epl[stack[j]]
    BY <1>1 DEF FramesOK
  <2> QED BY <1>4, <1>5, <2>1, <2>2, <2>3, <2>4, <2>5 DEF FramesOK
<1>9. LevelsOK'
  BY <1>4, <1>6 DEF LevelsOK
<1>10. NoLostPreemption'
  BY DEF NoLostPreemption
<1> QED BY <1>8, <1>9, <1>10

-----------------------------------------------------------------------------
(* Queues keep their types.                                                *)
LEMMA QueueTypes ==
  ASSUME NEW Item, NEW s \in Seq(Item)
  PROVE  /\ \A i \in Item : Append(s, i) \in Seq(Item)
                            /\ Unlink(s, i) \in Seq(Item)
         /\ s # << >> => Head(s) \in Item /\ Tail(s) \in Seq(Item)
         /\ ToSet(s) \in SUBSET Item
         /\ << >> \in Seq(Item)
<1>1. ASSUME NEW i \in Item PROVE Unlink(s, i) \in Seq(Item)
  <2>1. CASE Linked(s, i)
    <3>1. (CHOOSE k \in 1 .. Len(s) : s[k] = i) \in 1 .. Len(s)
      BY <2>1 DEF Linked
    <3> QED BY <2>1, <3>1, RemoveAtProperties DEF Unlink
  <2> QED BY <2>1 DEF Unlink
<1>2. ToSet(s) \in SUBSET Item
  BY LenProperties, ElementOfSeq DEF ToSet
<1> QED BY <1>1, <1>2, AppendProperties, HeadTailProperties, EmptySeq

(* What TypeOK says of the frames, and of the messages.                    *)
FrameTypes ==
  /\ current_esr \in AnyEsr \cup {NoEsr}
  /\ virtual_frame \in Nat
  /\ active \in [AnyEsr -> BOOLEAN]
  /\ intr_context \in [AnyEsr -> Nat]
  /\ stack \in Seq(AnyEsr) /\ stub \subseteq Esr

MsgTypes ==
  /\ msg \in [AnyEsr -> Msg \cup Order \cup {NoMsg}]
  /\ recv_wtbl \in Seq(Esr) /\ queue \in Seq(Msg)
  /\ valid \subseteq Esr \cup {TheQueue} /\ inflight \subseteq Msg

(* TypeOK in the parts that steps change together.                         *)
LEMMA Types ==
  TypeOK <=> SchedTypes /\ FrameTypes /\ MsgTypes /\ epl \in [AnyEsr -> Level]
BY DEF TypeOK, SchedTypes, FrameTypes, MsgTypes

(* What follows from the lemmas about resuming and leaving.                *)
LEMMA ResumeInvariant ==
  ASSUME IInv, NEW E \in SUBSET Esr, Resume(E),
         UNCHANGED << frameVars, epl >>, MsgTypes'
  PROVE  IInv'
<1>1. SchedTypes' /\ SchedOK' /\ LevelsOK' /\ FramesOK' /\ NoLostPreemption'
  BY ResumeKeepsOrder
<1>2. FrameTypes' /\ epl' \in [AnyEsr -> Level]
  BY DEF IInv, TypeOK, FrameTypes, frameVars
<1>3. TypeOK'
  BY <1>1, <1>2 DEF TypeOK, SchedTypes, FrameTypes, MsgTypes
<1> QED BY <1>1, <1>3 DEF IInv

(* A routine that ends, or waits and perhaps goes on at once.              *)
LEMMA LeaveInvariant ==
  ASSUME IInv, NEW e \in Esr, Calls(e), epl[e] = Epl[e], LeaveFrame(e),
         SuspendSelf(e) \/ SuspendAndResume(e), UNCHANGED epl, MsgTypes'
  PROVE  IInv'
<1>1. SchedTypes /\ SchedOK /\ TypeOK /\ LevelsOK /\ FramesOK
  BY DEF IInv, TypeOK, SchedTypes
<1>2. Ready(e) /\ e \in AnyEsr
  BY <1>1, CallerOnTop, LevelFacts
<1>3. swi' /\ SchedTypes' /\ SchedOK'
      /\ \A f \in AnyEsr : Ready(f) /\ f # e => Ready(f)'
  <2>1. CASE SuspendSelf(e)
    <3>1. /\ container' = ContainerRemove(container, Epl[e], NoEsr)
          /\ suspended' = [suspended EXCEPT ![e] = TRUE]
          /\ sched_active' = sched_active
          /\ resched_pending' \in BOOLEAN /\ swi' = resched_pending' /\ swi'
      BY <2>1 DEF SuspendSelf
    <3>2. /\ SchedTypes' /\ SchedOK'
          /\ \A f \in AnyEsr : Ready(f)' <=> Ready(f) /\ f # e
      BY <1>1, <1>2, <3>1, SuspendKeeps
    <3> QED BY <3>1, <3>2
  <2>2. CASE SuspendAndResume(e)
    <3>1. /\ resched_pending' = TRUE /\ swi' = TRUE
          /\ UNCHANGED << container, suspended, sched_active >>
      BY <2>2 DEF SuspendAndResume
    <3>2. \A f : Ready(f)' <=> Ready(f)
      BY <3>1 DEF Ready
    <3>3. SchedTypes'
      BY <1>1, <3>1 DEF SchedTypes
    <3>4. SchedOK'
      BY <1>1, <3>1, <3>2 DEF SchedOK
    <3> QED BY <3>1, <3>2, <3>3, <3>4
  <2> QED BY <2>1, <2>2
<1>4. LevelsOK' /\ FramesOK' /\ NoLostPreemption'
  BY <1>1, <1>3, LeaveKeepsOrder
<1>5. FrameTypes'
  BY <1>2 DEF IInv, TypeOK, FrameTypes, LeaveFrame
<1>6. TypeOK'
  BY <1>1, <1>3, <1>5 DEF TypeOK, SchedTypes, FrameTypes, MsgTypes
<1> QED BY <1>3, <1>4, <1>6 DEF IInv

(* Steps of which only the bookkeeping of messages is left.                *)
LEMMA QuietInvariant ==
  ASSUME IInv, UNCHANGED << schedVars, epl, active, current_esr >>,
         UNCHANGED << virtual_frame, stack, intr_context >>,
         stub' \subseteq stub, MsgTypes'
  PROVE  IInv'
<1>1. \A e : Ready(e)' <=> Ready(e)
  BY DEF Ready, schedVars
<1>2. SchedOK'
  <2>1. \A e : Best(e)' <=> Best(e)
    BY <1>1 DEF Best
  <2> QED BY <1>1, <2>1 DEF IInv, SchedOK, schedVars
<1>3. FramesOK'
  <2>1. Base' = Base /\ Running' = Running
    BY DEF Base, Running
  <2> QED BY <1>1, <2>1 DEF IInv, FramesOK, schedVars
<1>4. LevelsOK' /\ NoLostPreemption'
  BY DEF IInv, LevelsOK, NoLostPreemption, schedVars
<1>5. TypeOK'
  BY DEF IInv, TypeOK, MsgTypes, schedVars
<1> QED BY <1>2, <1>3, <1>4, <1>5 DEF IInv

-----------------------------------------------------------------------------
(* The dispatcher either goes to the best routine, or stays because the    *)
(* current one runs at a level that the best is not above.                 *)
LEMMA DispatchInvariant ==
  ASSUME IInv, Dispatch PROVE IInv'
<1> DEFINE next == ContainerGet(container)
<1>1. SchedTypes /\ TypeOK /\ SchedOK /\ LevelsOK /\ FramesOK
  BY DEF IInv, TypeOK, SchedTypes
<1>2. Best(next)
  BY <1>1, ContainerGetBest
<1> HIDE DEF next
<1>3. /\ next \in AnyEsr /\ Ready(next)
      /\ \A f \in AnyEsr : Ready(f) => Epl[next] <= Epl[f]
  BY <1>2 DEF Best
<1>4. /\ swi /\ resched_pending /\ swi' = FALSE /\ resched_pending' = FALSE
      /\ virtual_frame' = 0 /\ sched_active' = next
      /\ UNCHANGED << container, suspended, msgqVars, epl, msg, valid >>
  BY <1>1 DEF Dispatch, SchedOK, next
<1>5. \A e : Ready(e)' <=> Ready(e)
  BY <1>4 DEF Ready
<1>6. SchedTypes' /\ SchedOK'
  <2>1. SchedTypes'
    BY <1>1, <1>3, <1>4 DEF SchedTypes
  <2>2. Best(sched_active)'
    BY <1>2, <1>4, <1>5 DEF Best
  <2> QED BY <1>1, <1>4, <1>5, <2>1, <2>2 DEF SchedOK
<1>7. MsgTypes' /\ epl' \in [AnyEsr -> Level]
  BY <1>1, <1>4 DEF TypeOK, MsgTypes, msgqVars
<1>8. /\ Base \in 1 .. Len(stack) /\ Len(stack) \in Nat /\ Base \in Nat
      /\ Base >= 1
  BY <1>1, LenProperties DEF FramesOK, TypeOK
<1>9. CASE current_esr = NoEsr \/ epl[next] < epl[current_esr]
  <2>1. SwitchTo(next)
    BY <1>4, <1>9 DEF Dispatch, next
  <2>2. current_esr' = next /\ active' = [active EXCEPT ![next] = TRUE]
    BY <2>1 DEF SwitchTo
  <2>3. \A e \in AnyEsr : active'[e] <=> active[e] \/ e = next
    BY <1>1, <1>3, <2>2 DEF TypeOK
  <2> DEFINE u == SubSeq(stack, 1, Base)
  <2>4. /\ u \in Seq(AnyEsr) /\ Len(u) = Base
        /\ \A k \in 1 .. Base : u[k] = stack[k]
    <3>1. \A k \in 1 .. Base : stack[k] \in AnyEsr
      BY <1>1, <1>8, ElementOfSeq DEF TypeOK
    <3>2. /\ u \in Seq(AnyEsr)
          /\ Len(u) = IF 1 <= Base THEN Base - 1 + 1 ELSE 0
          /\ \A k \in 1 .. Base - 1 + 1 : u[k] = stack[1 + k - 1]
      BY <3>1, <1>8, SubSeqProperties
    <3>3. Base - 1 + 1 = Base /\ \A k \in 1 .. Base : 1 + k - 1 = k
      BY <1>8
    <3> QED BY <1>8, <3>2, <3>3
  <2>5. \A e \in AnyEsr : active[e] => Ready(e)
    BY <1>1 DEF FramesOK
  <2>6. FrameTypes' /\ FramesOK'
    <3>1. CASE active[next]
      <4>1. stack' = u /\ UNCHANGED << intr_context, stub >>
        BY <2>1, <3>1 DEF SwitchTo
      <4>2. next = stack[Base]
        BY <1>1, <1>2, <3>1, BestOnTop
      <4> HIDE DEF u
      <4>3. Base' = Base /\ Running' = next
        BY <1>4, <1>8, <2>4, <4>1, <4>2 DEF Base, Running
      <4>4. FrameTypes'
        BY <1>1, <1>3, <1>4, <2>2, <2>4, <4>1 DEF TypeOK, FrameTypes
      <4>5. \A e \in AnyEsr : active'[e] <=> \E k \in 1 .. Base : u[k] = e
        <5>1. \A e \in AnyEsr : active[e] <=> \E k \in 1 .. Base : stack[k] = e
          BY <1>1 DEF FramesOK
        <5>2. \A e \in AnyEsr : active'[e] <=> active[e]
          BY <2>3, <3>1
        <5>3. \A k \in 1 .. Base : u[k] = stack[k]
          BY <2>4
        <5> HIDE DEF Base
        <5> QED BY <5>1, <5>2, <5>3
      <4>6. \A k \in 2 .. Base : intr_context[u[k]] = k - 1
        <5>1. \A k \in 2 .. Base : u[k] = stack[k]
          BY <1>8, <2>4
        <5> QED BY <1>1, <5>1 DEF FramesOK
      <4>7. \A j, k \in 1 .. Base : j < k => Epl[u[k]] < Epl[u[j]]
        BY <1>1, <2>4 DEF FramesOK
      <4>8. Base \in 1 .. Len(u) /\ u[1] = IdleEsr
        BY <1>1, <1>8, <2>4 DEF FramesOK
      <4>9. \A e \in AnyEsr : active'[e] => Ready(e)'
        BY <1>3, <1>5, <2>3, <2>5
      <4>10. current_esr' # NoEsr
        BY <1>3, <2>2, LevelFacts
      <4> QED BY <1>4, <2>2, <4>1, <4>3, <4>4, <4>5, <4>6, <4>7, <4>8, <4>9,
                 <4>10 DEF FramesOK
    <3>2. CASE ~active[next]
      <4> DEFINE t == Append(u, next)
      <4>1. /\ stack' = t /\ intr_context' = [intr_context EXCEPT ![next] = Base]
            /\ stub' = stub \cup {next}
        BY <2>1, <3>2 DEF SwitchTo
      <4> HIDE DEF u
      <4>2. /\ t \in Seq(AnyEsr) /\ Len(t) = Base + 1
            /\ \A k \in 1 .. Base : t[k] = stack[k]
            /\ t[Base + 1] = next
        BY <1>3, <2>4, AppendProperties
      <4> HIDE DEF t
      <4>3. Base' = Base + 1 /\ Running' = next
        BY <1>4, <4>1, <4>2 DEF Base, Running
      <4>4. next \in Esr
        <5>1. 1 \in 1 .. Base
          BY <1>8
        <5>2. active[IdleEsr]
          BY <1>1, <5>1, LevelFacts DEF FramesOK
        <5> QED BY <1>3, <3>2, <5>2 DEF AnyEsr
      <4>5. FrameTypes'
        <5>1. stub' \subseteq Esr
          BY <1>1, <4>1, <4>4 DEF TypeOK
        <5>2. intr_context' \in [AnyEsr -> Nat]
          BY <1>1, <1>8, <4>1 DEF TypeOK
        <5>3. active' \in [AnyEsr -> BOOLEAN]
          BY <1>1, <2>2 DEF TypeOK
        <5> QED BY <1>3, <1>4, <2>2, <4>1, <4>2, <5>1, <5>2, <5>3 DEF FrameTypes
      <4>6. \A k \in 1 .. Base : stack[k] \in AnyEsr /\ active[stack[k]]
              /\ stack[k] # next /\ Ready(stack[k])
        <5> TAKE k \in 1 .. Base
        <5>1. stack[k] \in AnyEsr
          BY <1>1, <1>8, ElementOfSeq DEF TypeOK
        <5>2. active[stack[k]]
          BY <1>1, <5>1 DEF FramesOK
        <5> QED BY <2>5, <3>2, <5>1, <5>2
      <4>7. ASSUME NEW e \in AnyEsr
            PROVE  active'[e] <=> \E k \in 1 .. Base + 1 : t[k] = e
        <5>1. active[e] <=> \E k \in 1 .. Base : stack[k] = e
          BY <1>1 DEF FramesOK
        <5>2. (\E k \in 1 .. Base : stack[k] = e) \/ e = next
                <=> \E k \in 1 .. Base + 1 : t[k] = e
          BY <1>8, <4>2
        <5> QED BY <2>3, <5>1, <5>2
      <4>8. ASSUME NEW k \in 2 .. Base + 1 PROVE intr_context'[t[k]] = k - 1
        <5>1. CASE k = Base + 1
          BY <1>1, <1>3, <1>8, <4>1, <4>2, <5>1 DEF TypeOK
        <5>2. CASE k # Base + 1
          <6>1. k \in 2 .. Base /\ k \in 1 .. Base
            BY <1>8, <5>2
          <6>2. intr_context[stack[k]] = k - 1 /\ stack[k] # next
            BY <1>1, <4>6, <6>1 DEF FramesOK
          <6> QED BY <1>1, <4>1, <4>2, <4>6, <6>1, <6>2 DEF TypeOK
        <5> QED BY <5>1, <5>2
      <4>9. ASSUME NEW j \in 1 .. Base + 1, NEW k \in 1 .. Base + 1, j < k
            PROVE  Epl[t[k]] < Epl[t[j]]
        <5>1. j \in 1 .. Base
          BY <1>8, <4>9
        <5>2. CASE k = Base + 1
          <6>1. /\ Epl[next] <= Epl[stack[j]] /\ stack[j] # next
                /\ stack[j] \in AnyEsr
            BY <1>3, <4>6, <5>1
          <6> QED BY <1>3, <4>2, <5>1, <5>2, <6>1, LevelFacts
        <5>3. CASE k # Base + 1
          <6>1. k \in 1 .. Base
            BY <1>8, <5>3
          <6> QED BY <1>1, <4>2, <4>9, <5>1, <6>1 DEF FramesOK
        <5> QED BY <5>2, <5>3
      <4>10. Base + 1 \in 1 .. Len(t) /\ t[1] = IdleEsr
        BY <1>1, <1>8, <4>2 DEF FramesOK
      <4>11. \A e \in AnyEsr : active'[e] => Ready(e)'
        BY <1>3, <1>5, <2>3, <2>5
      <4>12. current_esr' # NoEsr
        BY <1>3, <2>2, LevelFacts
      <4> QED BY <1>4, <2>2, <4>1, <4>3, <4>5, <4>7, <4>8, <4>9, <4>10, <4>11,
                 <4>12 DEF FramesOK
    <3> QED BY <3>1, <3>2
  <2>7. LevelsOK'
    BY <1>1, <1>4, <2>3 DEF LevelsOK
  <2>8. NoLostPreemption'
    <3>1. ASSUME NEW e \in Esr, Ready(e) PROVE epl[next] <= Epl[e]
      <4>1. e \in AnyEsr /\ Epl[next] <= Epl[e] /\ epl[next] <= Epl[next]
        BY <1>1, <1>3, <3>1, LevelFacts DEF LevelsOK
      <4>2. epl[next] \in Nat /\ Epl[next] \in Nat /\ Epl[e] \in Nat
        BY <1>1, <1>3, <4>1, LevelFacts DEF TypeOK
      <4> QED BY <4>1, <4>2
    <3> QED BY <1>4, <2>2, <3>1 DEF NoLostPreemption, Ready
  <2>9. TypeOK'
    BY <1>6, <1>7, <2>6 DEF TypeOK, SchedTypes, FrameTypes, MsgTypes
  <2> QED BY <1>6, <2>6, <2>7, <2>8, <2>9 DEF IInv
<1>10. CASE ~(current_esr = NoEsr \/ epl[next] < epl[current_esr])
  <2>1. UNCHANGED << current_esr, active, intr_context, stack, stub >>
    BY <1>4, <1>10 DEF Dispatch, next
  <2>2. virtual_frame = 0 /\ current_esr = Running /\ UNCHANGED virtual_frame
    BY <1>1, <1>4, <1>10 DEF FramesOK
  <2>3. Base' = Base /\ Running' = Running
    BY <2>1, <2>2 DEF Base, Running
  <2>4. FramesOK'
    BY <1>1, <1>5, <1>10, <2>1, <2>2, <2>3 DEF FramesOK
  <2>5. LevelsOK'
    BY <1>1, <1>4, <2>1 DEF LevelsOK
  <2>6. NoLostPreemption'
    <3>1. ASSUME NEW e \in Esr, Ready(e) PROVE epl[current_esr] <= Epl[e]
      <4>1. /\ e \in AnyEsr /\ Epl[next] <= Epl[e] /\ epl[next] <= Epl[next]
            /\ current_esr \in AnyEsr
        BY <1>1, <1>3, <1>10, <3>1, LevelFacts DEF LevelsOK, TypeOK
      <4>2. /\ epl[next] \in Nat /\ Epl[next] \in Nat /\ Epl[e] \in Nat
            /\ epl[current_esr] \in Nat /\ ~(epl[next] < epl[current_esr])
        BY <1>1, <1>3, <1>10, <4>1, LevelFacts DEF TypeOK
      <4> QED BY <4>1, <4>2
    <3> QED BY <1>4, <2>1, <3>1 DEF NoLostPreemption, Ready
  <2>7. TypeOK'
    BY <1>1, <1>4, <1>6, <1>7, <2>1 DEF TypeOK, SchedTypes, MsgTypes
  <2> QED BY <1>6, <2>4, <2>5, <2>6, <2>7 DEF IInv
<1> QED BY <1>9, <1>10

-----------------------------------------------------------------------------
(* Only the caller's level changes; raising it keeps nobody waiting that   *)
(* the old one did not, and lowering it requests a dispatch.               *)
LEMMA LevelInvariant ==
  ASSUME IInv, NEW e \in Esr, NEW p \in Level, RaisePl(e, p) \/ LowerPl(e, p)
  PROVE  IInv'
<1>1. TypeOK /\ SchedTypes /\ SchedOK /\ LevelsOK /\ FramesOK
  BY DEF IInv, TypeOK, SchedTypes
<1>2. Calls(e) /\ e \in AnyEsr
  BY LevelFacts DEF RaisePl, LowerPl
<1>3. current_esr = e /\ active[e] /\ ~swi
  BY <1>1, <1>2, CallerOnTop DEF Calls
<1>4. /\ epl' = [epl EXCEPT ![e] = p] /\ p <= Epl[e]
      /\ UNCHANGED << container, sched_active, suspended, frameVars, msgqVars,
                      msg, valid >>
      /\ \/ p < epl[e] /\ UNCHANGED << resched_pending, swi >>
         \/ resched_pending' = TRUE /\ swi' = TRUE
  <2>1. epl[e] \in Nat /\ epl[e] <= Epl[e] /\ Epl[e] \in Nat /\ p \in Nat
    BY <1>1, <1>2, LevelFacts DEF TypeOK, LevelsOK
  <2> QED BY <2>1 DEF RaisePl, LowerPl, schedVars
<1>5. TypeOK'
  <2>1. SchedTypes' /\ FrameTypes' /\ MsgTypes'
    BY <1>1, <1>4 DEF TypeOK, SchedTypes, FrameTypes, MsgTypes, frameVars, msgqVars
  <2>2. epl' \in [AnyEsr -> Level]
    BY <1>1, <1>4 DEF TypeOK
  <2> QED BY <2>1, <2>2 DEF TypeOK, SchedTypes, FrameTypes, MsgTypes
<1>6. \A f : Ready(f)' <=> Ready(f)
  BY <1>4 DEF Ready
<1>7. SchedOK'
  <2>1. ~swi' => Best(sched_active)'
    BY <1>1, <1>3, <1>4, <1>6 DEF SchedOK, Best
  <2>2. resched_pending' = swi'
    BY <1>1, <1>4 DEF SchedOK
  <2> QED BY <1>1, <1>4, <1>6, <2>1, <2>2 DEF SchedOK
<1>8. FramesOK'
  BY <1>1, <1>3, <1>4, <1>6, SameFrames DEF FramesOK
<1>9. LevelsOK'
  BY <1>1, <1>2, <1>3, <1>4 DEF LevelsOK, TypeOK, frameVars
<1>10. NoLostPreemption'
  <2>1. ASSUME ~swi', NEW f \in Esr, Ready(f), ~active[f]
        PROVE  epl'[e] <= Epl[f]
    <3>1. epl[e] <= Epl[f]
      BY <1>3, <2>1 DEF IInv, NoLostPreemption, Ready
    <3>2. p < epl[e] /\ epl'[e] = p
      BY <1>1, <1>2, <1>4, <2>1 DEF TypeOK
    <3>3. p \in Nat /\ epl[e] \in Nat /\ Epl[f] \in Nat
      BY <1>1, <1>2, LevelFacts DEF TypeOK
    <3> QED BY <3>1, <3>2, <3>3
  <2> QED BY <1>3, <1>4, <2>1 DEF NoLostPreemption, Ready, frameVars
<1> QED BY <1>5, <1>7, <1>8, <1>9, <1>10 DEF IInv

(* The destroyed routine is not active, so that only the scheduler knows   *)
(* it.                                                                     *)
LEMMA DeinitInvariant ==
  ASSUME IInv, NEW e \in Esr, Deinit(e) PROVE IInv'
<1>1. TypeOK /\ SchedTypes /\ SchedOK /\ LevelsOK /\ FramesOK
  BY DEF IInv, TypeOK, SchedTypes
<1>2. /\ ~active[e] /\ UNCHANGED << frameVars, recv_wtbl, queue, epl >>
      /\ valid' = valid \ {e} /\ inflight' = inflight \ {msg[e]}
      /\ msg' = [msg EXCEPT ![e] = NoMsg]
  BY DEF Deinit
<1>3. MsgTypes'
  BY <1>1, <1>2, LevelFacts DEF TypeOK, MsgTypes
<1>4. CASE suspended[e]
  <2>1. UNCHANGED schedVars
    BY <1>4 DEF Deinit
  <2> QED BY <1>2, <1>3, <2>1, QuietInvariant DEF frameVars
<1>5. CASE ~suspended[e]
  <2>1. /\ container' = ContainerRemove(container, Epl[e], NoEsr)
        /\ suspended' = [suspended EXCEPT ![e] = TRUE]
        /\ sched_active' = sched_active
        /\ IF sched_active = e
           THEN resched_pending' = TRUE /\ swi' = TRUE
           ELSE UNCHANGED << resched_pending, swi >>
    BY <1>5 DEF Deinit
  <2>2. /\ resched_pending' \in BOOLEAN /\ swi' = resched_pending'
        /\ sched_active # e => swi' = swi
        /\ sched_active = e => swi'
        /\ swi => swi'
    <3>1. resched_pending = swi /\ resched_pending \in BOOLEAN
      BY <1>1 DEF SchedTypes, SchedOK
    <3>2. CASE sched_active = e
      BY <2>1, <3>2
    <3>3. CASE sched_active # e
      BY <2>1, <3>1, <3>3
    <3> QED BY <3>2, <3>3
  <2>3. /\ SchedTypes' /\ SchedOK'
        /\ \A f \in AnyEsr : Ready(f)' <=> Ready(f) /\ f # e
    BY <1>1, <1>5, <2>1, <2>2, SuspendKeeps DEF Ready
  <2>4. FramesOK'
    BY <1>1, <1>2, <2>2, <2>3, SameFrames DEF FramesOK
  <2>5. LevelsOK'
    BY <1>1, <1>2 DEF LevelsOK, frameVars
  <2>6. NoLostPreemption'
    <3>1. ASSUME ~swi', NEW f \in Esr, Ready(f)', ~active[f]
          PROVE  epl[current_esr] <= Epl[f]
      BY <2>2, <2>3, <3>1, LevelFacts DEF IInv, NoLostPreemption, Ready
    <3> QED BY <1>2, <3>1 DEF NoLostPreemption, Ready, frameVars
  <2>7. TypeOK'
    <3>1. FrameTypes' /\ epl' \in [AnyEsr -> Level]
      BY <1>1, <1>2 DEF TypeOK, FrameTypes, frameVars
    <3> QED BY <1>3, <2>3, <3>1 DEF TypeOK, SchedTypes, FrameTypes, MsgTypes
  <2> QED BY <2>3, <2>4, <2>5, <2>6, <2>7 DEF IInv
<1> QED BY <1>4, <1>5

(* Activations, and what the queue does.                                   *)
LEMMA ActivateInvariant ==
  ASSUME IInv, NEW e \in Esr, NEW o \in Order \cup {NoMsg}, Activate(e, o)
  PROVE  IInv'
<1>1. UNCHANGED << frameVars, msgqVars, epl, valid >>
  BY DEF Activate
<1>2. CASE o = NoMsg \/ msg[e] = NoMsg
  <2>1. Resume({e}) /\ msg' = [msg EXCEPT ![e] = IF o = NoMsg THEN @ ELSE o]
    BY <1>2 DEF Activate
  <2>2. MsgTypes'
    BY <1>1, <2>1, LevelFacts DEF IInv, TypeOK, MsgTypes, msgqVars
  <2> QED BY <1>1, <2>1, <2>2, ResumeInvariant
<1>3. CASE ~(o = NoMsg \/ msg[e] = NoMsg)
  <2>1. UNCHANGED << msg, schedVars >>
    BY <1>3 DEF Activate
  <2>2. MsgTypes'
    BY <1>1, <2>1 DEF IInv, TypeOK, MsgTypes, msgqVars
  <2> QED BY <1>1, <2>1, <2>2, QuietInvariant DEF frameVars
<1> QED BY <1>2, <1>3

(* A message goes to the routine that has listened longest, or into the    *)
(* queue.                                                                  *)
LEMMA SendInvariant ==
  ASSUME IInv, NEW m \in Msg, Send(m) PROVE IInv'
<1>1. /\ UNCHANGED << frameVars, epl, valid >>
      /\ inflight' = inflight \cup {m}
  BY DEF Send
<1>2. /\ msg \in [AnyEsr -> Msg \cup Order \cup {NoMsg}]
      /\ recv_wtbl \in Seq(Esr) /\ queue \in Seq(Msg)
      /\ valid \subseteq Esr \cup {TheQueue} /\ inflight \subseteq Msg
  BY DEF IInv, TypeOK
<1>3. CASE queue = << >> /\ recv_wtbl # << >>
  <2>1. /\ msg' = [msg EXCEPT ![Head(recv_wtbl)] = m]
        /\ recv_wtbl' = Tail(recv_wtbl) /\ UNCHANGED queue
        /\ Resume({Head(recv_wtbl)})
    BY <1>3 DEF Send
  <2>2. Head(recv_wtbl) \in Esr /\ Tail(recv_wtbl) \in Seq(Esr)
    BY <1>2, <1>3, QueueTypes
  <2>3. MsgTypes'
    BY <1>1, <1>2, <2>1, <2>2 DEF MsgTypes
  <2>4. {Head(recv_wtbl)} \in SUBSET Esr
    BY <2>2
  <2> QED BY <1>1, <2>1, <2>3, <2>4, ResumeInvariant
<1>4. CASE ~(queue = << >> /\ recv_wtbl # << >>)
  <2>1. queue' = Append(queue, m) /\ UNCHANGED << msg, recv_wtbl, schedVars >>
    BY <1>4 DEF Send
  <2>2. Append(queue, m) \in Seq(Msg)
    BY <1>2, QueueTypes
  <2>3. MsgTypes'
    BY <1>1, <1>2, <2>1, <2>2 DEF MsgTypes
  <2> QED BY <1>1, <2>1, <2>3, QuietInvariant DEF frameVars
<1> QED BY <1>3, <1>4

(* A routine ends or listens; the message that it takes is one of the      *)
(* queue's.                                                                *)
LEMMA ListenInvariant ==
  ASSUME IInv, NEW e \in Esr, Exit(e) \/ Listen(e) PROVE IInv'
<1>1. /\ Calls(e) /\ epl[e] = Epl[e] /\ LeaveFrame(e) /\ UNCHANGED epl
      /\ SuspendSelf(e) \/ SuspendAndResume(e)
  BY DEF Exit, Listen
<1>2. /\ msg \in [AnyEsr -> Msg \cup Order \cup {NoMsg}]
      /\ recv_wtbl \in Seq(Esr) /\ queue \in Seq(Msg)
      /\ valid \subseteq Esr \cup {TheQueue} /\ inflight \subseteq Msg
  BY DEF IInv, TypeOK
<1>3. MsgTypes'
  <2>1. CASE Exit(e)
    BY <1>2, <2>1 DEF Exit, MsgTypes, msgqVars
  <2>2. CASE Listen(e) /\ queue # << >>
    <3>1. Head(queue) \in Msg /\ Tail(queue) \in Seq(Msg)
      BY <1>2, <2>2, QueueTypes
    <3> QED BY <1>2, <2>2, <3>1 DEF Listen, MsgTypes
  <2>3. CASE Listen(e) /\ queue = << >>
    <3>1. Append(recv_wtbl, e) \in Seq(Esr)
      BY <1>2, QueueTypes
    <3> QED BY <1>2, <2>3, <3>1 DEF Listen, MsgTypes
  <2> QED BY <2>1, <2>2, <2>3
<1> QED BY <1>1, <1>3, LeaveInvariant

(* The rest of what changes the queue: its destruction, the flush, the     *)
(* start of a routine, and listening without waiting.                      *)
LEMMA QueueStepsInvariant ==
  ASSUME IInv,
         MsgqDeinit \/ Flush \/ \E e \in Esr : Start(e) \/ Poll(e)
  PROVE  IInv'
<1>1. /\ msg \in [AnyEsr -> Msg \cup Order \cup {NoMsg}]
      /\ recv_wtbl \in Seq(Esr) /\ queue \in Seq(Msg)
      /\ valid \subseteq Esr \cup {TheQueue} /\ inflight \subseteq Msg
  BY DEF IInv, TypeOK
<1>2. /\ ToSet(recv_wtbl) \in SUBSET Esr
      /\ queue # << >> => Head(queue) \in Msg /\ Tail(queue) \in Seq(Msg)
      /\ << >> \in Seq(Msg) /\ << >> \in Seq(Esr)
      /\ \A e \in Esr : Unlink(recv_wtbl, e) \in Seq(Esr)
  BY <1>1, QueueTypes
<1>3. CASE MsgqDeinit
  <2>1. MsgTypes'
    BY <1>1, <1>2, <1>3 DEF MsgqDeinit, MsgTypes
  <2> QED BY <1>2, <1>3, <2>1, ResumeInvariant DEF MsgqDeinit
<1>4. CASE Flush
  <2>1. MsgTypes'
    BY <1>1, <1>2, <1>4 DEF Flush, MsgTypes
  <2> QED BY <1>4, <2>1, QuietInvariant DEF Flush, frameVars
<1>5. ASSUME NEW e \in Esr, Start(e) PROVE IInv'
  <2>1. MsgTypes'
    BY <1>1, <1>2, <1>5 DEF Start, MsgTypes
  <2>2. stub' \subseteq stub
    BY <1>5 DEF Start
  <2> QED BY <1>5, <2>1, <2>2, QuietInvariant DEF Start
<1>6. ASSUME NEW e \in Esr, Poll(e) PROVE IInv'
  <2>1. MsgTypes'
    BY <1>1, <1>2, <1>6 DEF Poll, MsgTypes
  <2> QED BY <1>6, <2>1, QuietInvariant DEF Poll, frameVars
<1> QED BY <1>3, <1>4, <1>5, <1>6

-----------------------------------------------------------------------------
(* Only the idle routine has a frame and is ready.                         *)
LEMMA InitInvariant == Init => IInv
<1> SUFFICES ASSUME Init PROVE IInv
  OBVIOUS
<1> USE DEF Init
<1>1. stack = << IdleEsr >> /\ Len(stack) = 1 /\ stack[1] = IdleEsr
      /\ Running = IdleEsr /\ Base = 1
  BY DEF Running, Base
<1>2. \A e \in AnyEsr : Ready(e) <=> e = IdleEsr
  BY DEF Ready
<1>3. /\ container.items_map = {Epl[IdleEsr]}
      /\ container.items[Epl[IdleEsr]] = IdleEsr
      /\ container \in [items_map : SUBSET Level,
                        items : [Level -> AnyEsr \cup {NoEsr}]]
  BY LevelFacts DEF EmptyContainer, ContainerAdd
<1>4. SchedOK
  <2>1. Best(sched_active)
    BY <1>2, LevelFacts DEF Best
  <2>2. container.items_map = {Epl[e] : e \in {f \in AnyEsr : Ready(f)}}
    BY <1>2, <1>3, LevelFacts
  <2> QED BY <1>2, <1>3, <2>1, <2>2, LevelFacts DEF SchedOK
<1>5. SchedTypes
  BY <1>3, LevelFacts DEF SchedTypes
<1>6. FrameTypes
  BY LevelFacts DEF FrameTypes
<1>7. MsgTypes /\ epl \in [AnyEsr -> Level]
  <2>1. epl \in [AnyEsr -> Level]
    BY EsrAssumption DEF Level, AnyEsr
  <2> QED BY <2>1 DEF MsgTypes
<1>8. TypeOK
  BY <1>5, <1>6, <1>7 DEF TypeOK, SchedTypes, FrameTypes, MsgTypes
<1>9. LevelsOK
  BY LevelFacts DEF LevelsOK
<1>10. FramesOK
  <2>1. Base \in 1 .. Len(stack) /\ 1 .. Base = {1} /\ 2 .. Base = {}
    BY <1>1
  <2>2. \A e \in AnyEsr : active[e] <=> \E k \in 1 .. Base : stack[k] = e
    BY <1>1, <2>1
  <2>3. \A e \in AnyEsr : active[e] => Ready(e)
    BY <1>2
  <2> HIDE DEF Init
  <2>4. \A j, k \in 1 .. Base : j < k => Epl[stack[k]] < Epl[stack[j]]
    BY <2>1
  <2>5. \A k \in 2 .. Base : intr_context[stack[k]] = k - 1
    BY <2>1
  <2>6. current_esr = Running /\ virtual_frame = 0 /\ current_esr # NoEsr
    BY <1>1, LevelFacts DEF Init
  <2> QED BY <1>1, <2>1, <2>2, <2>3, <2>4, <2>5, <2>6 DEF FramesOK
<1>11. NoLostPreemption
  BY <1>2, LevelFacts DEF NoLostPreemption, Ready
<1> QED BY <1>4, <1>8, <1>9, <1>10, <1>11 DEF IInv

(* The invariant of service routines holds in every state: fx_esr.c keeps  *)
(* the frames up to the one it returns to in the order of the levels.      *)
THEOREM InductiveInvariant == Spec => []IInv
<1>1. Init => IInv
  BY InitInvariant
<1>2. IInv /\ [Next]_vars => IInv'
  <2> SUFFICES ASSUME IInv, [Next]_vars PROVE IInv'
    OBVIOUS
  <2>1. CASE Dispatch
    BY <2>1, DispatchInvariant
  <2>2. ASSUME NEW e \in Esr, NEW o \in Order \cup {NoMsg}, Activate(e, o)
        PROVE  IInv'
    BY <2>2, ActivateInvariant
  <2>3. ASSUME NEW e \in Esr, Exit(e) \/ Listen(e)
        PROVE  IInv'
    BY <2>3, ListenInvariant
  <2>4. ASSUME NEW e \in Esr, Start(e) \/ Poll(e)
        PROVE  IInv'
    BY <2>4, QueueStepsInvariant
  <2>5. ASSUME NEW e \in Esr, Deinit(e)
        PROVE  IInv'
    BY <2>5, DeinitInvariant
  <2>6. ASSUME NEW e \in Esr, NEW p \in Level, RaisePl(e, p) \/ LowerPl(e, p)
        PROVE  IInv'
    BY <2>6, LevelInvariant
  <2>7. ASSUME NEW m \in Msg, Send(m)
        PROVE  IInv'
    BY <2>7, SendInvariant
  <2>8. CASE Flush \/ MsgqDeinit
    BY <2>8, QueueStepsInvariant
  <2>9. CASE UNCHANGED vars
    <3>1. MsgTypes'
      BY <2>9 DEF vars, IInv, TypeOK, MsgTypes, msgqVars
    <3> QED BY <2>9, <3>1, QuietInvariant DEF vars, frameVars
  <2> QED BY <2>1, <2>2, <2>3, <2>4, <2>5, <2>6, <2>7, <2>8, <2>9 DEF Next
<1> QED BY <1>1, <1>2, PTL DEF Spec

(* Frames nest: whoever executes is the current routine, and it returns    *)
(* to the routine it interrupted (the dispatcher of fx_esr.c).             *)
THEOREM FramesAlwaysNest == Spec => []FramesNest
<1>1. IInv => FramesNest
  <2> SUFFICES ASSUME IInv, ~swi PROVE FramesNest
    BY DEF FramesNest
  <2>1. /\ current_esr = Running /\ virtual_frame = 0
        /\ Base = Len(stack) /\ Len(stack) \in Nat
    BY LenProperties DEF IInv, TypeOK, FramesOK, Base
  <2>2. DOMAIN stack = 1 .. Len(stack)
        /\ \A k \in 1 .. Len(stack) : stack[k] \in AnyEsr
    BY LenProperties, ElementOfSeq DEF IInv, TypeOK
  <2>3. {e \in AnyEsr : active[e]} = ToSet(stack)
    <3>1. \A e \in AnyEsr : active[e] <=> \E k \in 1 .. Len(stack) : stack[k] = e
      <4>1. \A e \in AnyEsr : active[e] <=> \E k \in 1 .. Base : stack[k] = e
        BY DEF IInv, FramesOK
      <4> QED BY <4>1, <2>1
    <3> QED BY <3>1, <2>2 DEF ToSet
  <2>4. ASSUME NEW k \in 2 .. Len(stack)
        PROVE  intr_context[stack[k]] = k - 1 /\ Epl[stack[k]] < Epl[stack[k - 1]]
    <3>1. k - 1 \in 1 .. Base /\ k \in 1 .. Base /\ k - 1 < k /\ k \in 2 .. Base
      BY <2>1
    <3> QED BY <3>1 DEF IInv, FramesOK
  <2> QED BY <2>1, <2>3, <2>4 DEF FramesNest
<1> QED BY <1>1, InductiveInvariant, PTL

(* No routine that was activated, from the idle one, from a routine at any *)
(* level or from an interrupt, waits below one at a level it is above.     *)
THEOREM NoPreemptionLost == Spec => []NoLostPreemption
<1>1. IInv => NoLostPreemption
  BY DEF IInv
<1> QED BY <1>1, InductiveInvariant, PTL

-----------------------------------------------------------------------------
(* Messages.  One that is in the queue is with no routine, two routines    *)
(* never have the same one; a message that was accepted is in the queue or *)
(* with a routine that will be started with it; a routine that listens has *)
(* none that could be overwritten, and has left its frame.                 *)
InNoTwoPlaces ==
  /\ IsInjective(queue) /\ IsInjective(recv_wtbl)
  /\ \A m \in Msg : Linked(queue, m) =>
       m \in inflight /\ \A e \in Esr : msg[e] # m
  /\ \A m \in Msg, e, f \in Esr : msg[e] = m /\ msg[f] = m => e = f

InSomePlace ==
  \A m \in inflight :
    Linked(queue, m) \/ \E e \in Esr : msg[e] = m /\ Pending(e)

ListenersReady ==
  \A e \in Esr : Linked(recv_wtbl, e) =>
    msg[e] \notin inflight /\ (~active[e] \/ e \in stub)

MsgInv == InNoTwoPlaces /\ InSomePlace /\ ListenersReady

(* A sequence without repetitions has an element in one position.          *)
LEMMA OnePosition ==
  ASSUME NEW Item, NEW s \in Seq(Item), IsInjective(s), NEW m \in Item
  PROVE  Cardinality({k \in DOMAIN s : s[k] = m}) = IF Linked(s, m) THEN 1 ELSE 0
<1>1. DOMAIN s = 1 .. Len(s)
  BY LenProperties
<1>2. CASE Linked(s, m)
  <2>1. PICK k \in 1 .. Len(s) : s[k] = m
    BY <1>2 DEF Linked
  <2>2. {j \in DOMAIN s : s[j] = m} = {k}
    BY <1>1, <2>1 DEF IsInjective
  <2> QED BY <1>2, <2>2, FS_Singleton
<1>3. CASE ~Linked(s, m)
  <2>1. {j \in DOMAIN s : s[j] = m} = {}
    BY <1>1, <1>3 DEF Linked
  <2> QED BY <1>3, <2>1, FS_EmptySet
<1> QED BY <1>2, <1>3

LEMMA PlacesKeepMessages == TypeOK /\ MsgInv => MessagesKept
<1> SUFFICES ASSUME TypeOK, MsgInv, NEW m \in inflight
             PROVE  Cardinality({k \in DOMAIN queue : queue[k] = m})
                      + Cardinality({e \in Esr : msg[e] = m /\ Pending(e)}) = 1
  BY DEF MessagesKept
<1>1. m \in Msg /\ queue \in Seq(Msg) /\ IsInjective(queue)
  BY DEF TypeOK, MsgInv, InNoTwoPlaces
<1> DEFINE K == {k \in DOMAIN queue : queue[k] = m}
           E == {e \in Esr : msg[e] = m /\ Pending(e)}
<1>2. Cardinality(K) = IF Linked(queue, m) THEN 1 ELSE 0
  BY <1>1, OnePosition
<1>3. CASE Linked(queue, m)
  <2>1. E = {}
    BY <1>1, <1>3 DEF MsgInv, InNoTwoPlaces
  <2>2. Cardinality(E) = 0
    BY <2>1, FS_EmptySet
  <2> HIDE DEF K, E
  <2>3. Cardinality(K) + Cardinality(E) = 1
    BY <1>2, <1>3, <2>2
  <2> QED BY <2>3 DEF K, E
<1>4. CASE ~Linked(queue, m)
  <2>1. PICK e \in Esr : msg[e] = m /\ Pending(e)
    BY <1>4 DEF MsgInv, InSomePlace
  <2>2. E = {e}
    BY <1>1, <2>1 DEF MsgInv, InNoTwoPlaces
  <2>3. Cardinality(E) = 1
    BY <2>2, FS_Singleton
  <2> HIDE DEF K, E
  <2>4. Cardinality(K) + Cardinality(E) = 1
    BY <1>2, <1>4, <2>3
  <2> QED BY <2>4 DEF K, E
<1> QED BY <1>3, <1>4

(* A step that moves no message and takes no routine from its start.       *)
LEMMA MessagesStay ==
  ASSUME MsgInv, UNCHANGED << queue, recv_wtbl, inflight, msg >>,
         \A e \in Esr : /\ Pending(e) => Pending(e)'
                        /\ ~active[e] \/ e \in stub => ~active'[e] \/ e \in stub'
  PROVE  MsgInv'
<1>1. InNoTwoPlaces'
  BY DEF MsgInv, InNoTwoPlaces
<1>2. InSomePlace'
  BY DEF MsgInv, InSomePlace
<1>3. ListenersReady'
  BY DEF MsgInv, ListenersReady
<1> QED BY <1>1, <1>2, <1>3 DEF MsgInv

(* A routine that calls something has taken its message.                   *)
LEMMA CallerHasNone ==
  ASSUME IInv, MsgInv, NEW e \in Esr, Calls(e)
  PROVE  /\ ~suspended[e] /\ active[e] /\ e \notin stub /\ ~Pending(e)
         /\ msg[e] \notin inflight /\ ~Linked(recv_wtbl, e)
         /\ msg[e] \in Msg => ~Linked(queue, msg[e])
<1>1. active[e] /\ ~suspended[e] /\ e \notin stub
  BY CallerOnTop, LevelFacts DEF IInv, Calls, Ready
<1>2. ~Pending(e)
  BY <1>1 DEF Pending
<1>3. msg[e] \in Msg => ~Linked(queue, msg[e])
  BY DEF MsgInv, InNoTwoPlaces
<1>4. msg[e] \notin inflight
  BY <1>2, <1>3 DEF MsgInv, InSomePlace, InNoTwoPlaces, IInv, TypeOK
<1>5. ~Linked(recv_wtbl, e)
  BY <1>1 DEF MsgInv, ListenersReady
<1> QED BY <1>1, <1>2, <1>3, <1>4, <1>5

LEMMA ResumeWakes ==
  ASSUME IInv, NEW E \in SUBSET Esr, Resume(E)
  PROVE  \A f \in Esr : /\ suspended'[f] => suspended[f]
                        /\ f \in E => ~suspended'[f]
<1>1. \A f \in AnyEsr : suspended'[f] = (suspended[f] /\ f \notin {e \in E : suspended[e]})
  BY DEF Resume
<1> QED BY <1>1, LevelFacts DEF IInv, TypeOK

LEMMA DispatchKeepsMessages ==
  ASSUME IInv, MsgInv, Dispatch
  PROVE  MsgInv'
<1> DEFINE next == ContainerGet(container)
<1>1. UNCHANGED << suspended, queue, recv_wtbl, inflight, msg >>
  BY DEF Dispatch, msgqVars
<1>2. active \in [AnyEsr -> BOOLEAN]
  BY DEF IInv, TypeOK
<1>3. CASE UNCHANGED << active, stub >>
  BY <1>1, <1>3, MessagesStay DEF Pending
<1>4. CASE SwitchTo(next)
  <2> HIDE DEF next
  <2>1. \A e \in Esr : active'[e] <=> active[e] \/ e = next
    BY <1>2, <1>4, LevelFacts DEF SwitchTo
  <2>2. \A e \in Esr : e \in stub' <=> e \in stub \/ (e = next /\ ~active[next])
    BY <1>4 DEF SwitchTo
  <2> QED BY <1>1, <2>1, <2>2, MessagesStay DEF Pending
<1> QED BY <1>3, <1>4 DEF Dispatch

LEMMA ActivateKeepsMessages ==
  ASSUME IInv, MsgInv, NEW e \in Esr, NEW o \in Order \cup {NoMsg}, Activate(e, o)
  PROVE  MsgInv'
<1>1. UNCHANGED << active, stub, queue, recv_wtbl, inflight >>
  BY DEF Activate, frameVars, msgqVars
<1>2. CASE UNCHANGED << msg, schedVars >>
  BY <1>1, <1>2, MessagesStay DEF Pending, schedVars
<1>3. CASE /\ o = NoMsg \/ msg[e] = NoMsg
           /\ msg' = [msg EXCEPT ![e] = IF o = NoMsg THEN @ ELSE o]
           /\ Resume({e})
  <2>1. \A f \in Esr : suspended'[f] => suspended[f]
    BY <1>3, ResumeWakes
  <2>2. \A f \in Esr : Pending(f) => Pending(f)'
    BY <1>1, <2>1 DEF Pending
  <2>3. \A f \in Esr : msg'[f] = msg[f] \/ (msg[f] = NoMsg /\ msg'[f] = o)
    BY <1>3, LevelFacts DEF IInv, TypeOK
  <2>4. \A f \in Esr, m \in Msg : msg'[f] = m <=> msg[f] = m
    BY <2>3, EsrAssumption
  <2>5. inflight \subseteq Msg
    BY DEF IInv, TypeOK
  <2>6. InNoTwoPlaces'
    BY <1>1, <2>4 DEF MsgInv, InNoTwoPlaces
  <2>7. InSomePlace'
    BY <1>1, <2>2, <2>4, <2>5 DEF MsgInv, InSomePlace
  <2>8. ListenersReady'
    BY <1>1, <2>4, <2>5 DEF MsgInv, ListenersReady
  <2> QED BY <2>6, <2>7, <2>8 DEF MsgInv
<1> QED BY <1>2, <1>3 DEF Activate

(* What the types say of messages.                                         *)
LEMMA MsgFacts ==
  ASSUME IInv, MsgInv
  PROVE  /\ queue \in Seq(Msg) /\ IsInjective(queue)
         /\ recv_wtbl \in Seq(Esr) /\ IsInjective(recv_wtbl)
         /\ inflight \in SUBSET Msg /\ NoMsg \notin Msg
         /\ msg \in [AnyEsr -> Msg \cup Order \cup {NoMsg}]
         /\ suspended \in [AnyEsr -> BOOLEAN]
         /\ active \in [AnyEsr -> BOOLEAN]
BY EsrAssumption DEF IInv, TypeOK, MsgInv, InNoTwoPlaces

(* A routine that ends has no message that anybody waits for.              *)
LEMMA ExitKeepsMessages ==
  ASSUME IInv, MsgInv, NEW e \in Esr, Exit(e)
  PROVE  MsgInv'
<1>1. UNCHANGED << stub, queue, recv_wtbl, inflight >>
  BY DEF Exit, LeaveFrame, msgqVars
<1>2. /\ ~Pending(e) /\ msg[e] \notin inflight /\ ~Linked(recv_wtbl, e)
  BY CallerHasNone DEF Exit
<1>3. \A f \in Esr : /\ msg'[f] = IF f = e THEN NoMsg ELSE msg[f]
                     /\ f # e => suspended'[f] = suspended[f] /\ active'[f] = active[f]
  BY MsgFacts, LevelFacts DEF Exit, LeaveFrame, SuspendSelf
<1>4. \A f \in Esr, m \in Msg : msg'[f] = m <=> f # e /\ msg[f] = m
  BY <1>3, MsgFacts
<1>5. InNoTwoPlaces'
  BY <1>1, <1>4 DEF MsgInv, InNoTwoPlaces
<1>6. InSomePlace'
  BY <1>1, <1>2, <1>3, MsgFacts DEF MsgInv, InSomePlace, Pending
<1>7. ListenersReady'
  BY <1>1, <1>2, <1>3 DEF MsgInv, ListenersReady
<1> QED BY <1>5, <1>6, <1>7 DEF MsgInv

(* A routine that takes the first message is to start with it, or has it   *)
(* at once.                                                                *)
LEMMA TakeKeepsMessages ==
  ASSUME IInv, MsgInv, NEW e \in Esr, queue # << >>, Calls(e),
         msg' = [msg EXCEPT ![e] = Head(queue)],
         queue' = Tail(queue), UNCHANGED << suspended, recv_wtbl, stub >>,
         \A f \in Esr : f # e => active'[f] = active[f],
         \/ inflight' = inflight /\ ~active'[e]
         \/ inflight' = inflight \ {Head(queue)}
  PROVE  MsgInv'
<1>1. /\ ~Pending(e) /\ ~suspended[e] /\ ~Linked(recv_wtbl, e)
  BY CallerHasNone
<1> DEFINE h == Head(queue)
<1>2. /\ h \in Msg /\ Linked(queue, h)
      /\ queue' \in Seq(Msg) /\ IsInjective(queue')
      /\ \A m \in Msg : Linked(queue', m) <=> Linked(queue, m) /\ m # h
  BY MsgFacts, TailLinks
<1>3. \A f \in Esr : msg'[f] = IF f = e THEN h ELSE msg[f]
  BY MsgFacts, LevelFacts
<1>4. inflight' = inflight \/ inflight' = inflight \ {h}
  OBVIOUS
<1>5. inflight' = inflight => Pending(e)'
  <2>1. h \in inflight
    BY <1>2 DEF MsgInv, InNoTwoPlaces
  <2> QED BY <1>1, <2>1 DEF Pending
<1>6. \A f \in Esr : f # e /\ Pending(f) => Pending(f)'
  BY DEF Pending
<1> HIDE DEF h
<1>7. \A f \in Esr : msg[f] # h
  BY <1>2 DEF MsgInv, InNoTwoPlaces
<1>8. InNoTwoPlaces'
  <2>1. ASSUME NEW m \in Msg, Linked(queue', m)
        PROVE  m \in inflight' /\ \A f \in Esr : msg'[f] # m
    BY <2>1, <1>2, <1>3, <1>4 DEF MsgInv, InNoTwoPlaces
  <2>2. ASSUME NEW m \in Msg, NEW f \in Esr, NEW g \in Esr, msg'[f] = m, msg'[g] = m
        PROVE  f = g
    BY <2>2, <1>3, <1>7 DEF MsgInv, InNoTwoPlaces
  <2> QED BY <1>2, <2>1, <2>2 DEF MsgInv, InNoTwoPlaces
<1>9. InSomePlace'
  <2> SUFFICES ASSUME NEW m \in inflight', ~Linked(queue', m)
               PROVE  \E f \in Esr : msg'[f] = m /\ Pending(f)'
    BY DEF InSomePlace
  <2>1. m \in inflight /\ m \in Msg
    BY <1>4, MsgFacts
  <2>2. CASE m = h
    BY <2>2, <1>3, <1>4, <1>5
  <2>3. CASE m # h
    <3>1. PICK f \in Esr : msg[f] = m /\ Pending(f)
      BY <1>2, <2>1, <2>3 DEF MsgInv, InSomePlace
    <3> QED BY <1>1, <1>3, <1>6, <3>1
  <2> QED BY <2>2, <2>3
<1>10. ListenersReady'
  BY <1>1, <1>3, <1>4 DEF MsgInv, ListenersReady
<1> QED BY <1>8, <1>9, <1>10 DEF MsgInv

LEMMA ListenKeepsMessages ==
  ASSUME IInv, MsgInv, NEW e \in Esr, Poll(e) \/ Listen(e)
  PROVE  MsgInv'
<1>1. CASE Poll(e)
  BY <1>1, TakeKeepsMessages DEF Poll, schedVars, frameVars
<1>2. CASE Listen(e)
  <2>1. Calls(e) /\ UNCHANGED << stub, inflight >>
    BY <1>2 DEF Listen, LeaveFrame
  <2>2. ~active'[e] /\ \A f \in Esr : f # e => active'[f] = active[f]
    BY <1>2, MsgFacts, LevelFacts DEF Listen, LeaveFrame
  <2>3. CASE /\ queue # << >>
             /\ msg' = [msg EXCEPT ![e] = Head(queue)]
             /\ queue' = Tail(queue)
             /\ SuspendAndResume(e) /\ UNCHANGED recv_wtbl
    BY <2>1, <2>2, <2>3, TakeKeepsMessages DEF SuspendAndResume
  <2>4. CASE /\ queue = << >>
             /\ recv_wtbl' = Append(recv_wtbl, e)
             /\ SuspendSelf(e)
             /\ UNCHANGED << msg, queue >>
    <3>1. ~Pending(e) /\ msg[e] \notin inflight /\ ~Linked(recv_wtbl, e)
      BY <2>1, CallerHasNone
    <3>2. /\ IsInjective(recv_wtbl')
          /\ \A f \in Esr : Linked(recv_wtbl', f) <=> Linked(recv_wtbl, f) \/ f = e
      BY <2>4, <3>1, MsgFacts, AppendLinks
    <3>3. \A f \in Esr : f # e => suspended'[f] = suspended[f]
      BY <2>4, MsgFacts, LevelFacts DEF SuspendSelf
    <3>4. InNoTwoPlaces'
      BY <2>1, <2>4, <3>2 DEF MsgInv, InNoTwoPlaces
    <3>5. InSomePlace'
      BY <2>1, <2>2, <2>4, <3>1, <3>3 DEF MsgInv, InSomePlace, Pending
    <3>6. ListenersReady'
      BY <2>1, <2>2, <2>4, <3>1, <3>2 DEF MsgInv, ListenersReady
    <3> QED BY <3>4, <3>5, <3>6 DEF MsgInv
  <2> QED BY <1>2, <2>3, <2>4 DEF Listen
<1> QED BY <1>1, <1>2

(* A routine that starts has its message, and listens no more.             *)
LEMMA StartKeepsMessages ==
  ASSUME IInv, MsgInv, NEW e \in Esr, Start(e)
  PROVE  MsgInv'
<1>1. /\ UNCHANGED << suspended, active, queue, msg >>
      /\ stub' = stub \ {e} /\ inflight' = inflight \ {msg[e]}
      /\ recv_wtbl' = Unlink(recv_wtbl, e)
  BY DEF Start, schedVars
<1>2. /\ IsInjective(recv_wtbl')
      /\ \A f \in Esr : Linked(recv_wtbl', f) <=> Linked(recv_wtbl, f) /\ f # e
  BY <1>1, MsgFacts, UnlinkProperties
<1>3. InNoTwoPlaces'
  BY <1>1, <1>2 DEF MsgInv, InNoTwoPlaces
<1>4. InSomePlace'
  BY <1>1 DEF MsgInv, InSomePlace, Pending
<1>5. ListenersReady'
  BY <1>1, <1>2 DEF MsgInv, ListenersReady
<1> QED BY <1>3, <1>4, <1>5 DEF MsgInv

(* A message that is sent goes to a routine that listens, or to the end of *)
(* the queue.                                                              *)
LEMMA SendKeepsMessages ==
  ASSUME IInv, MsgInv, NEW m \in Msg, Send(m)
  PROVE  MsgInv'
<1>1. /\ UNCHANGED << active, stub >>
      /\ m \notin inflight /\ \A e \in Esr : msg[e] # m
      /\ inflight' = inflight \cup {m}
  BY DEF Send, frameVars
<1>2. ~Linked(queue, m)
  BY <1>1 DEF MsgInv, InNoTwoPlaces
<1>3. ASSUME NEW r, r = Head(recv_wtbl), recv_wtbl # << >>,
             msg' = [msg EXCEPT ![r] = m], recv_wtbl' = Tail(recv_wtbl),
             Resume({r}), UNCHANGED queue
      PROVE  MsgInv'
  <2>1. /\ r \in Esr /\ Linked(recv_wtbl, r) /\ IsInjective(recv_wtbl')
        /\ \A f \in Esr : Linked(recv_wtbl', f) <=> Linked(recv_wtbl, f) /\ f # r
    BY <1>3, MsgFacts, TailLinks
  <2>2. /\ msg[r] \notin inflight /\ (~active[r] \/ r \in stub)
    BY <2>1 DEF MsgInv, ListenersReady
  <2>3. ~suspended'[r] /\ \A f \in Esr : suspended'[f] => suspended[f]
    BY <1>3, <2>1, ResumeWakes
  <2>4. \A f \in Esr : msg'[f] = IF f = r THEN m ELSE msg[f]
    BY <1>3, <2>1, MsgFacts, LevelFacts
  <2>5. Pending(r)' /\ \A f \in Esr : Pending(f) => Pending(f)'
    BY <1>1, <2>2, <2>3 DEF Pending
  <2>6. InNoTwoPlaces'
    BY <1>1, <1>2, <1>3, <2>1, <2>4 DEF MsgInv, InNoTwoPlaces
  <2>7. InSomePlace'
    BY <1>1, <1>3, <2>1, <2>2, <2>4, <2>5 DEF MsgInv, InSomePlace
  <2>8. ListenersReady'
    BY <1>1, <2>1, <2>4 DEF MsgInv, ListenersReady
  <2> QED BY <2>6, <2>7, <2>8 DEF MsgInv
<1>4. CASE /\ queue' = Append(queue, m)
           /\ UNCHANGED << msg, recv_wtbl, schedVars >>
  <2>1. /\ IsInjective(queue')
        /\ \A k \in Msg : Linked(queue', k) <=> Linked(queue, k) \/ k = m
    BY <1>2, <1>4, MsgFacts, AppendLinks
  <2>2. \A f \in Esr : Pending(f) => Pending(f)'
    BY <1>1, <1>4 DEF Pending, schedVars
  <2>3. InNoTwoPlaces'
    BY <1>1, <1>4, <2>1 DEF MsgInv, InNoTwoPlaces
  <2>4. InSomePlace'
    BY <1>1, <1>4, <2>1, <2>2, MsgFacts DEF MsgInv, InSomePlace
  <2>5. ListenersReady'
    BY <1>1, <1>4 DEF MsgInv, ListenersReady
  <2> QED BY <2>3, <2>4, <2>5 DEF MsgInv
<1> QED BY <1>3, <1>4 DEF Send

(* The messages in the queue are discarded with it, and nobody listens to  *)
(* a queue that is gone.                                                   *)
LEMMA FlushKeepsMessages ==
  ASSUME IInv, MsgInv, Flush \/ MsgqDeinit
  PROVE  MsgInv'
<1>1. UNCHANGED << active, stub, msg >>
  BY DEF Flush, MsgqDeinit, frameVars
<1>2. queue' = << >> /\ inflight' = inflight \ ToSet(queue)
  BY DEF Flush, MsgqDeinit
<1>3. recv_wtbl' = recv_wtbl \/ recv_wtbl' = << >>
  BY DEF Flush, MsgqDeinit
<1>4. \A f \in Esr : suspended'[f] => suspended[f]
  <2>1. ToSet(recv_wtbl) \in SUBSET Esr
    BY MsgFacts, QueueTypes
  <2>2. CASE Resume(ToSet(recv_wtbl))
    BY <2>1, <2>2, ResumeWakes
  <2>3. CASE UNCHANGED suspended
    BY <2>3
  <2> QED BY <2>2, <2>3 DEF Flush, MsgqDeinit, schedVars
<1>5. \A m \in Msg : m \in ToSet(queue) <=> Linked(queue, m)
  BY MsgFacts, LenProperties DEF ToSet, Linked
<1>6. \A x : ~Linked(<< >>, x)
  BY DEF Linked
<1>7. IsInjective(<< >>)
  BY DEF IsInjective
<1>8. InNoTwoPlaces'
  BY <1>1, <1>2, <1>3, <1>6, <1>7 DEF MsgInv, InNoTwoPlaces
<1>9. InSomePlace'
  BY <1>1, <1>2, <1>4, <1>5, MsgFacts DEF MsgInv, InSomePlace, Pending
<1>10. ListenersReady'
  BY <1>1, <1>2, <1>3, <1>6 DEF MsgInv, ListenersReady
<1> QED BY <1>8, <1>9, <1>10 DEF MsgInv

(* A routine that is deleted takes its message with it.                    *)
LEMMA DeinitKeepsMessages ==
  ASSUME IInv, MsgInv, NEW e \in Esr, Deinit(e)
  PROVE  MsgInv'
<1>1. /\ UNCHANGED << active, stub, queue, recv_wtbl >>
      /\ ~Linked(recv_wtbl, e)
      /\ inflight' = inflight \ {msg[e]}
  BY DEF Deinit, frameVars
<1>2. \A f \in Esr : /\ msg'[f] = IF f = e THEN NoMsg ELSE msg[f]
                     /\ f # e => suspended'[f] = suspended[f]
  BY MsgFacts, LevelFacts DEF Deinit, schedVars
<1>3. \A f \in Esr, m \in Msg : msg'[f] = m <=> f # e /\ msg[f] = m
  BY <1>2, MsgFacts
<1>4. InNoTwoPlaces'
  BY <1>1, <1>3 DEF MsgInv, InNoTwoPlaces
<1>5. InSomePlace'
  BY <1>1, <1>2 DEF MsgInv, InSomePlace, Pending
<1>6. ListenersReady'
  BY <1>1, <1>2 DEF MsgInv, ListenersReady
<1> QED BY <1>4, <1>5, <1>6 DEF MsgInv

(* A message that the queue accepted is in it, or with exactly one routine *)
(* that will be started with it (fx_msgq_send, fx_msgq_listen and          *)
(* fx_esr_stub): none is lost, and none is handed over twice.              *)
THEOREM MessagesAreKept == Spec => []MessagesKept
<1>1. Init => MsgInv
  <2> SUFFICES ASSUME Init PROVE MsgInv
    OBVIOUS
  <2>1. \A x : ~Linked(<< >>, x)
    BY DEF Linked
  <2>2. IsInjective(<< >>)
    BY DEF IsInjective
  <2>3. \A e \in Esr : msg[e] = NoMsg
    BY LevelFacts DEF Init
  <2> QED BY <2>1, <2>2, <2>3, EsrAssumption
          DEF Init, MsgInv, InNoTwoPlaces, InSomePlace, ListenersReady
<1>2. IInv /\ MsgInv /\ [Next]_vars => MsgInv'
  <2> SUFFICES ASSUME IInv, MsgInv, [Next]_vars PROVE MsgInv'
    OBVIOUS
  <2>1. CASE Dispatch
    BY <2>1, DispatchKeepsMessages
  <2>2. ASSUME NEW e \in Esr, NEW o \in Order \cup {NoMsg}, Activate(e, o)
        PROVE  MsgInv'
    BY <2>2, ActivateKeepsMessages
  <2>3. ASSUME NEW e \in Esr, Start(e) \/ Exit(e) \/ Poll(e) \/ Listen(e) \/ Deinit(e)
        PROVE  MsgInv'
    BY <2>3, StartKeepsMessages, ExitKeepsMessages, ListenKeepsMessages,
       DeinitKeepsMessages
  <2>4. ASSUME NEW e \in Esr, NEW p \in Level, RaisePl(e, p) \/ LowerPl(e, p)
        PROVE  MsgInv'
    <3>1. UNCHANGED << suspended, frameVars, msgqVars, msg >>
      BY <2>4 DEF RaisePl, LowerPl, schedVars
    <3> QED BY <3>1, MessagesStay DEF frameVars, msgqVars, Pending
  <2>5. ASSUME NEW m \in Msg, Send(m)
        PROVE  MsgInv'
    BY <2>5, SendKeepsMessages
  <2>6. CASE Flush \/ MsgqDeinit
    BY <2>6, FlushKeepsMessages
  <2>7. CASE UNCHANGED vars
    <3>1. UNCHANGED << suspended, frameVars, msgqVars, msg >>
      BY <2>7 DEF vars, schedVars
    <3> QED BY <3>1, MessagesStay DEF frameVars, msgqVars, Pending
  <2> QED BY <2>1, <2>2, <2>3, <2>4, <2>5, <2>6, <2>7 DEF Next
<1>3. IInv /\ MsgInv => MessagesKept
  BY PlacesKeepMessages DEF IInv
<1> QED BY <1>1, <1>2, <1>3, InductiveInvariant, PTL DEF Spec
=============================================================================
