---------------------------- MODULE EngineProofs ----------------------------
(***************************************************************************)
(* TLAPS proofs about PlanGraph and Engine, for every plan, pool size,     *)
(* retry policy and circuit, whatever agents return: buildGraph finds the  *)
(* levels and the cycles of a plan; RunPlan does what PlanOutcome promises *)
(* and its goroutines never block on the channel of a level; it is well    *)
(* typed, within its attempts and its pool, leaves no circuit half-open,   *)
(* and the waits between attempts grow.                                    *)
(***************************************************************************)
EXTENDS Engine, FiniteSetTheorems, TLAPS

(* The entries of n's DependsOn list that no level has yet. *)
Waiting(n) == {k \in DOMAIN DependsOn(n) : DependsOn(n)[k] \notin Placed}

(* The plan has passed the checks and is, or has been, put into levels. *)
Ordering == phase \in {"levels", "built"} \/ err = "cycle"

(* Before that there are no levels; after it the phase says how it ended. *)
Phases ==
    /\ plan \in Plans
    /\ phase \in {"check", "levels", "built", "invalid"}
    /\ err \in ErrorKinds
    /\ phase \in {"check", "levels", "built"} => err = "none"
    /\ ~Ordering => queue = {} /\ levels = << >>
    /\ Ordering => plan # << >> /\ BadIDs = {} /\ BadNodes = {}
    /\ phase = "built" \/ err = "cycle" => queue = {}

(* The in-degree of a node counts the entries it waits for: it is zero for   *)
(* the nodes that have a level and for those of the next one, and for no     *)
(* others.                                                                   *)
Counted ==
    /\ queue \subseteq IDs
    /\ levels \in Seq(SUBSET IDs)
    /\ queue \cap Placed = {}
    /\ Ordering =>
         /\ inDegree \in [IDs -> Nat]
         /\ \A n \in IDs : inDegree[n] = Cardinality(Waiting(n))
         /\ \A n \in IDs : inDegree[n] = 0 <=> n \in Placed \cup queue

(* LevelsSound during the construction. *)
Ordered ==
    \A i \in DOMAIN levels : \A n \in levels[i] :
        /\ \A d \in Deps(n) : \E j \in 1..(i - 1) : d \in levels[j]
        /\ \A j \in DOMAIN levels : n \in levels[j] => j = i

(* How the construction ends. *)
Verdict ==
    /\ phase = "built" => Placed = IDs
    /\ err = "cycle" => Placed # IDs

(* The inductive invariant. *)
IInv == Phases /\ Counted /\ Ordered /\ Verdict

-----------------------------------------------------------------------------
LEMMA UpTo ==
    ASSUME NEW n \in Nat
    PROVE  IsFiniteSet(1..n) /\ Cardinality(1..n) = n
<1>1. 1 \in Int /\ n \in Int
  OBVIOUS
<1>2. IsFiniteSet(1..n) /\ Cardinality(1..n) = IF 1 > n THEN 0 ELSE n - 1 + 1
  BY <1>1, FS_Interval, Zenon
<1> QED BY <1>2

LEMMA PlanType ==
    ASSUME plan \in Plans
    PROVE  /\ Len(plan) \in Nat /\ DOMAIN plan = 1..Len(plan)
           /\ \A i \in DOMAIN plan : plan[i].id \in Nat /\ plan[i].dependsOn \in Seq(Nat)
<1> DEFINE S == {plan[i] : i \in DOMAIN plan}
<1>1. plan \in Seq(S)
  BY PlansAssumption, Zenon
<1>2. \A i \in DOMAIN plan : plan[i].id \in Nat /\ plan[i].dependsOn \in Seq(Nat)
  BY PlansAssumption, Zenon
<1> HIDE DEF S
<1> QED BY <1>1, <1>2

(* The IDs are as many as the nodes, if none is empty or used twice. *)
LEMMA IDsFinite ==
    ASSUME plan \in Plans
    PROVE  /\ IsFiniteSet(IDs)
           /\ BadIDs = {} => Cardinality(IDs) = Len(plan) /\ NoID \notin IDs
<1> DEFINE f == [i \in 1..Len(plan) |-> plan[i].id]
<1>1. Len(plan) \in Nat /\ DOMAIN plan = 1..Len(plan)
  BY PlanType
<1>2. IsFiniteSet(1..Len(plan)) /\ Cardinality(1..Len(plan)) = Len(plan)
  BY <1>1, UpTo
<1>3. f \in Surjection(1..Len(plan), IDs)
  <2>1. f \in [1..Len(plan) -> IDs]
    BY <1>1 DEF IDs
  <2>2. \A n \in IDs : \E i \in 1..Len(plan) : f[i] = n
    BY <1>1 DEF IDs
  <2> HIDE DEF f
  <2> QED BY <2>1, <2>2 DEF Surjection
<1>4. /\ IsFiniteSet(IDs)
      /\ Cardinality(IDs) = Cardinality(1..Len(plan)) <=> f \in Injection(1..Len(plan), IDs)
  BY <1>2, <1>3, FS_Surjection
<1>5. ASSUME BadIDs = {} PROVE f \in Injection(1..Len(plan), IDs) /\ NoID \notin IDs
  <2>1. ASSUME NEW i \in 1..Len(plan), NEW j \in 1..Len(plan), f[i] = f[j] PROVE i = j
    <3>1. ~(j \in 1..(i - 1)) /\ ~(i \in 1..(j - 1))
      BY <1>1, <1>5, <2>1 DEF BadIDs
    <3> QED BY <1>1, <3>1
  <2>2. NoID \notin IDs
    BY <1>1, <1>5 DEF BadIDs, IDs
  <2>3. f \in [1..Len(plan) -> IDs]
    BY <1>1 DEF IDs
  <2> HIDE DEF f
  <2> QED BY <2>1, <2>2, <2>3 DEF Injection, IsInjective
<1> QED BY <1>2, <1>4, <1>5

LEMMA NodeType ==
    ASSUME plan \in Plans, NEW n \in IDs
    PROVE  /\ DependsOn(n) \in Seq(Nat)
           /\ DOMAIN DependsOn(n) = 1..Len(DependsOn(n))
           /\ BadNodes = {} => Deps(n) \subseteq IDs
<1>1. PICK i \in DOMAIN plan : plan[i].id = n /\ NodeOf(n) = plan[i]
  BY Zenon DEF IDs, NodeOf
<1>2. DependsOn(n) = plan[i].dependsOn /\ DependsOn(n) \in Seq(Nat)
  BY <1>1, PlanType DEF DependsOn
<1>3. BadNodes = {} => BadDepsOf(i) = {}
  BY <1>1 DEF BadNodes
<1> QED BY <1>2, <1>3 DEF BadDepsOf, Deps

LEMMA WaitingFinite ==
    ASSUME plan \in Plans, NEW n \in IDs, NEW S \in SUBSET DOMAIN DependsOn(n)
    PROVE  IsFiniteSet(S) /\ Cardinality(S) \in Nat /\ (Cardinality(S) = 0 <=> S = {})
<1>1. IsFiniteSet(DOMAIN DependsOn(n))
  <2>1. DependsOn(n) \in Seq(Nat) /\ DOMAIN DependsOn(n) = 1..Len(DependsOn(n))
    BY NodeType
  <2> QED BY <2>1, UpTo
<1> QED BY <1>1, FS_Subset, FS_CardinalityType, FS_EmptySet

LEMMA ValidationPasses == Validation = "none" => plan # << >> /\ BadIDs = {} /\ BadNodes = {}
  BY DEF Validation

LEMMA ValidationKind == Validation \in ErrorKinds \ {"cycle"}
  BY DEF Validation, ErrorKinds

LEMMA IInvInit == GraphInit => IInv
<1> SUFFICES ASSUME GraphInit PROVE IInv
  OBVIOUS
<1> USE DEF GraphInit
<1>1. Phases
  BY DEF Phases, Ordering, ErrorKinds
<1>2. levels = << >> /\ queue = {} /\ ~Ordering /\ levels \in Seq(SUBSET IDs)
  BY DEF Ordering
<1>3. Counted /\ Ordered /\ Verdict
  BY <1>2 DEF Counted, Ordered, Verdict, Ordering
<1> QED BY <1>1, <1>3 DEF IInv

(* While the plan stays, so does what is read from it. *)
LEMMA PlanUnchanged ==
    ASSUME plan' = plan
    PROVE  /\ IDs' = IDs /\ BadIDs' = BadIDs /\ BadNodes' = BadNodes
           /\ \A n : DependsOn(n)' = DependsOn(n) /\ Deps(n)' = Deps(n)
  BY DEF IDs, BadIDs, BadNodes, BadDepsOf, DependsOn, NodeOf, Deps

LEMMA PlacedGrows ==
    ASSUME levels \in Seq(SUBSET IDs), queue \subseteq IDs, levels' = Append(levels, queue)
    PROVE  Placed' = Placed \cup queue
<1>1. /\ DOMAIN levels = 1..Len(levels) /\ Len(levels) \in Nat
      /\ DOMAIN levels' = 1..(Len(levels) + 1)
      /\ levels'[Len(levels) + 1] = queue
      /\ \A i \in DOMAIN levels : levels'[i] = levels[i]
  OBVIOUS
<1> QED BY <1>1 DEF Placed

-----------------------------------------------------------------------------
(* A plan that passes the checks: nothing is placed, so a node waits for all *)
(* its entries and those without any are the first level.                    *)
LEMMA CheckPlanStep == IInv /\ CheckPlan => IInv'
<1> SUFFICES ASSUME IInv, CheckPlan PROVE IInv'
  OBVIOUS
<1>0. /\ plan \in Plans /\ plan' = plan
      /\ levels = << >> /\ levels' = << >> /\ err = "none" /\ queue = {}
  BY DEF IInv, Phases, Ordering, CheckPlan
<1>u. /\ IDs' = IDs /\ BadIDs' = BadIDs /\ BadNodes' = BadNodes
      /\ \A n : DependsOn(n)' = DependsOn(n) /\ Deps(n)' = Deps(n)
  BY <1>0, PlanUnchanged
<1>p. Placed = {} /\ Placed' = {}
  BY <1>0 DEF Placed
<1>1. Ordered'
  BY <1>0 DEF Ordered
<1>2. CASE Validation = "none"
  <2>1. /\ phase' = "levels" /\ err' = "none"
        /\ inDegree' = [n \in IDs |-> Len(DependsOn(n))]
        /\ queue' = {n \in IDs : Len(DependsOn(n)) = 0}
    BY <1>2 DEF CheckPlan, InitialInDegree
  <2>2. Phases' /\ Verdict'
    BY <1>0, <1>2, <1>u, <2>1, ValidationPasses
       DEF Phases, Verdict, Ordering, ErrorKinds
  <2>3. ASSUME NEW n \in IDs
        PROVE  /\ Len(DependsOn(n)) \in Nat
               /\ Len(DependsOn(n)) = Cardinality(Waiting(n)')
    <3>1. DependsOn(n) \in Seq(Nat) /\ DOMAIN DependsOn(n) = 1..Len(DependsOn(n))
      BY <1>0, NodeType
    <3>2. Waiting(n)' = 1..Len(DependsOn(n))
      BY <1>u, <1>p, <3>1 DEF Waiting
    <3> QED BY <3>1, <3>2, UpTo
  <2>4. Counted'
    BY <1>0, <1>u, <1>p, <2>1, <2>3 DEF Counted
  <2> QED BY <1>1, <2>2, <2>4 DEF IInv
<1>3. CASE Validation # "none"
  <2>1. /\ phase' = "invalid" /\ err' = Validation /\ queue' = {}
        /\ ~Ordering'
    BY <1>0, <1>3, ValidationKind DEF CheckPlan, Ordering
  <2>2. Phases' /\ Verdict'
    BY <1>0, <2>1, ValidationKind DEF Phases, Verdict, Ordering
  <2>3. Counted'
    BY <1>0, <1>u, <1>p, <2>1 DEF Counted
  <2> QED BY <1>1, <2>2, <2>3 DEF IInv
<1> QED BY <1>2, <1>3

(* What a round takes off the in-degree of a node is the number of entries   *)
(* that stop waiting.                                                        *)
LEMMA DecrementedCounts ==
    ASSUME IInv, NextLevel, NEW n \in IDs
    PROVE  /\ Decremented(n) = Cardinality(Waiting(n)')
           /\ Decremented(n) \in Nat
           /\ Decremented(n) = 0 <=> Waiting(n)' = {}
           /\ inDegree[n] = 0 <=> Waiting(n) = {}
           /\ Waiting(n)' \subseteq Waiting(n)
<1> DEFINE E == {k \in DOMAIN DependsOn(n) : DependsOn(n)[k] \in queue}
<1>0. /\ plan \in Plans /\ plan' = plan /\ levels \in Seq(SUBSET IDs)
      /\ queue \subseteq IDs /\ queue \cap Placed = {}
      /\ inDegree[n] = Cardinality(Waiting(n)) /\ levels' = Append(levels, queue)
  BY DEF IInv, Phases, Counted, NextLevel, Ordering
<1>1. Placed' = Placed \cup queue
  BY <1>0, PlacedGrows
<1>2. DependsOn(n)' = DependsOn(n)
  BY <1>0, PlanUnchanged
<1>3. Waiting(n)' = Waiting(n) \ E /\ Waiting(n) \cap E = E
  BY <1>0, <1>1, <1>2 DEF Waiting
<1>4. /\ Waiting(n) \in SUBSET DOMAIN DependsOn(n)
      /\ Waiting(n)' \in SUBSET DOMAIN DependsOn(n)
  BY <1>3 DEF Waiting
<1>5. IsFiniteSet(Waiting(n))
  BY <1>0, <1>4, WaitingFinite
<1>6. Cardinality(Waiting(n) \ E) = Cardinality(Waiting(n)) - Cardinality(Waiting(n) \cap E)
  BY <1>5, FS_Difference
<1>7. Decremented(n) = inDegree[n] - Cardinality(E)
  BY DEF Decremented, EdgesFrom
<1>8. Decremented(n) = Cardinality(Waiting(n)')
  BY <1>0, <1>3, <1>6, <1>7, Zenon
<1>9. /\ Cardinality(Waiting(n)') \in Nat
      /\ Cardinality(Waiting(n)') = 0 <=> Waiting(n)' = {}
      /\ Cardinality(Waiting(n)) = 0 <=> Waiting(n) = {}
  BY <1>0, <1>4, WaitingFinite
<1> QED BY <1>0, <1>3, <1>8, <1>9

(* A round of the loop. *)
LEMMA NextLevelStep == IInv /\ NextLevel => IInv'
<1> SUFFICES ASSUME IInv, NextLevel PROVE IInv'
  OBVIOUS
<1>0. /\ plan \in Plans /\ plan' = plan /\ levels \in Seq(SUBSET IDs)
      /\ queue \subseteq IDs /\ queue \cap Placed = {}
      /\ phase = "levels" /\ phase' = "levels" /\ err = "none" /\ err' = "none"
      /\ levels' = Append(levels, queue)
      /\ inDegree \in [IDs -> Nat]
      /\ inDegree' = [n \in IDs |-> Decremented(n)]
      /\ queue' = {n \in IDs : inDegree[n] > 0 /\ Decremented(n) = 0}
      /\ \A n \in IDs : inDegree[n] = 0 <=> n \in Placed \cup queue
      /\ plan # << >> /\ BadIDs = {} /\ BadNodes = {}
  BY DEF IInv, Phases, Counted, NextLevel, Ordering, Ready
<1>u. /\ IDs' = IDs /\ BadIDs' = BadIDs /\ BadNodes' = BadNodes
      /\ \A n : DependsOn(n)' = DependsOn(n) /\ Deps(n)' = Deps(n)
  BY <1>0, PlanUnchanged
<1>p. Placed' = Placed \cup queue
  BY <1>0, PlacedGrows
<1>1. Phases' /\ Verdict'
  BY <1>0, <1>u DEF Phases, Verdict, Ordering, ErrorKinds
<1>2. Counted'
  <2>1. \A n \in IDs : /\ Decremented(n) = Cardinality(Waiting(n)')
                       /\ Decremented(n) \in Nat
                       /\ inDegree[n] = 0 => Decremented(n) = 0
    BY DecrementedCounts
  <2>2. \A n \in IDs : Decremented(n) = 0 <=> n \in Placed' \cup queue'
    BY <1>0, <1>p, <2>1
  <2>3. queue' \cap Placed' = {} /\ queue' \subseteq IDs /\ levels' \in Seq(SUBSET IDs)
    BY <1>0, <1>p
  <2> QED BY <1>0, <1>u, <2>1, <2>2, <2>3 DEF Counted
<1>3. Ordered'
  <2>1. /\ Len(levels) \in Nat /\ DOMAIN levels = 1..Len(levels)
        /\ DOMAIN levels' = 1..(Len(levels) + 1)
        /\ levels'[Len(levels) + 1] = queue
        /\ \A i \in DOMAIN levels : levels'[i] = levels[i]
    BY <1>0
  <2>2. ASSUME NEW n \in queue, NEW d \in Deps(n)
        PROVE  \E j \in 1..Len(levels) : d \in levels[j]
    <3>1. Waiting(n) = {}
      BY <1>0, DecrementedCounts
    <3>2. d \in Placed
      BY <3>1 DEF Waiting, Deps
    <3> QED BY <2>1, <3>2 DEF Placed
  <2>3. \A n \in queue, j \in DOMAIN levels : n \notin levels[j]
    BY <1>0 DEF Placed
  <2>4. ASSUME NEW i \in DOMAIN levels', NEW n \in levels'[i]
        PROVE  /\ \A d \in Deps(n) : \E j \in 1..(i - 1) : d \in levels'[j]
               /\ \A j \in DOMAIN levels' : n \in levels'[j] => j = i
    <3>1. CASE i = Len(levels) + 1
      BY <2>1, <2>2, <2>3, <2>4, <3>1
    <3>2. CASE i \in DOMAIN levels
      <4>1. /\ \A d \in Deps(n) : \E j \in 1..(i - 1) : d \in levels[j]
            /\ \A j \in DOMAIN levels : n \in levels[j] => j = i
        BY <2>1, <2>4, <3>2 DEF IInv, Ordered
      <4> QED BY <2>1, <2>3, <2>4, <3>2, <4>1
    <3> QED BY <2>1, <3>1, <3>2
  <2> QED BY <1>u, <2>4 DEF Ordered
<1> QED BY <1>1, <1>2, <1>3 DEF IInv

(* The end of the loop: the placed nodes are counted. *)
LEMMA GraphDoneStep == IInv /\ GraphDone => IInv'
<1> SUFFICES ASSUME IInv, GraphDone PROVE IInv'
  OBVIOUS
<1>0. /\ plan \in Plans /\ plan' = plan /\ levels' = levels /\ queue' = queue /\ queue = {}
      /\ inDegree' = inDegree /\ levels \in Seq(SUBSET IDs) /\ err = "none"
      /\ Ordering /\ Ordering' /\ plan # << >> /\ BadIDs = {} /\ BadNodes = {}
  BY DEF IInv, Phases, Counted, GraphDone, Ordering
<1>u. /\ IDs' = IDs /\ BadIDs' = BadIDs /\ BadNodes' = BadNodes /\ Placed' = Placed
      /\ \A n : DependsOn(n)' = DependsOn(n) /\ Deps(n)' = Deps(n)
  BY <1>0, PlanUnchanged DEF Placed
<1>1. Counted'
  <2>1. \A n : Waiting(n)' = Waiting(n)
    BY <1>u DEF Waiting
  <2> QED BY <1>0, <1>u, <2>1 DEF IInv, Counted
<1>2. Ordered'
  BY <1>0, <1>u DEF IInv, Ordered
<1>3. Phases'
  BY <1>0, <1>u DEF Phases, GraphDone, Ordering, ErrorKinds
<1>4. Cardinality(Placed) = Len(plan) <=> Placed = IDs
  <2>1. Placed \in SUBSET IDs
    BY <1>0 DEF Placed
  <2>2. IsFiniteSet(IDs) /\ Cardinality(IDs) = Len(plan)
    BY <1>0, IDsFinite
  <2> QED BY <2>1, <2>2, FS_Subset
<1>5. Verdict'
  BY <1>0, <1>u, <1>4 DEF Verdict, GraphDone, CycleLeft
<1> QED BY <1>1, <1>2, <1>3, <1>5 DEF IInv

LEMMA GraphStutter == IInv /\ UNCHANGED graphVars => IInv'
<1> SUFFICES ASSUME IInv, UNCHANGED graphVars PROVE IInv'
  OBVIOUS
<1>0. /\ plan' = plan /\ phase' = phase /\ err' = err /\ inDegree' = inDegree
      /\ queue' = queue /\ levels' = levels
  BY DEF graphVars
<1>u. /\ IDs' = IDs /\ BadIDs' = BadIDs /\ BadNodes' = BadNodes
      /\ \A n : DependsOn(n)' = DependsOn(n) /\ Deps(n)' = Deps(n)
  BY <1>0, PlanUnchanged
<1>1. /\ Placed' = Placed /\ Ordering' = Ordering
      /\ \A n : Waiting(n)' = Waiting(n)
  BY <1>0, <1>u DEF Placed, Ordering, Waiting
<1>2. Phases' /\ Verdict'
  BY <1>0, <1>u, <1>1 DEF IInv, Phases, Verdict
<1>3. Counted' /\ Ordered'
  BY <1>0, <1>u, <1>1 DEF IInv, Counted, Ordered
<1> QED BY <1>2, <1>3 DEF IInv

LEMMA GraphStep == IInv /\ GraphNext => IInv'
  BY CheckPlanStep, NextLevelStep, GraphDoneStep DEF GraphNext

LEMMA Invariance == GraphSpec => []IInv
<1>1. IInv /\ [GraphNext]_graphVars => IInv'
  BY GraphStutter, GraphStep
<1> QED BY IInvInit, <1>1, PTL DEF GraphSpec

-----------------------------------------------------------------------------
(* A set of numbers has a least one. *)
LEMMA Least ==
    ASSUME NEW T \in SUBSET Nat, T # {}
    PROVE  \E x \in T : \A y \in T : x <= y
<1>1. \E x \in T : \A y \in T : ~(<<y, x>> \in OpToRel(<, Nat))
  BY NatLessThanWellFounded, WFMin, Zenon
<1>2. ASSUME NEW x \in T, NEW y \in T, ~(x <= y) PROVE <<y, x>> \in OpToRel(<, Nat)
  <2>1. y < x /\ <<y, x>> \in Nat \X Nat
    BY <1>2
  <2> QED BY <2>1 DEF OpToRel
<1> QED BY <1>1, <1>2, Zenon

(* For every plan, the levels buildGraph returns are an order of execution:  *)
(* a node comes after all nodes it depends on, and every node comes once.    *)
THEOREM LevelsCorrect == GraphSpec => []LevelsSound
<1>1. IInv => LevelsSound
  BY DEF IInv, Ordered, Verdict, LevelsSound
<1> QED BY <1>1, Invariance, PTL

(* For every plan, buildGraph finds a cycle if and only if there is one, and *)
(* a plan it accepts has distinct, non-empty IDs and known dependencies.     *)
THEOREM CyclesFound == GraphSpec => []CycleReportedIffCyclic
<1>1. ASSUME IInv, err = "cycle" PROVE Cyclic
  <2> DEFINE S == IDs \ Placed
  <2>0. /\ plan \in Plans /\ queue = {} /\ BadNodes = {} /\ Placed \subseteq IDs
        /\ Placed # IDs
        /\ \A n \in IDs : inDegree[n] = Cardinality(Waiting(n))
        /\ \A n \in IDs : inDegree[n] = 0 <=> n \in Placed
    BY <1>1 DEF IInv, Phases, Counted, Verdict, Ordering, Placed
  <2>1. ASSUME NEW n \in S PROVE Deps(n) \cap S # {}
    <3>1. Waiting(n) \in SUBSET DOMAIN DependsOn(n)
      BY DEF Waiting
    <3>2. Waiting(n) # {}
      BY <2>0, <3>1, WaitingFinite
    <3>3. PICK k \in DOMAIN DependsOn(n) : DependsOn(n)[k] \notin Placed
      BY <3>2 DEF Waiting
    <3>4. DependsOn(n)[k] \in Deps(n) /\ Deps(n) \subseteq IDs
      BY <2>0, NodeType DEF Deps
    <3> QED BY <3>3, <3>4
  <2>2. S \in SUBSET IDs /\ S # {}
    BY <2>0
  <2> HIDE DEF S
  <2> QED BY <2>1, <2>2 DEF Cyclic
<1>2. ASSUME IInv, phase = "built"
      PROVE  /\ ~Cyclic /\ NoID \notin IDs /\ Cardinality(IDs) = Len(plan)
             /\ \A n \in IDs : Deps(n) \subseteq IDs
  <2>0. /\ plan \in Plans /\ BadIDs = {} /\ BadNodes = {} /\ Placed = IDs /\ Ordered
        /\ DOMAIN levels = 1..Len(levels) /\ Len(levels) \in Nat
    BY <1>2 DEF IInv, Phases, Counted, Verdict, Ordering
  <2>1. ASSUME NEW S \in SUBSET IDs, S # {}, \A n \in S : Deps(n) \cap S # {} PROVE FALSE
    <3> DEFINE T == {i \in DOMAIN levels : levels[i] \cap S # {}}
    <3>1. T \in SUBSET Nat /\ T # {}
      BY <2>0, <2>1 DEF Placed
    <3>2. PICK i \in T : \A j \in T : i <= j
      BY <3>1, Least, Zenon
    <3>3. PICK n \in S : n \in levels[i]
      BY <3>2
    <3>4. PICK d \in Deps(n) : d \in S
      BY <2>1, <3>3
    <3>5. PICK j \in 1..(i - 1) : d \in levels[j]
      BY <2>0, <3>2, <3>3, <3>4 DEF Ordered
    <3>6. j \in T /\ j < i
      BY <2>0, <3>2, <3>4, <3>5
    <3> QED BY <2>0, <3>2, <3>6
  <2> QED BY <2>0, <2>1, IDsFinite, NodeType, Zenon DEF Cyclic
<1>3. IInv => CycleReportedIffCyclic
  BY <1>1, <1>2 DEF CycleReportedIffCyclic
<1> QED BY <1>3, Invariance, PTL

(* No in-degree is decremented below zero, for every plan. *)
THEOREM GraphTypeCorrect == GraphSpec => []GraphTypeOK
<1>1. IInv => GraphTypeOK
  BY DEF IInv, Phases, Counted, Ordering, GraphTypeOK
<1> QED BY <1>1, Invariance, PTL

-----------------------------------------------------------------------------
Ended == {"done", "skipped"}
Active == Running \cup {"spawned"}

Level == IF lvl <= Len(levels) THEN levels[lvl] ELSE {}

(* What every state has in common. *)
Frame ==
    /\ IInv
    /\ main \in {"build", "level", "done"}
    /\ pc \in [IDs -> Active \cup Ended \cup {"idle"}]
    /\ DOMAIN res = IDs /\ res = [n \in IDs |-> res[n]]
    /\ \A n \in IDs : pc[n] = "skipped" => res[n] # NoErr
    /\ main = "build" => /\ \A n \in IDs : pc[n] = "idle"
                         /\ resultCh = << >> /\ DOMAIN resultsByID = {}
    /\ main = "level" => phase = "built" /\ lvl \in 1..(Len(levels) + 1)

(* Levels are executed one after the other. *)
InLevels ==
    main = "level" =>
        /\ \A j \in 1..(lvl - 1) : \A n \in levels[j] : pc[n] \in Ended
        /\ \A j \in (lvl + 1)..Len(levels) : \A n \in levels[j] : pc[n] = "idle"
        /\ todo \subseteq Level
        /\ \A n \in Level : pc[n] = "idle" <=> n \in todo

(* The results of earlier levels have been collected, those of this one are  *)
(* in the channel.                                                           *)
Collected ==
    main = "level" =>
        /\ resultCh \in Seq(IDs)
        /\ Received = {n \in Level : pc[n] \in Ended}
        /\ DOMAIN resultsByID = UNION {levels[j] : j \in 1..(lvl - 1)}
        /\ \A n \in DOMAIN resultsByID : resultsByID[n] = res[n]

(* Every node of the level has a result in the channel or one to come. *)
Room ==
    main = "level" =>
        Len(resultCh) + Cardinality(todo) + Cardinality({n \in Level : pc[n] \in Active})
          = Cardinality(Level)

(* The inductive invariant. *)
EInv == Frame /\ InLevels /\ Collected /\ Room

-----------------------------------------------------------------------------
LEMMA InitEInv == Init => EInv
<1> SUFFICES ASSUME Init PROVE EInv
  OBVIOUS
<1>1. IInv
  BY IInvInit DEF Init
<1>2. Frame
  BY <1>1 DEF Init, Frame, Active, Running
<1> QED BY <1>2 DEF EInv, InLevels, Collected, Room, Init

-----------------------------------------------------------------------------
(* What the steps are to the variables of the invariant: attempts, circuits, *)
(* metrics and steps of the trace are not among them.                        *)
Quiet == UNCHANGED <<graphVars, main, lvl, todo, pc, res, resultCh, resultsByID>>

Internal(n) ==
    /\ pc[n] \in Active
    /\ \E p \in Running : pc' = [pc EXCEPT ![n] = p]
    /\ res' = res \/ \E e : res' = [res EXCEPT ![n] = e]
    /\ UNCHANGED <<graphVars, main, lvl, todo, resultCh, resultsByID>>

LEMMA NodeMoves ==
    ASSUME NEW n \in IDs, Node(n)
    PROVE  Internal(n) \/ Return(n)
<1> USE DEF Internal, Active, Running
<1>1. CASE StartNode(n)
  BY <1>1 DEF StartNode
<1>2. CASE Allow(n)
  BY <1>2 DEF Allow
<1>3. CASE CallSucceeds(n)
  BY <1>3, Zenon DEF CallSucceeds
<1>4. ASSUME NEW e, CallFails(n, e) PROVE Internal(n)
  BY <1>4 DEF CallFails
<1>5. CASE BackoffElapsed(n)
  BY <1>5 DEF BackoffElapsed
<1>6. CASE BackoffCancelled(n)
  BY <1>6, Zenon DEF BackoffCancelled
<1> QED BY <1>1, <1>2, <1>3, <1>4, <1>5, <1>6 DEF Node

LEMMA Moves ==
    ASSUME [Next]_vars
    PROVE  \/ BuildGraph \/ RejectPlan \/ StartPlan \/ CollectLevel \/ FinishPlan \/ Quiet
           \/ \E n \in IDs : Dispatch(n) \/ Internal(n) \/ Return(n)
<1>1. CASE Main
  BY <1>1 DEF Main
<1>2. CASE \E n \in IDs : Node(n)
  BY <1>2, NodeMoves
<1>3. CASE Cancel \/ Tick \/ (\E a \in LateAgents : Register(a)) \/ UNCHANGED vars
  BY <1>3 DEF Quiet, Cancel, Tick, Register, vars, nodeVars, outVars
<1> QED BY <1>1, <1>2, <1>3 DEF Next

(* The graph is built first and stays. *)
LEMMA GraphKept ==
    ASSUME UNCHANGED graphVars, IInv
    PROVE  /\ IInv' /\ plan' = plan /\ IDs' = IDs /\ levels' = levels /\ phase' = phase
           /\ \A n : Deps(n)' = Deps(n)
<1>1. plan' = plan /\ levels' = levels /\ phase' = phase
  BY DEF graphVars
<1>2. IDs' = IDs /\ \A n : Deps(n)' = Deps(n)
  BY <1>1, PlanUnchanged
<1>3. IInv'
  BY GraphStutter
<1> QED BY <1>1, <1>2, <1>3

-----------------------------------------------------------------------------
(* An accepted plan has at least one level. *)
LEMMA LevelType ==
    ASSUME IInv, phase = "built"
    PROVE  /\ Len(levels) \in Nat /\ DOMAIN levels = 1..Len(levels)
           /\ Len(levels) > 0
           /\ \A j \in 1..Len(levels) : levels[j] \subseteq IDs
           /\ IDs = UNION {levels[j] : j \in 1..Len(levels)}
           /\ \A j, k \in 1..Len(levels) : levels[j] \cap levels[k] # {} => j = k
<1>1. levels \in Seq(SUBSET IDs) /\ Placed = IDs /\ Ordered /\ plan \in Plans /\ plan # << >>
  BY DEF IInv, Counted, Verdict, Phases, Ordering
<1>2. Len(levels) \in Nat /\ DOMAIN levels = 1..Len(levels)
  BY <1>1
<1>3. \A j \in 1..Len(levels) : levels[j] \subseteq IDs
  BY <1>1, <1>2
<1>4. IDs = UNION {levels[j] : j \in 1..Len(levels)}
  BY <1>1, <1>2 DEF Placed
<1>5. IDs # {}
  <2>1. Len(plan) \in Nat /\ DOMAIN plan = 1..Len(plan)
    BY <1>1, PlanType
  <2>2. Len(plan) # 0
    <3> DEFINE S == {plan[i] : i \in DOMAIN plan}
    <3>1. plan \in Seq(S)
      BY <1>1, PlansAssumption, Zenon
    <3> HIDE DEF S
    <3> QED BY <1>1, <3>1
  <2>3. 1 \in DOMAIN plan
    BY <2>1, <2>2
  <2> QED BY <2>3, Zenon DEF IDs
<1>6. Len(levels) > 0
  BY <1>2, <1>4, <1>5
<1>7. \A j, k \in 1..Len(levels) : levels[j] \cap levels[k] # {} => j = k
  BY <1>1, <1>2 DEF Ordered
<1> QED BY <1>2, <1>3, <1>4, <1>6, <1>7

LEMMA Finite ==
    ASSUME IInv, NEW S \in SUBSET IDs
    PROVE  IsFiniteSet(S) /\ Cardinality(S) \in Nat
<1>1. IsFiniteSet(IDs)
  BY IDsFinite DEF IInv, Phases
<1> QED BY <1>1, FS_Subset, FS_CardinalityType

(* A node that has been dispatched and has not ended is one of the level. *)
LEMMA ActiveInLevel ==
    ASSUME EInv, main = "level", NEW n \in IDs, pc[n] \in Active
    PROVE  /\ lvl \in 1..Len(levels) /\ Level = levels[lvl]
           /\ n \in Level /\ n \notin todo
<1>1. IInv /\ phase = "built" /\ lvl \in 1..(Len(levels) + 1)
  BY DEF EInv, Frame
<1>2. PICK j \in 1..Len(levels) : n \in levels[j]
  BY <1>1, LevelType
<1>3. Len(levels) \in Nat
  BY <1>1, LevelType
<1>4. pc[n] \notin Ended /\ pc[n] # "idle"
  BY DEF Active, Running, Ended
<1>5. ~(j \in 1..(lvl - 1)) /\ ~(j \in (lvl + 1)..Len(levels))
  BY <1>2, <1>4 DEF EInv, InLevels
<1>6. j = lvl
  BY <1>1, <1>3, <1>5
<1>7. lvl \in 1..Len(levels) /\ Level = levels[lvl] /\ n \in Level
  BY <1>1, <1>2, <1>3, <1>6 DEF Level
<1> QED BY <1>4, <1>7 DEF EInv, InLevels

LEMMA QuietStep == EInv /\ Quiet => EInv'
<1> SUFFICES ASSUME EInv, Quiet PROVE EInv'
  OBVIOUS
<1>1. /\ IInv' /\ IDs' = IDs /\ levels' = levels /\ phase' = phase
      /\ main' = main /\ lvl' = lvl /\ todo' = todo /\ pc' = pc /\ res' = res
      /\ resultCh' = resultCh /\ resultsByID' = resultsByID
  BY GraphKept DEF EInv, Frame, Quiet
<1>2. Level' = Level /\ Received' = Received
  BY <1>1 DEF Level, Received
<1>3. Frame'
  BY <1>1 DEF EInv, Frame
<1>4. InLevels' /\ Collected' /\ Room'
  BY <1>1, <1>2 DEF EInv, InLevels, Collected, Room
<1> QED BY <1>3, <1>4 DEF EInv

LEMMA BuildStep == EInv /\ BuildGraph => EInv'
<1> SUFFICES ASSUME EInv, BuildGraph PROVE EInv'
  OBVIOUS
<1>1. /\ main = "build" /\ main' = main /\ pc' = pc /\ res' = res
      /\ resultCh' = resultCh /\ resultsByID' = resultsByID
  BY DEF BuildGraph, nodeVars
<1>2. IInv' /\ plan' = plan
  BY GraphStep DEF EInv, Frame, BuildGraph, GraphNext, CheckPlan, NextLevel, GraphDone
<1>3. IDs' = IDs
  BY <1>2, PlanUnchanged
<1>4. Frame'
  BY <1>1, <1>2, <1>3 DEF EInv, Frame
<1> QED BY <1>1, <1>4 DEF EInv, InLevels, Collected, Room

(* Once the plan is rejected or finished, nothing more is claimed. *)
LEMMA EndStep == EInv /\ (RejectPlan \/ FinishPlan) => EInv'
<1> SUFFICES ASSUME EInv, RejectPlan \/ FinishPlan PROVE EInv'
  OBVIOUS
<1>1. main' = "done" /\ pc' = pc /\ res' = res /\ UNCHANGED graphVars
  BY DEF RejectPlan, FinishPlan, nodeVars
<1>2. IInv' /\ IDs' = IDs
  BY <1>1, GraphKept DEF EInv, Frame
<1>3. Frame'
  BY <1>1, <1>2 DEF EInv, Frame
<1> QED BY <1>1, <1>3, Zenon DEF EInv, InLevels, Collected, Room

LEMMA StartStep == EInv /\ StartPlan => EInv'
<1> SUFFICES ASSUME EInv, StartPlan PROVE EInv'
  OBVIOUS
<1>1. /\ main = "build" /\ main' = "level" /\ phase = "built" /\ lvl' = 1 /\ todo' = levels[1]
      /\ pc' = pc /\ res' = res /\ resultCh' = resultCh /\ resultsByID' = resultsByID
      /\ UNCHANGED graphVars
  BY DEF StartPlan, nodeVars
<1>2. IInv /\ IInv' /\ IDs' = IDs /\ levels' = levels /\ phase' = phase
  BY <1>1, GraphKept DEF EInv, Frame
<1>3. /\ Len(levels) \in Nat /\ Len(levels) > 0
      /\ \A j \in 1..Len(levels) : levels[j] \subseteq IDs
  BY <1>1, <1>2, LevelType
<1>4. \A n \in IDs : pc[n] = "idle"
  BY <1>1 DEF EInv, Frame
<1>5. resultCh = << >> /\ DOMAIN resultsByID = {}
  BY <1>1 DEF EInv, Frame
<1>6. Level' = levels[1] /\ levels[1] \subseteq IDs /\ Received' = {}
  BY <1>1, <1>2, <1>3, <1>5 DEF Level, Received
<1>7. Frame'
  BY <1>1, <1>2, <1>3, <1>5 DEF EInv, Frame
<1>8. InLevels'
  BY <1>1, <1>2, <1>3, <1>4, <1>6 DEF InLevels
<1>9. Collected'
  BY <1>1, <1>2, <1>4, <1>5, <1>6 DEF Collected, Ended
<1>10. Room'
  <2>1. {n \in levels[1] : pc[n] \in Active} = {}
    BY <1>4, <1>6 DEF Active, Running
  <2>2. Cardinality(levels[1]) \in Nat
    BY <1>2, <1>6, Finite
  <2>3. Cardinality({}) = 0
    BY FS_EmptySet
  <2>4. Len(resultCh') = 0
    BY <1>1, <1>5
  <2>5. {n \in Level' : pc'[n] \in Active} = {} /\ todo' = Level'
    BY <1>1, <1>6, <2>1
  <2>6. Cardinality(Level') \in Nat
    BY <1>6, <2>2
  <2>7. Len(resultCh') + Cardinality(todo') + Cardinality({}) = Cardinality(Level')
    BY <2>3, <2>4, <2>5, <2>6
  <2> QED BY <2>5, <2>7, Zenon DEF Room
<1> QED BY <1>7, <1>8, <1>9, <1>10 DEF EInv

(* A step of an attempt leaves its node active. *)
LEMMA InternalStep ==
    ASSUME EInv, NEW n \in IDs, Internal(n)
    PROVE  EInv'
<1>1. /\ pc[n] \in Active /\ main' = main /\ lvl' = lvl /\ todo' = todo
      /\ resultCh' = resultCh /\ resultsByID' = resultsByID /\ UNCHANGED graphVars
  BY DEF Internal
<1>2. /\ IInv /\ IInv' /\ IDs' = IDs /\ levels' = levels /\ phase' = phase
      /\ pc \in [IDs -> Active \cup Ended \cup {"idle"}] /\ DOMAIN res = IDs
  BY <1>1, GraphKept DEF EInv, Frame
<1>3. /\ pc' \in [IDs -> Active \cup Ended \cup {"idle"}]
      /\ pc'[n] \in Active
      /\ \A m \in IDs : m # n => pc'[m] = pc[m]
  BY <1>2 DEF Internal, Active
<1>4. /\ DOMAIN res' = IDs /\ res' = [m \in IDs |-> res'[m]]
      /\ \A m \in IDs : m # n => res'[m] = res[m]
  BY <1>2 DEF Internal, EInv, Frame
<1>5. main # "build"
  BY <1>1 DEF EInv, Frame, Active, Running
<1>6. Frame'
  <2>1. \A m \in IDs : pc'[m] = "skipped" => res'[m] # NoErr
    BY <1>3, <1>4 DEF EInv, Frame, Active, Running
  <2> QED BY <1>1, <1>2, <1>3, <1>4, <1>5, <2>1 DEF EInv, Frame
<1>7. ASSUME main = "level" PROVE InLevels' /\ Collected' /\ Room'
  <2>1. lvl \in 1..Len(levels) /\ Level = levels[lvl] /\ n \in Level /\ n \notin todo
    BY <1>1, <1>7, ActiveInLevel
  <2>2. /\ Len(levels) \in Nat
        /\ \A j \in 1..Len(levels) : levels[j] \subseteq IDs
        /\ \A j, k \in 1..Len(levels) : levels[j] \cap levels[k] # {} => j = k
    BY <1>2, <1>7, LevelType DEF EInv, Frame
  <2>3. \A j \in 1..Len(levels) : j # lvl => n \notin levels[j]
    BY <2>1, <2>2
  <2>4. Level' = Level /\ Received' = Received
    BY <1>1, <1>2 DEF Level, Received
  <2>5. \A m \in Level : /\ pc'[m] \in Active <=> pc[m] \in Active
                         /\ pc'[m] \in Ended <=> pc[m] \in Ended
                         /\ pc'[m] = "idle" <=> pc[m] = "idle"
    BY <1>1, <1>3, <2>1, <2>2 DEF Active, Running, Ended
  <2>6. \A j \in 1..Len(levels) : j # lvl => \A m \in levels[j] : pc'[m] = pc[m] /\ res'[m] = res[m]
    BY <1>3, <1>4, <2>2, <2>3
  <2>7. InLevels'
    <3>1. /\ \A j \in 1..(lvl - 1) : \A m \in levels[j] : pc[m] \in Ended
          /\ \A j \in (lvl + 1)..Len(levels) : \A m \in levels[j] : pc[m] = "idle"
          /\ todo \subseteq Level /\ \A m \in Level : pc[m] = "idle" <=> m \in todo
      BY <1>7 DEF EInv, InLevels
    <3>2. /\ \A j \in 1..(lvl - 1) : j \in 1..Len(levels) /\ j # lvl
          /\ \A j \in (lvl + 1)..Len(levels) : j \in 1..Len(levels) /\ j # lvl
      BY <2>1, <2>2
    <3>3. /\ \A j \in 1..(lvl - 1) : \A m \in levels[j] : pc'[m] \in Ended
          /\ \A j \in (lvl + 1)..Len(levels) : \A m \in levels[j] : pc'[m] = "idle"
      BY <2>6, <3>1, <3>2, Zenon
    <3>4. \A m \in Level : pc'[m] = "idle" <=> m \in todo
      BY <2>5, <3>1, Zenon
    <3> QED BY <1>1, <1>2, <2>4, <3>1, <3>3, <3>4, Zenon DEF InLevels
  <2>8. Collected'
    <3>1. \A m \in DOMAIN resultsByID : res'[m] = res[m]
      <4>1. DOMAIN resultsByID = UNION {levels[j] : j \in 1..(lvl - 1)}
        BY <1>7 DEF EInv, Collected
      <4>2. \A j \in 1..(lvl - 1) : j \in 1..Len(levels) /\ j # lvl
        BY <2>1, <2>2
      <4> QED BY <2>6, <4>1, <4>2, Zenon
    <3> QED BY <1>1, <1>2, <1>7, <2>4, <2>5, <3>1 DEF EInv, Collected
  <2>9. Room'
    <3>1. {m \in Level : pc'[m] \in Active} = {m \in Level : pc[m] \in Active}
      BY <2>5
    <3> QED BY <1>1, <1>7, <2>4, <3>1, Zenon DEF EInv, Room
  <2> QED BY <2>7, <2>8, <2>9
<1>8. main # "level" => InLevels' /\ Collected' /\ Room'
  BY <1>1 DEF InLevels, Collected, Room
<1> QED BY <1>6, <1>7, <1>8 DEF EInv

(* Adding a node to a sequence of results. *)
LEMMA Sent ==
    ASSUME resultCh \in Seq(IDs), NEW n \in IDs, resultCh' = Append(resultCh, n)
    PROVE  /\ Received' = Received \cup {n} /\ resultCh' \in Seq(IDs)
           /\ Len(resultCh') = Len(resultCh) + 1 /\ Len(resultCh) \in Nat
<1>1. /\ DOMAIN resultCh = 1..Len(resultCh) /\ Len(resultCh) \in Nat
      /\ DOMAIN resultCh' = 1..(Len(resultCh) + 1)
      /\ resultCh'[Len(resultCh) + 1] = n
      /\ \A i \in DOMAIN resultCh : resultCh'[i] = resultCh[i]
  OBVIOUS
<1> QED BY <1>1 DEF Received

(* The node's result takes its place in the channel. *)
LEMMA ReturnStep ==
    ASSUME EInv, NEW n \in IDs, Return(n)
    PROVE  EInv'
<1>1. /\ pc[n] = "return" /\ main' = main /\ lvl' = lvl /\ todo' = todo /\ res' = res
      /\ resultCh' = Append(resultCh, n) /\ resultsByID' = resultsByID /\ UNCHANGED graphVars
      /\ pc' = [pc EXCEPT ![n] = "done"]
  BY DEF Return
<1>2. /\ IInv /\ IInv' /\ IDs' = IDs /\ levels' = levels /\ phase' = phase
      /\ pc \in [IDs -> Active \cup Ended \cup {"idle"}]
  BY <1>1, GraphKept, Zenon DEF EInv, Frame
<1>3. /\ pc' \in [IDs -> Active \cup Ended \cup {"idle"}]
      /\ pc'[n] = "done"
      /\ \A m \in IDs : m # n => pc'[m] = pc[m]
  BY <1>1, <1>2 DEF Ended
<1>4. main # "build" /\ pc[n] \in Active
  BY <1>1 DEF EInv, Frame, Active, Running
<1>5. Frame'
  BY <1>1, <1>2, <1>3, <1>4 DEF EInv, Frame
<1>6. ASSUME main = "level" PROVE InLevels' /\ Collected' /\ Room'
  <2>1. lvl \in 1..Len(levels) /\ Level = levels[lvl] /\ n \in Level /\ n \notin todo
    BY <1>4, <1>6, ActiveInLevel
  <2>2. /\ Len(levels) \in Nat
        /\ \A j \in 1..Len(levels) : levels[j] \subseteq IDs
        /\ \A j, k \in 1..Len(levels) : levels[j] \cap levels[k] # {} => j = k
    BY <1>2, <1>6, LevelType DEF EInv, Frame
  <2>3. \A j \in 1..Len(levels) : j # lvl => n \notin levels[j]
    BY <2>1, <2>2
  <2>4. Level' = Level /\ Level \subseteq IDs
    BY <1>1, <1>2, <2>1, <2>2 DEF Level
  <2>5. /\ Received' = Received \cup {n} /\ resultCh' \in Seq(IDs)
        /\ Len(resultCh') = Len(resultCh) + 1 /\ Len(resultCh) \in Nat
    BY <1>1, <1>6, Sent DEF EInv, Collected
  <2>6. \A j \in 1..Len(levels) : j # lvl => \A m \in levels[j] : pc'[m] = pc[m]
    BY <1>3, <2>2, <2>3
  <2>7. InLevels'
    <3>1. \A m \in Level : pc'[m] = "idle" <=> pc[m] = "idle"
      BY <1>1, <1>3, <2>4
    <3> QED BY <1>1, <1>2, <1>6, <2>1, <2>2, <2>4, <2>6, <3>1 DEF EInv, InLevels
  <2>8. Collected'
    <3>1. {m \in Level : pc'[m] \in Ended} = {m \in Level : pc[m] \in Ended} \cup {n}
      BY <1>3, <2>1, <2>4 DEF Ended
    <3> QED BY <1>1, <1>2, <1>6, <2>4, <2>5, <3>1 DEF EInv, Collected
  <2>9. Room'
    <3> DEFINE S == {m \in Level : pc[m] \in Active}
    <3>1. {m \in Level : pc'[m] \in Active} = S \ {n} /\ n \in S
      BY <1>3, <1>4, <2>1, <2>4 DEF Active, Running
    <3>2. S \in SUBSET IDs /\ todo \in SUBSET IDs
      BY <1>6, <2>4 DEF EInv, InLevels
    <3>3. IsFiniteSet(S) /\ Cardinality(S) \in Nat /\ Cardinality(todo) \in Nat
      BY <1>2, <3>2, Finite
    <3>4. Len(resultCh) + Cardinality(todo) + Cardinality(S) = Cardinality(Level)
      BY <1>6 DEF EInv, Room
    <3> HIDE DEF S
    <3>5. Cardinality(S \ {n}) = Cardinality(S) - 1
      BY <3>1, <3>3, FS_RemoveElement, Zenon
    <3>6. Len(resultCh') + Cardinality(todo') + Cardinality(S \ {n}) = Cardinality(Level')
      BY <1>1, <2>4, <2>5, <3>3, <3>4, <3>5
    <3> QED BY <2>4, <3>1, <3>6, Zenon DEF Room
  <2> QED BY <2>7, <2>8, <2>9
<1>7. main # "level" => InLevels' /\ Collected' /\ Room'
  BY <1>1 DEF InLevels, Collected, Room
<1> QED BY <1>5, <1>6, <1>7 DEF EInv

(* A node is skipped or becomes active. *)
LEMMA DispatchStep ==
    ASSUME EInv, NEW n \in IDs, Dispatch(n)
    PROVE  EInv'
<1>1. /\ main = "level" /\ main' = main /\ lvl' = lvl /\ n \in todo /\ todo' = todo \ {n}
      /\ resultsByID' = resultsByID /\ UNCHANGED graphVars
  BY DEF Dispatch
<1>2. /\ IInv /\ IInv' /\ IDs' = IDs /\ levels' = levels /\ phase' = phase /\ phase = "built"
      /\ pc \in [IDs -> Active \cup Ended \cup {"idle"}] /\ lvl \in 1..(Len(levels) + 1)
      /\ DOMAIN res = IDs /\ res = [m \in IDs |-> res[m]]
  BY <1>1, GraphKept DEF EInv, Frame
<1>3. /\ Len(levels) \in Nat
      /\ \A j \in 1..Len(levels) : levels[j] \subseteq IDs
      /\ \A j, k \in 1..Len(levels) : levels[j] \cap levels[k] # {} => j = k
  BY <1>2, LevelType
<1>4. /\ n \in Level /\ pc[n] = "idle"
      /\ lvl \in 1..Len(levels) /\ Level = levels[lvl] /\ Level \subseteq IDs
  BY <1>1, <1>2, <1>3 DEF EInv, InLevels, Level
<1>5. \A j \in 1..Len(levels) : j # lvl => n \notin levels[j]
  BY <1>3, <1>4
<1>6. Level' = Level
  BY <1>1, <1>2 DEF Level
<1>7. PICK p \in {"skipped", "spawned"} : pc' = [pc EXCEPT ![n] = p]
  BY DEF Dispatch
<1>8. /\ pc' \in [IDs -> Active \cup Ended \cup {"idle"}]
      /\ pc'[n] = p
      /\ \A m \in IDs : m # n => pc'[m] = pc[m]
  BY <1>2, <1>7 DEF Ended, Active
<1>9. InLevels'
  <2>1. \A j \in 1..Len(levels) : j # lvl => \A m \in levels[j] : pc'[m] = pc[m]
    BY <1>3, <1>5, <1>8
  <2>2. \A m \in Level : pc'[m] = "idle" <=> m \in todo'
    BY <1>1, <1>4, <1>8, Zenon DEF EInv, InLevels
  <2> QED BY <1>1, <1>2, <1>3, <1>4, <1>6, <2>1, <2>2 DEF EInv, InLevels
<1>s. /\ resultCh \in Seq(IDs) /\ Received = {m \in Level : pc[m] \in Ended}
      /\ DOMAIN resultsByID = UNION {levels[j] : j \in 1..(lvl - 1)}
      /\ \A m \in DOMAIN resultsByID : resultsByID[m] = res[m]
      /\ n \notin DOMAIN resultsByID /\ DOMAIN resultsByID \subseteq IDs
  <2>1. /\ resultCh \in Seq(IDs) /\ Received = {m \in Level : pc[m] \in Ended}
        /\ DOMAIN resultsByID = UNION {levels[j] : j \in 1..(lvl - 1)}
        /\ \A m \in DOMAIN resultsByID : resultsByID[m] = res[m]
    BY <1>1, Zenon DEF EInv, Collected
  <2>2. \A j \in 1..(lvl - 1) : j \in 1..Len(levels) /\ j # lvl
    BY <1>3, <1>4
  <2>3. n \notin DOMAIN resultsByID /\ DOMAIN resultsByID \subseteq IDs
    <3>1. \A j \in 1..(lvl - 1) : n \notin levels[j] /\ levels[j] \subseteq IDs
      BY <1>3, <1>5, <2>2, Zenon
    <3> QED BY <2>1, <3>1, Zenon
  <2> QED BY <2>1, <2>3, Zenon
<1> DEFINE S == {m \in Level : pc[m] \in Active}
<1>c. /\ Cardinality(todo) \in Nat /\ Cardinality(todo') = Cardinality(todo) - 1
      /\ IsFiniteSet(S) /\ Cardinality(S) \in Nat
      /\ Len(resultCh) + Cardinality(todo) + Cardinality(S) = Cardinality(Level)
  <2>1. todo \in SUBSET IDs /\ S \in SUBSET IDs
    BY <1>1, <1>4 DEF EInv, InLevels
  <2>2. Len(resultCh) + Cardinality(todo) + Cardinality(S) = Cardinality(Level)
    BY <1>1 DEF EInv, Room
  <2> HIDE DEF S
  <2>3. /\ IsFiniteSet(todo) /\ Cardinality(todo) \in Nat
        /\ IsFiniteSet(S) /\ Cardinality(S) \in Nat
    BY <1>2, <2>1, Finite
  <2>4. Cardinality(todo \ {n}) = Cardinality(todo) - 1
    BY <1>1, <2>3, FS_RemoveElement, Zenon
  <2> QED BY <1>1, <2>2, <2>3, <2>4
<1>10. CASE pc' = [pc EXCEPT ![n] = "skipped"]
  <2>1. pc'[n] = "skipped"
    BY <1>2, <1>10
  <2>2. resultCh' = Append(resultCh, n) /\ res' = [res EXCEPT ![n] = DepFailed]
    BY <1>2, <2>1 DEF Dispatch
  <2>3. /\ Received' = Received \cup {n} /\ resultCh' \in Seq(IDs)
        /\ Len(resultCh') = Len(resultCh) + 1 /\ Len(resultCh) \in Nat
    BY <1>s, <2>2, Sent
  <2>4. /\ DOMAIN res' = IDs /\ res' = [m \in IDs |-> res'[m]]
        /\ res'[n] = DepFailed /\ \A m \in IDs : m # n => res'[m] = res[m]
    BY <1>2, <2>2, Zenon
  <2>5. DepFailed # NoErr
    BY DEF DepFailed, NoErr, PlainErr, Error
  <2>6. Frame'
    <3>1. \A m \in IDs : pc'[m] = "skipped" => res'[m] # NoErr
      BY <1>8, <2>4, <2>5 DEF EInv, Frame
    <3> QED BY <1>1, <1>2, <1>8, <2>4, <3>1 DEF EInv, Frame
  <2>7. Collected'
    <3>1. {m \in Level : pc'[m] \in Ended} = {m \in Level : pc[m] \in Ended} \cup {n}
      BY <1>4, <1>8, <2>1 DEF Ended
    <3>2. \A m \in DOMAIN resultsByID : resultsByID[m] = res'[m]
      BY <1>s, <2>4
    <3> QED BY <1>1, <1>2, <1>6, <1>s, <2>3, <3>1, <3>2 DEF Collected
  <2>8. Room'
    <3>1. {m \in Level : pc'[m] \in Active} = S
      BY <1>4, <1>8, <2>1 DEF Active, Running
    <3> HIDE DEF S
    <3>2. Len(resultCh') + Cardinality(todo') + Cardinality(S) = Cardinality(Level')
      BY <1>c, <1>6, <2>3
    <3> QED BY <1>6, <3>1, <3>2, Zenon DEF Room
  <2> QED BY <1>9, <2>6, <2>7, <2>8 DEF EInv
<1>11. CASE pc' = [pc EXCEPT ![n] = "spawned"]
  <2>1. pc'[n] = "spawned"
    BY <1>2, <1>11
  <2>2. resultCh' = resultCh /\ res' = res /\ Received' = Received
    BY <1>2, <2>1 DEF Dispatch, Received
  <2>3. Frame'
    BY <1>1, <1>2, <1>8, <2>1, <2>2 DEF EInv, Frame
  <2>4. Collected'
    <3>1. {m \in Level : pc'[m] \in Ended} = {m \in Level : pc[m] \in Ended}
      BY <1>4, <1>8, <2>1 DEF Ended
    <3> QED BY <1>1, <1>2, <1>6, <1>s, <2>2, <3>1 DEF Collected
  <2>5. Room'
    <3>1. {m \in Level : pc'[m] \in Active} = S \cup {n} /\ n \notin S
      BY <1>4, <1>8, <2>1 DEF Active, Running
    <3>2. Len(resultCh) \in Nat
      BY <1>s
    <3> HIDE DEF S
    <3>3. Cardinality(S \cup {n}) = Cardinality(S) + 1
      BY <1>c, <3>1, FS_AddElement, Zenon
    <3>4. Len(resultCh') + Cardinality(todo') + Cardinality(S \cup {n}) = Cardinality(Level')
      BY <1>c, <1>6, <2>2, <3>2, <3>3
    <3> QED BY <1>6, <3>1, <3>4, Zenon DEF Room
  <2> QED BY <1>9, <2>3, <2>4, <2>5 DEF EInv
<1> QED BY <1>7, <1>10, <1>11, Zenon

(* All results of the level are in the channel when it is collected. *)
LEMMA CollectStep == EInv /\ CollectLevel => EInv'
<1> SUFFICES ASSUME EInv, CollectLevel PROVE EInv'
  OBVIOUS
<1>1. /\ main = "level" /\ main' = main /\ lvl <= Len(levels) /\ lvl' = lvl + 1
      /\ \A n \in levels[lvl] : pc[n] \in Ended
      /\ todo' = (IF lvl < Len(levels) THEN levels[lvl + 1] ELSE {})
      /\ pc' = pc /\ res' = res /\ resultCh' = << >> /\ UNCHANGED graphVars
  BY Zenon DEF CollectLevel, LevelEnded, Ended, nodeVars
<1>2. /\ IInv /\ IInv' /\ IDs' = IDs /\ levels' = levels /\ phase' = phase /\ phase = "built"
      /\ lvl \in 1..(Len(levels) + 1)
  BY <1>1, GraphKept DEF EInv, Frame
<1>3. /\ Len(levels) \in Nat
      /\ \A j \in 1..Len(levels) : levels[j] \subseteq IDs
  BY <1>2, LevelType
<1>4. lvl \in 1..Len(levels) /\ Level = levels[lvl]
  BY <1>1, <1>2, <1>3 DEF Level
<1>5. Level' = todo' /\ todo' \subseteq IDs /\ Received' = {}
  BY <1>1, <1>2, <1>3, <1>4 DEF Level, Received
<1>6. Frame'
  <2>1. lvl' \in 1..(Len(levels') + 1)
    BY <1>1, <1>2, <1>3, <1>4
  <2> QED BY <1>1, <1>2, <2>1 DEF EInv, Frame
<1>7. \A n \in todo' : pc[n] = "idle"
  BY <1>1, <1>3, <1>4 DEF EInv, InLevels
<1>8. InLevels'
  <2>1. \A j \in 1..lvl : \A n \in levels[j] : pc[n] \in Ended
    BY <1>1, <1>3, <1>4 DEF EInv, InLevels
  <2>2. \A j \in (lvl + 2)..Len(levels) : \A n \in levels[j] : pc[n] = "idle"
    BY <1>1, <1>3, <1>4 DEF EInv, InLevels
  <2>3. lvl' - 1 = lvl /\ lvl' + 1 = lvl + 2
    BY <1>1, <1>4
  <2> QED BY <1>1, <1>2, <1>5, <1>7, <2>1, <2>2, <2>3 DEF InLevels
<1>9. Collected'
  <2>1. /\ Received = levels[lvl]
        /\ DOMAIN resultsByID = UNION {levels[j] : j \in 1..(lvl - 1)}
        /\ \A n \in DOMAIN resultsByID : resultsByID[n] = res[n]
    BY <1>1, <1>4, Zenon DEF EInv, Collected
  <2>2. /\ DOMAIN resultsByID' = DOMAIN resultsByID \cup Received
        /\ \A n \in DOMAIN resultsByID' : resultsByID'[n] = res[n]
    BY <2>1 DEF CollectLevel
  <2>3. DOMAIN resultsByID' = UNION {levels[j] : j \in 1..lvl}
    BY <1>3, <1>4, <2>1, <2>2
  <2>4. lvl' - 1 = lvl
    BY <1>1, <1>4
  <2>5. {n \in Level' : pc'[n] \in Ended} = {} /\ resultCh' \in Seq(IDs')
    BY <1>1, <1>5, <1>7 DEF Ended
  <2> QED BY <1>1, <1>2, <1>5, <2>2, <2>3, <2>4, <2>5 DEF Collected
<1>10. Room'
  <2>1. {n \in Level' : pc'[n] \in Active} = {}
    BY <1>1, <1>5, <1>7 DEF Active, Running
  <2>2. Cardinality(todo') \in Nat
    BY <1>2, <1>5, Finite
  <2>3. Len(resultCh') = 0 /\ Cardinality({}) = 0
    BY <1>1, FS_EmptySet
  <2>4. Len(resultCh') + Cardinality(todo') + Cardinality({}) = Cardinality(Level')
    BY <1>5, <2>2, <2>3
  <2> QED BY <2>1, <2>4 DEF Room
<1> QED BY <1>6, <1>8, <1>9, <1>10 DEF EInv

LEMMA EngineInvariance == Spec => []EInv
<1>1. EInv /\ [Next]_vars => EInv'
  BY Moves, BuildStep, EndStep, StartStep, CollectStep, QuietStep, DispatchStep,
     InternalStep, ReturnStep
<1> QED BY InitEInv, <1>1, PTL DEF Spec

-----------------------------------------------------------------------------
(* For every plan and pool size, no goroutine of a level ever waits to send  *)
(* its result.                                                               *)
THEOREM SendsNeverBlock == Spec => []SendNeverBlocks
<1>1. ASSUME EInv, main = "level", lvl <= Len(levels)
      PROVE  Len(resultCh) + Cardinality(todo)
                + Cardinality({n \in levels[lvl] : pc[n] \in Running \cup {"spawned"}})
               <= Capacity
  <2>1. Level = levels[lvl]
    BY <1>1 DEF Level
  <2>2. Len(resultCh) + Cardinality(todo)
           + Cardinality({n \in levels[lvl] : pc[n] \in Running \cup {"spawned"}})
          = Cardinality(levels[lvl])
    BY <1>1, <2>1 DEF EInv, Room, Active
  <2>3. levels[lvl] \in SUBSET IDs /\ IInv
    BY <1>1, LevelType DEF EInv, Frame
  <2>4. Cardinality(levels[lvl]) \in Nat
    BY <2>3, Finite
  <2> QED BY <2>2, <2>4 DEF Capacity
<1>2. EInv => SendNeverBlocks
  BY <1>1 DEF SendNeverBlocks
<1> QED BY <1>2, EngineInvariance, PTL

-----------------------------------------------------------------------------
(* The refinement mapping of Outcome. *)
OutcomeOf(n) == CASE pc[n] = "skipped" -> "skipped"
                  [] pc[n] \in Running \cup {"spawned"} -> "running"
                  [] pc[n] = "done" -> IF res[n] = NoErr THEN "ok" ELSE "failed"
                  [] OTHER -> "pending"

Outcomes == [n \in IDs |-> OutcomeOf(n)]

DepsOf == [n \in IDs |-> Deps(n)]

LEMMA OutcomeMoves ==
    ASSUME EInv, NEW n \in IDs, NEW o, OutcomeOf(n)' = o, IDs' = IDs,
           \A m \in IDs : m # n => pc'[m] = pc[m] /\ res'[m] = res[m]
    PROVE  Outcomes' = [Outcomes EXCEPT ![n] = o]
<1>1. \A m \in IDs : m # n => OutcomeOf(m)' = OutcomeOf(m)
  BY DEF OutcomeOf
<1> QED BY <1>1, Zenon DEF Outcomes

LEMMA OutcomeStays ==
    ASSUME IDs' = IDs, pc' = pc, res' = res
    PROVE  Outcomes' = Outcomes
  BY DEF Outcomes, OutcomeOf

(* A dispatched node's dependencies are in earlier levels: their results     *)
(* have been collected, and dependencyError reads their outcomes.            *)
LEMMA DepsDecided ==
    ASSUME EInv, NEW n \in IDs, Dispatch(n), NEW d \in Deps(n)
    PROVE  /\ d \in IDs /\ OutcomeOf(d) \in {"ok", "failed", "skipped"}
           /\ Failed(d) <=> OutcomeOf(d) # "ok"
<1>1. /\ main = "level" /\ n \in todo /\ IInv /\ phase = "built"
      /\ lvl \in 1..(Len(levels) + 1)
      /\ \A m \in IDs : pc[m] = "skipped" => res[m] # NoErr
  BY DEF Dispatch, EInv, Frame
<1>2. /\ Len(levels) \in Nat /\ DOMAIN levels = 1..Len(levels)
      /\ \A j \in 1..Len(levels) : levels[j] \subseteq IDs
  BY <1>1, LevelType
<1>3. lvl \in 1..Len(levels) /\ n \in levels[lvl]
  BY <1>1, <1>2 DEF EInv, InLevels, Level
<1>4. PICK j \in 1..(lvl - 1) : d \in levels[j]
  BY <1>1, <1>2, <1>3 DEF IInv, Ordered
<1>5. d \in IDs /\ pc[d] \in Ended
  BY <1>1, <1>2, <1>3, <1>4 DEF EInv, InLevels
<1>6. d \in DOMAIN resultsByID /\ resultsByID[d] = res[d]
  BY <1>1, <1>4 DEF EInv, Collected
<1>7. CASE pc[d] = "skipped"
  BY <1>1, <1>5, <1>6, <1>7 DEF OutcomeOf, Failed, Running
<1>8. CASE pc[d] = "done"
  BY <1>5, <1>6, <1>8 DEF OutcomeOf, Failed, Running
<1> QED BY <1>5, <1>7, <1>8 DEF Ended

(* Dispatch is Skip or Start, Return is Finish, and every other step leaves  *)
(* the outcomes alone.                                                       *)
LEMMA OutcomeNext ==
    ASSUME EInv, [Next]_vars
    PROVE  /\ IDs' = IDs /\ DepsOf' = DepsOf
           /\ \/ Outcomes' = Outcomes
              \/ \E n \in IDs :
                   \/ /\ Outcomes[n] = "pending"
                      /\ \A d \in DepsOf[n] : Outcomes[d] \in {"ok", "failed", "skipped"}
                      /\ \E d \in DepsOf[n] : Outcomes[d] # "ok"
                      /\ Outcomes' = [Outcomes EXCEPT ![n] = "skipped"]
                   \/ /\ Outcomes[n] = "pending"
                      /\ \A d \in DepsOf[n] : Outcomes[d] = "ok"
                      /\ Outcomes' = [Outcomes EXCEPT ![n] = "running"]
                   \/ /\ Outcomes[n] = "running"
                      /\ \E o \in {"ok", "failed"} : Outcomes' = [Outcomes EXCEPT ![n] = o]
<1> DEFINE Same == IDs' = IDs /\ DepsOf' = DepsOf
<1>1. ASSUME plan' = plan PROVE Same
  BY <1>1, PlanUnchanged DEF DepsOf
<1>2. CASE BuildGraph
  <2>1. plan' = plan /\ pc' = pc /\ res' = res
    BY <1>2 DEF BuildGraph, GraphNext, CheckPlan, NextLevel, GraphDone, nodeVars
  <2> QED BY <1>1, <2>1, OutcomeStays
<1>3. CASE RejectPlan \/ StartPlan \/ CollectLevel \/ FinishPlan \/ Quiet
  <2>1. plan' = plan /\ pc' = pc /\ res' = res
    BY <1>3, Zenon DEF RejectPlan, StartPlan, CollectLevel, FinishPlan, Quiet, nodeVars, graphVars
  <2> QED BY <1>1, <2>1, OutcomeStays
<1>4. ASSUME NEW n \in IDs, Internal(n) PROVE Same /\ Outcomes' = Outcomes
  <2>1. plan' = plan
    BY <1>4 DEF Internal, graphVars
  <2>2. Same
    BY <1>1, <2>1
  <2>3. /\ pc[n] \in Active /\ pc'[n] \in Running
        /\ \A m \in IDs : m # n => pc'[m] = pc[m] /\ res'[m] = res[m]
    BY <1>4 DEF Internal, EInv, Frame
  <2>4. OutcomeOf(n) = "running" /\ OutcomeOf(n)' = "running"
    BY <2>3 DEF OutcomeOf, Active, Running
  <2>5. \A m \in IDs : OutcomeOf(m)' = OutcomeOf(m)
    BY <2>3, <2>4 DEF OutcomeOf
  <2> QED BY <2>2, <2>5 DEF Outcomes
<1>5. ASSUME NEW n \in IDs, Return(n)
      PROVE  /\ Same /\ Outcomes[n] = "running"
             /\ \E o \in {"ok", "failed"} : Outcomes' = [Outcomes EXCEPT ![n] = o]
  <2>1. plan' = plan /\ res' = res
    BY <1>5 DEF Return, graphVars
  <2>2. Same
    BY <1>1, <2>1
  <2>3. pc[n] = "return" /\ pc'[n] = "done" /\ \A m \in IDs : m # n => pc'[m] = pc[m]
    BY <1>5 DEF Return, EInv, Frame
  <2>4. Outcomes[n] = "running"
    BY <2>3 DEF Outcomes, OutcomeOf, Running
  <2>5. OutcomeOf(n)' \in {"ok", "failed"}
    BY <2>3 DEF OutcomeOf, Running
  <2>6. Outcomes' = [Outcomes EXCEPT ![n] = OutcomeOf(n)']
    BY <2>1, <2>2, <2>3, OutcomeMoves
  <2> QED BY <2>2, <2>4, <2>5, <2>6, Zenon
<1>6. ASSUME NEW n \in IDs, Dispatch(n)
      PROVE  /\ Same /\ Outcomes[n] = "pending"
             /\ \A d \in DepsOf[n] : Outcomes[d] \in {"ok", "failed", "skipped"}
             /\ \/ /\ \E d \in DepsOf[n] : Outcomes[d] # "ok"
                   /\ Outcomes' = [Outcomes EXCEPT ![n] = "skipped"]
                \/ /\ \A d \in DepsOf[n] : Outcomes[d] = "ok"
                   /\ Outcomes' = [Outcomes EXCEPT ![n] = "running"]
  <2>1. plan' = plan
    BY <1>6 DEF Dispatch, graphVars
  <2>2. Same
    BY <1>1, <2>1
  <2>3. pc[n] = "idle"
    BY <1>6 DEF Dispatch, EInv, InLevels
  <2>4. Outcomes[n] = "pending" /\ DepsOf[n] = Deps(n)
    BY <2>3 DEF Outcomes, OutcomeOf, Running, DepsOf
  <2>5. \A d \in Deps(n) : /\ Outcomes[d] \in {"ok", "failed", "skipped"}
                           /\ Failed(d) <=> Outcomes[d] # "ok"
    BY <1>6, DepsDecided DEF Outcomes
  <2>6. \A m \in IDs : m # n => pc'[m] = pc[m] /\ res'[m] = res[m]
    BY <1>6 DEF Dispatch, EInv, Frame
  <2>7. CASE dependencyError(n)
    <3>1. pc'[n] = "skipped"
      BY <1>6, <2>7 DEF Dispatch, EInv, Frame
    <3>2. OutcomeOf(n)' = "skipped"
      BY <3>1 DEF OutcomeOf, Running
    <3>3. Outcomes' = [Outcomes EXCEPT ![n] = "skipped"]
      BY <2>2, <2>6, <3>2, OutcomeMoves
    <3> QED BY <2>2, <2>4, <2>5, <2>7, <3>3 DEF dependencyError
  <2>8. CASE ~dependencyError(n)
    <3>1. pc'[n] = "spawned"
      BY <1>6, <2>8 DEF Dispatch, EInv, Frame
    <3>2. OutcomeOf(n)' = "running"
      BY <3>1 DEF OutcomeOf, Running
    <3>3. Outcomes' = [Outcomes EXCEPT ![n] = "running"]
      BY <2>2, <2>6, <3>2, OutcomeMoves
    <3> QED BY <2>2, <2>4, <2>5, <2>8, <3>3 DEF dependencyError
  <2> QED BY <2>7, <2>8
<1> HIDE DEF Same
<1>7. CASE \E n \in IDs : Dispatch(n) \/ Internal(n) \/ Return(n)
  BY <1>4, <1>5, <1>6, <1>7 DEF Same
<1> QED BY Moves, <1>2, <1>3, <1>7, Zenon

(* For every plan, whatever agents return: RunPlan starts an invocation only *)
(* when all its dependencies have succeeded, skips it exactly when one did   *)
(* not, and decides it once.                                                 *)
THEOREM OutcomeImplemented == Spec => ImplementsOutcome
<1>1. Init => Outcome!Init
  <2> SUFFICES ASSUME Init PROVE Outcome!Init
    OBVIOUS
  <2>1. \A n \in IDs : pc[n] = "idle"
    BY Zenon DEF Init
  <2> QED BY <2>1 DEF Outcome!Init, Running
<1>2. EInv /\ [Next]_vars => [Outcome!Next]_(Outcome!vars)
  <2> SUFFICES ASSUME EInv, [Next]_vars PROVE [Outcome!Next]_(Outcome!vars)
    OBVIOUS
  <2> QED BY OutcomeNext, Zenon
     DEF Outcome!Next, Outcome!vars, Outcome!Skip, Outcome!Start, Outcome!Finish,
         Outcome!Decided, Outcomes, OutcomeOf, DepsOf
<1> QED BY <1>1, <1>2, EngineInvariance, PTL DEF Spec, ImplementsOutcome, Outcome!Spec

-----------------------------------------------------------------------------
(* What a plan's nodes and their agents are. *)
LEMMA NodeFacts ==
    ASSUME plan \in Plans, NEW n \in IDs
    PROVE  /\ AgentOf(n) \in Agents
           /\ MaxAttempts(n) \in Nat \ {0}
           /\ Threshold(n) \in Nat
           /\ KindOf[AgentOf(n)] \in AgentKinds
<1>1. PICK i \in DOMAIN plan : plan[i].id = n /\ NodeOf(n) = plan[i]
  BY Zenon DEF IDs, NodeOf
<1>2. plan[i].maxAttempts \in Int /\ plan[i].threshold \in Int /\ KindOf[plan[i].agent] \in AgentKinds
  BY <1>1, NodesAssumption
<1> QED BY <1>1, <1>2, EngineAssumption DEF AgentOf, Agents, MaxAttempts, Threshold

(* No step changes the plan, nor what it says of a node. *)
LEMMA PlanKept ==
    ASSUME [Next]_vars
    PROVE  /\ plan' = plan /\ IDs' = IDs /\ Agents' = Agents
           /\ \A n : /\ AgentOf(n)' = AgentOf(n) /\ MaxAttempts(n)' = MaxAttempts(n)
                     /\ Threshold(n)' = Threshold(n)
<1>1. plan' = plan
  BY Moves, Zenon DEF BuildGraph, GraphNext, CheckPlan, NextLevel, GraphDone, RejectPlan, StartPlan,
     CollectLevel, FinishPlan, Quiet, Dispatch, Internal, Return, graphVars
<1>2. IDs' = IDs /\ Agents' = Agents
  BY <1>1, PlanUnchanged, Zenon DEF Agents
<1>3. \A n : NodeOf(n)' = NodeOf(n)
  BY <1>1, Zenon DEF NodeOf
<1> QED BY <1>1, <1>2, <1>3, Zenon DEF AgentOf, MaxAttempts, Threshold

-----------------------------------------------------------------------------
(* What an attempt may end with: not an error the engine makes for a call    *)
(* it does not place.                                                        *)
OwnErrors == Errors \ {DepFailed, CircuitOpen, Unregistered}

(* The errors of the engine differ where the code tells them apart. *)
LEMMA EngineErrors ==
    /\ {NoErr, Panic, CtxErr, Timeout} \subseteq OwnErrors
    /\ {DepFailed, CircuitOpen, Unregistered} \subseteq Errors
    /\ \A c \in {"forced", "transient", "deadline"} : PlainErr(c) \in OwnErrors /\ PlainErr(c) # NoErr
    /\ NoErr \notin {Panic, DepFailed, CtxErr, Timeout, CircuitOpen, Unregistered}
    /\ CircuitOpen # Unregistered /\ DepFailed \notin {CircuitOpen, Unregistered}
<1> USE DEF NoErr, Panic, DepFailed, CtxErr, Timeout, CircuitOpen, Unregistered,
            PlainErr, NonRetryable, Error
<1>1. /\ NoErr \in Errors /\ Panic \in Errors /\ DepFailed \in Errors /\ CtxErr \in Errors
      /\ Timeout \in Errors /\ CircuitOpen \in Errors /\ Unregistered \in Errors
  BY DEF Errors, Causes
<1>2. \A c \in {"forced", "transient", "deadline"} : PlainErr(c) \in Errors
  BY DEF Errors, Causes
<1>3. \A c \in {"forced", "transient", "deadline"} :
          /\ PlainErr(c) # NoErr /\ PlainErr(c) # CircuitOpen
          /\ PlainErr(c) # Unregistered /\ PlainErr(c) # DepFailed
  OBVIOUS
<1>4. /\ NoErr \notin {Panic, DepFailed, CtxErr, Timeout, CircuitOpen, Unregistered}
      /\ CircuitOpen \notin {Panic, DepFailed, CtxErr, Timeout, Unregistered}
      /\ Unregistered \notin {Panic, DepFailed, CtxErr, Timeout}
      /\ DepFailed \notin {Panic, CtxErr, Timeout}
  OBVIOUS
<1> HIDE DEF NoErr, Panic, DepFailed, CtxErr, Timeout, CircuitOpen, Unregistered, PlainErr
<1> QED BY <1>1, <1>2, <1>3, <1>4 DEF OwnErrors

(* A failed call ends with an error of its own, also when it is normalised. *)
LEMMA CallErrors ==
    ASSUME plan \in Plans, NEW n \in IDs, NEW raw \in MayReturn(n), raw # NoErr
    PROVE  normalizeInvocationError(raw) \in OwnErrors \ {NoErr}
<1>1. KindOf[AgentOf(n)] \in AgentKinds
  BY NodeFacts
<1>2. raw \in AgentErrors \cup {Panic, CtxErr, PlainErr("forced"), PlainErr("transient"), PlainErr("deadline")}
  BY <1>1 DEF MayReturn, AgentKinds
<1>3. raw \in OwnErrors
  BY <1>2, EngineErrors, AgentErrorsAssumption DEF OwnErrors
<1> QED BY <1>3, EngineErrors DEF normalizeInvocationError

-----------------------------------------------------------------------------
(* What an observation does to the counters. *)
Counters == [successes : Nat, errors : Nat, retries : Nat, opens : Nat]

(* InMemoryRecorder. *)
Metrics == [total : Nat, errors : Nat, retries : Nat, opens : Nat, byAgent : [Agents -> Counters]]

(* ObserveInvocation, field by field. *)
LEMMA InvocationObserved ==
    ASSUME NEW m \in Metrics, NEW a \in Agents, NEW status, NEW f,
           f = IF status = "success" THEN 0 ELSE 1
    PROVE  LET o == ObserveInvocation(m, a, status)
           IN  /\ o \in Metrics
               /\ o.total = m.total + 1 /\ o.errors = m.errors + f
               /\ o.retries = m.retries /\ o.opens = m.opens
               /\ o.byAgent[a].successes = m.byAgent[a].successes + 1 - f
               /\ o.byAgent[a].errors = m.byAgent[a].errors + f
               /\ o.byAgent[a].retries = m.byAgent[a].retries
               /\ o.byAgent[a].opens = m.byAgent[a].opens
               /\ \A b \in Agents \ {a} : o.byAgent[b] = m.byAgent[b]
<1> DEFINE o == ObserveInvocation(m, a, status)
           c == m.byAgent[a]
           d == [successes |-> c.successes + 1 - f, errors |-> c.errors + f,
                 retries |-> c.retries, opens |-> c.opens]
<1>1. /\ m.byAgent \in [Agents -> Counters] /\ c \in Counters
      /\ m.total \in Nat /\ m.errors \in Nat
  BY DEF Metrics
<1>2. d \in Counters
  BY <1>1 DEF Counters
<1>3. o.byAgent = [m.byAgent EXCEPT ![a] = d]
  BY <1>1 DEF ObserveInvocation, Metrics, Counters
<1>4. /\ o.total = m.total + 1 /\ o.errors = m.errors + f
      /\ o.retries = m.retries /\ o.opens = m.opens
  BY <1>1 DEF ObserveInvocation, Metrics
<1>5. o \in Metrics
  <2>1. o.byAgent \in [Agents -> Counters] /\ m.total + 1 \in Nat /\ m.errors + f \in Nat
    BY <1>1, <1>2, <1>3
  <2>2. ASSUME NEW x \in Nat, NEW y \in Nat, NEW z \in [Agents -> Counters]
        PROVE  [m EXCEPT !.total = x, !.errors = y, !.byAgent = z] \in Metrics
    BY Zenon DEF Metrics
  <2>3. o = [m EXCEPT !.total = m.total + 1, !.errors = m.errors + f, !.byAgent = o.byAgent]
    BY <1>1, <1>4, Zenon DEF ObserveInvocation, Metrics
  <2> DEFINE x == m.total + 1  y == m.errors + f  z == o.byAgent
  <2>4. x \in Nat /\ y \in Nat /\ z \in [Agents -> Counters]
    BY <2>1
  <2>5. o = [m EXCEPT !.total = x, !.errors = y, !.byAgent = z]
    BY <2>3
  <2> HIDE DEF o, x, y, z
  <2>6. [m EXCEPT !.total = x, !.errors = y, !.byAgent = z] \in Metrics
    BY <2>2, <2>4, Zenon
  <2> QED BY <2>5, <2>6
<1>6. /\ d.successes = c.successes + 1 - f /\ d.errors = c.errors + f
      /\ d.retries = c.retries /\ d.opens = c.opens
  OBVIOUS
<1> HIDE DEF d, o
<1> QED BY <1>1, <1>3, <1>4, <1>5, <1>6, Zenon DEF o

(* ObserveRetry, field by field. *)
LEMMA RetryObserved ==
    ASSUME NEW m \in Metrics, NEW a \in Agents
    PROVE  LET o == ObserveRetry(m, a)
           IN  /\ o \in Metrics
               /\ o.total = m.total /\ o.errors = m.errors
               /\ o.retries = m.retries + 1 /\ o.opens = m.opens
               /\ o.byAgent[a].successes = m.byAgent[a].successes
               /\ o.byAgent[a].errors = m.byAgent[a].errors
               /\ o.byAgent[a].retries = m.byAgent[a].retries + 1
               /\ o.byAgent[a].opens = m.byAgent[a].opens
               /\ \A b \in Agents \ {a} : o.byAgent[b] = m.byAgent[b]
<1> DEFINE o == ObserveRetry(m, a)
           c == m.byAgent[a]
           d == [c EXCEPT !.retries = @ + 1]
<1>1. /\ m.byAgent \in [Agents -> Counters] /\ c \in Counters /\ m.retries + 1 \in Nat
  BY DEF Metrics
<1>2. d \in Counters
  BY <1>1 DEF Counters
<1>3. o.byAgent = [m.byAgent EXCEPT ![a] = d]
  BY <1>1 DEF ObserveRetry, Metrics, Counters
<1>4. /\ o.total = m.total /\ o.errors = m.errors
      /\ o.retries = m.retries + 1 /\ o.opens = m.opens
  BY <1>1 DEF ObserveRetry, Metrics
<1>5. o \in Metrics
  <2>1. o.byAgent \in [Agents -> Counters]
    BY <1>1, <1>2, <1>3
  <2>2. ASSUME NEW x \in Nat, NEW z \in [Agents -> Counters]
        PROVE  [m EXCEPT !.retries = x, !.byAgent = z] \in Metrics
    BY Zenon DEF Metrics
  <2>3. o = [m EXCEPT !.retries = m.retries + 1, !.byAgent = o.byAgent]
    BY <1>1, <1>4 DEF ObserveRetry, Metrics
  <2> HIDE DEF o
  <2> QED BY <1>1, <2>1, <2>2, <2>3, Zenon
<1>6. /\ d.successes = c.successes /\ d.errors = c.errors
      /\ d.retries = c.retries + 1 /\ d.opens = c.opens
  BY <1>1 DEF Counters
<1> HIDE DEF d, o
<1> QED BY <1>1, <1>3, <1>4, <1>5, <1>6 DEF o

(* ObserveCircuitOpen, field by field. *)
LEMMA CircuitOpenObserved ==
    ASSUME NEW m \in Metrics, NEW a \in Agents
    PROVE  LET o == ObserveCircuitOpen(m, a)
           IN  /\ o \in Metrics
               /\ o.total = m.total /\ o.errors = m.errors
               /\ o.retries = m.retries /\ o.opens = m.opens + 1
               /\ o.byAgent[a].successes = m.byAgent[a].successes
               /\ o.byAgent[a].errors = m.byAgent[a].errors
               /\ o.byAgent[a].retries = m.byAgent[a].retries
               /\ o.byAgent[a].opens = m.byAgent[a].opens + 1
               /\ \A b \in Agents \ {a} : o.byAgent[b] = m.byAgent[b]
<1> DEFINE o == ObserveCircuitOpen(m, a)
           c == m.byAgent[a]
           d == [c EXCEPT !.opens = @ + 1]
<1>1. /\ m.byAgent \in [Agents -> Counters] /\ c \in Counters /\ m.opens + 1 \in Nat
  BY DEF Metrics
<1>2. d \in Counters
  BY <1>1 DEF Counters
<1>3. o.byAgent = [m.byAgent EXCEPT ![a] = d]
  BY <1>1 DEF ObserveCircuitOpen, Metrics, Counters
<1>4. /\ o.total = m.total /\ o.errors = m.errors
      /\ o.retries = m.retries /\ o.opens = m.opens + 1
  BY <1>1 DEF ObserveCircuitOpen, Metrics
<1>5. o \in Metrics
  <2>1. o.byAgent \in [Agents -> Counters]
    BY <1>1, <1>2, <1>3
  <2>2. ASSUME NEW x \in Nat, NEW z \in [Agents -> Counters]
        PROVE  [m EXCEPT !.opens = x, !.byAgent = z] \in Metrics
    BY Zenon DEF Metrics
  <2>3. o = [m EXCEPT !.opens = m.opens + 1, !.byAgent = o.byAgent]
    BY <1>1, <1>4 DEF ObserveCircuitOpen, Metrics
  <2> HIDE DEF o
  <2> QED BY <1>1, <2>1, <2>2, <2>3, Zenon
<1>6. /\ d.successes = c.successes /\ d.errors = c.errors
      /\ d.retries = c.retries /\ d.opens = c.opens + 1
  BY <1>1 DEF Counters
<1> HIDE DEF d, o
<1> QED BY <1>1, <1>3, <1>4, <1>5, <1>6, Zenon DEF o

(* What the breaker does to an entry. *)
LEMMA AllowEntry ==
    ASSUME NEW s \in CircuitState, NEW t \in Nat, NEW now \in Nat
    PROVE  /\ AfterAllow(s, t, now) \in CircuitState
           /\ HalfOpen(AfterAllow(s, t, now)) => HalfOpen(s) \/ t > 0
  BY Zenon DEF AfterAllow, IsProbe, ZeroCircuit, HalfOpen, CircuitState

(* A success closes the circuit, and *)
LEMMA SuccessEntry ==
    ASSUME NEW s
    PROVE  AfterSuccess(s) \in CircuitState /\ ~HalfOpen(AfterSuccess(s))
  BY DEF AfterSuccess, ZeroCircuit, HalfOpen, CircuitState

(* a failure ends its probe. *)
LEMMA FailureEntry ==
    ASSUME NEW s \in CircuitState, NEW t \in Nat, NEW now \in Nat
    PROVE  /\ AfterFailure(s, t, ResetTimeout, now) \in CircuitState
           /\ t > 0 => ~HalfOpen(AfterFailure(s, t, ResetTimeout, now))
           /\ t = 0 => AfterFailure(s, t, ResetTimeout, now) = s
<1>1. now + Normalized(ResetTimeout) \in Nat
  BY EngineAssumption DEF Normalized
<1>2. /\ Opened(now, ResetTimeout) \in CircuitState
      /\ ~HalfOpen(Opened(now, ResetTimeout))
  BY <1>1, Zenon DEF Opened, ZeroCircuit, CircuitState, HalfOpen
<1>3. /\ [s EXCEPT !.consecutiveFailures = @ + 1] \in CircuitState
      /\ ~HalfOpen(s) => ~HalfOpen([s EXCEPT !.consecutiveFailures = @ + 1])
  BY DEF CircuitState, HalfOpen
<1> QED BY <1>2, <1>3 DEF AfterFailure

-----------------------------------------------------------------------------
(* The steps of a recorder, with the InvocationID of a rejected plan. *)
StepRecords == [inv : Int, attempt : Nat, err : Errors]

(* Which values the variables take. *)
Values ==
    /\ lvl \in 0..(Len(levels) + 1)
    /\ main = "build" => lvl = 0 /\ steps = << >>
    /\ todo \subseteq IDs
    /\ attempt \in [IDs -> Nat]
    /\ res \in [IDs -> Errors]
    /\ resultCh \in Seq(IDs)
    /\ DOMAIN resultsByID \subseteq IDs
    /\ steps \in Seq(StepRecords)
    /\ states \in [Agents -> CircuitState]
    /\ metrics \in Metrics
    /\ Registered \subseteq registry
    /\ clock \in 0..MaxClock

(* They start with such values. *)
LEMMA InitValues == Init => Values
<1> SUFFICES ASSUME Init PROVE Values
  OBVIOUS
<1>1. /\ plan \in Plans /\ levels = << >>
  BY Zenon DEF Init, GraphInit
<1>2. NoErr \in Errors
  BY EngineErrors DEF OwnErrors
<1>3. states \in [Agents -> CircuitState]
  <2>1. \A a \in Agents : \A s \in PriorCircuits[a] : s \in CircuitState
    BY <1>1, PriorAssumption DEF Agents
  <2> QED BY <2>1, Zenon DEF Init
<1>4. metrics \in Metrics
  <2> DEFINE c == [a \in Agents |-> [successes |-> 0, errors |-> 0, retries |-> 0, opens |-> 0]]
  <2>1. c \in [Agents -> Counters]
    BY DEF Counters
  <2>2. metrics = [total |-> 0, errors |-> 0, retries |-> 0, opens |-> 0, byAgent |-> c]
    BY Zenon DEF Init
  <2> HIDE DEF c
  <2> QED BY <2>1, <2>2 DEF Metrics
<1>5. MaxClock \in Nat
  BY EngineAssumption
<1>6. lvl \in 0..(Len(levels) + 1) /\ resultCh \in Seq(IDs) /\ steps \in Seq(StepRecords)
  <2>1. lvl = 0 /\ resultCh = << >> /\ steps = << >>
    BY Zenon DEF Init
  <2> QED BY <1>1, <2>1
<1>7. /\ attempt \in [IDs -> Nat] /\ res \in [IDs -> Errors]
      /\ todo \subseteq IDs /\ DOMAIN resultsByID \subseteq IDs
  <2>1. /\ attempt = [n \in IDs |-> 0] /\ res = [n \in IDs |-> NoErr]
        /\ todo = {} /\ resultsByID = << >>
    BY Zenon DEF Init
  <2> QED BY <1>2, <2>1
<1>8. clock \in 0..MaxClock
  <2>1. clock = 0
    BY Zenon DEF Init
  <2> QED BY <1>5, <2>1
<1>9. (main = "build" => lvl = 0 /\ steps = << >>) /\ Registered \subseteq registry
  BY Zenon DEF Init
<1> QED BY <1>3, <1>4, <1>6, <1>7, <1>8, <1>9, Zenon DEF Values

(* A recorded step. *)
LEMMA StepRecorded ==
    ASSUME steps \in Seq(StepRecords), NEW n \in Int, NEW k \in Nat, NEW e \in Errors
    PROVE  AddStep(n, k, e) \in Seq(StepRecords)
<1>1. Step(n, k, e) \in StepRecords
  BY DEF Step, StepRecords
<1> QED BY <1>1 DEF AddStep

(* The metrics of the three ways an attempt ends. *)
LEMMA MetricsKept ==
    ASSUME metrics \in Metrics, NEW a \in Agents
    PROVE  /\ \A s \in {"success", "error", "circuit_open"} : ObserveInvocation(metrics, a, s) \in Metrics
           /\ ObserveCircuitOpen(ObserveInvocation(metrics, a, "circuit_open"), a) \in Metrics
           /\ ObserveRetry(ObserveInvocation(metrics, a, "error"), a) \in Metrics
<1>1. ASSUME NEW s PROVE ObserveInvocation(metrics, a, s) \in Metrics
  <2> DEFINE f == IF s = "success" THEN 0 ELSE 1
  <2> HIDE DEF f
  <2>1. f = IF s = "success" THEN 0 ELSE 1
    BY DEF f
  <2> QED BY <2>1, InvocationObserved
<1> QED BY <1>1, RetryObserved, CircuitOpenObserved, Zenon

(* IDs are numbers, and so are ordered. *)
LEMMA IDsInt == ASSUME IInv PROVE IDs \subseteq Int
<1>1. \A i \in DOMAIN plan : plan[i].id \in Nat
  BY PlansAssumption, Zenon DEF IInv, Phases
<1> QED BY <1>1 DEF IDs

(* A step of a node keeps them, *)
LEMMA NodeValues ==
    ASSUME EInv, Values, NEW n \in IDs, Node(n), IDs' = IDs, Agents' = Agents
    PROVE  Values'
<1>1. /\ IInv /\ plan \in Plans /\ n \in Int
      /\ AgentOf(n) \in Agents /\ Threshold(n) \in Nat
  BY NodeFacts, IDsInt DEF EInv, Frame, IInv, Phases
<1>2. /\ {NoErr, CtxErr, CircuitOpen, Unregistered} \subseteq Errors
      /\ \A raw \in MayReturn(n) \ {NoErr} : normalizeInvocationError(raw) \in Errors
  BY <1>1, EngineErrors, CallErrors, Zenon DEF OwnErrors
<1>3. /\ pc[n] \in Active => main # "build"
      /\ states[AgentOf(n)] \in CircuitState /\ clock \in Nat /\ attempt[n] \in Nat
  <2>1. pc[n] \in Active => main # "build"
    BY DEF EInv, Frame, Active, Running
  <2>2. /\ states \in [Agents -> CircuitState] /\ clock \in 0..MaxClock
        /\ attempt \in [IDs -> Nat]
    BY Zenon DEF Values
  <2>3. MaxClock \in Nat
    BY EngineAssumption
  <2> QED BY <1>1, <2>1, <2>2, <2>3
<1>4. \A e \in Errors : /\ AddStep(n, attempt[n], e) \in Seq(StepRecords)
                        /\ AddStep(n, 1, e) \in Seq(StepRecords)
  BY <1>1, <1>3, StepRecorded DEF Values
<1>5. /\ \A s \in {"success", "error", "circuit_open"} :
            ObserveInvocation(metrics, AgentOf(n), s) \in Metrics
      /\ ObserveCircuitOpen(ObserveInvocation(metrics, AgentOf(n), "circuit_open"), AgentOf(n)) \in Metrics
      /\ ObserveRetry(ObserveInvocation(metrics, AgentOf(n), "error"), AgentOf(n)) \in Metrics
  BY <1>1, MetricsKept, Zenon DEF Values
<1>6. Metrics' = Metrics
  BY DEF Metrics
<1>7. CASE StartNode(n)
  BY <1>2, <1>3, <1>4, <1>5, <1>6, <1>7, Zenon DEF StartNode, Values, graphVars, envVars, Active
<1>8. CASE Allow(n)
  <2>1. AfterAllow(states[AgentOf(n)], Threshold(n), clock) \in CircuitState
    BY <1>1, <1>3, AllowEntry, Zenon
  <2> QED BY <1>1, <1>2, <1>3, <1>4, <1>5, <1>6, <1>8, <2>1, Zenon
      DEF Allow, Values, graphVars, envVars, Active, Running
<1>9. CASE CallSucceeds(n)
  <2>1. AfterSuccess(states[AgentOf(n)]) \in CircuitState
    BY SuccessEntry
  <2> QED BY <1>1, <1>2, <1>3, <1>4, <1>5, <1>6, <1>9, <2>1, Zenon
      DEF CallSucceeds, Values, graphVars, envVars, Active, Running
<1>10. ASSUME NEW raw \in MayReturn(n) \ {NoErr}, CallFails(n, raw) PROVE Values'
  <2>1. AfterFailure(states[AgentOf(n)], Threshold(n), ResetTimeout, clock) \in CircuitState
    BY <1>1, <1>3, FailureEntry
  <2> DEFINE e == normalizeInvocationError(raw)
  <2>2. e \in Errors /\ \E x \in Errors : res' = [res EXCEPT ![n] = x]
    BY <1>2, <1>10 DEF CallFails
  <2>3. steps' \in Seq(StepRecords)
    BY <1>4, <1>10, <2>2 DEF CallFails
  <2>4. metrics' \in Metrics
    BY <1>5, <1>10 DEF CallFails
  <2> QED BY <1>1, <1>3, <1>6, <1>10, <2>1, <2>2, <2>3, <2>4, Zenon
      DEF CallFails, Values, graphVars, envVars, Active, Running
<1>11. CASE BackoffElapsed(n)
  BY <1>3, <1>6, <1>11 DEF BackoffElapsed, Values, graphVars, outVars, envVars, Active, Running
<1>12. CASE BackoffCancelled(n)
  BY <1>2, <1>3, <1>6, <1>12 DEF BackoffCancelled, Values, graphVars, outVars, envVars, Active, Running
<1>13. CASE Return(n)
  BY <1>3, <1>6, <1>13 DEF Return, Values, graphVars, outVars, envVars, Active, Running
<1> QED BY <1>7, <1>8, <1>9, <1>10, <1>11, <1>12, <1>13 DEF Node

(* and so does every step. *)
LEMMA ValuesStep ==
    ASSUME EInv, Values, [Next]_vars
    PROVE  Values'
<1>1. /\ IDs' = IDs /\ Agents' = Agents /\ Metrics' = Metrics /\ IInv /\ IDs \subseteq Int
      /\ levels \in Seq(SUBSET IDs)
  BY PlanKept, IDsInt, Zenon DEF Metrics, EInv, Frame, IInv, Counted
<1> USE DEF graphVars, nodeVars, outVars, envVars
<1>2. CASE BuildGraph
  <2>1. lvl' = 0
    BY <1>2 DEF BuildGraph, Values
  <2>2. IInv'
    BY <1>2, BuildStep DEF EInv, Frame
  <2>3. Len(levels') \in Nat
    BY <2>2 DEF IInv, Counted
  <2> QED BY <1>1, <1>2, <2>1, <2>3 DEF BuildGraph, Values
<1>3. CASE RejectPlan
  <2>1. PlanValidation \in Int /\ PlainErr(err) \in Errors
    <3>1. err \in ErrorKinds
      BY <1>1, <1>3 DEF RejectPlan, IInv, Phases
    <3> QED BY <3>1 DEF PlanValidation, PlainErr, Error, Errors, Causes
  <2>2. steps' \in Seq(StepRecords)
    BY <1>3, <2>1, StepRecorded DEF RejectPlan, Values
  <2> QED BY <1>1, <1>3, <2>2 DEF RejectPlan, Values
<1>4. CASE StartPlan
  <2>1. Len(levels) \in Nat /\ Len(levels) > 0 /\ levels[1] \subseteq IDs
    <3>1. IInv /\ phase = "built"
      BY <1>1, <1>4 DEF StartPlan
    <3>2. /\ Len(levels) \in Nat /\ Len(levels) > 0
          /\ \A j \in 1..Len(levels) : levels[j] \subseteq IDs
      BY <3>1, LevelType
    <3> QED BY <3>2
  <2>2. /\ main' = "level" /\ lvl' = 1 /\ todo' = levels[1] /\ UNCHANGED levels
        /\ UNCHANGED <<attempt, res, resultCh, resultsByID, steps, states, metrics, registry, clock>>
    BY <1>4 DEF StartPlan
  <2>3. lvl' \in 0..(Len(levels') + 1)
    BY <2>1, <2>2
  <2> QED BY <1>1, <2>1, <2>2, <2>3, Zenon DEF Values
<1>5. CASE CollectLevel
  <2>1. /\ Len(levels) \in Nat
        /\ \A j \in 1..Len(levels) : levels[j] \subseteq IDs
    <3>1. IInv /\ phase = "built"
      BY <1>1, <1>5 DEF CollectLevel, LevelEnded, EInv, Frame
    <3> QED BY <3>1, LevelType
  <2>2. /\ lvl <= Len(levels) /\ lvl \in 1..(Len(levels) + 1) /\ main = "level"
        /\ lvl' = lvl + 1 /\ todo' = (IF lvl < Len(levels) THEN levels[lvl + 1] ELSE {})
    <3>1. /\ lvl <= Len(levels) /\ main = "level" /\ lvl' = lvl + 1
          /\ todo' = (IF lvl < Len(levels) THEN levels[lvl + 1] ELSE {})
      BY <1>5, Zenon DEF CollectLevel, LevelEnded
    <3> QED BY <3>1, Zenon DEF EInv, Frame
  <2>3. lvl' \in 0..(Len(levels) + 1) /\ todo' \subseteq IDs
    <3>1. lvl \in Nat /\ lvl + 1 \in 0..(Len(levels) + 1)
      BY <2>1, <2>2
    <3>2. CASE lvl < Len(levels)
      <4>1. lvl + 1 \in 1..Len(levels)
        BY <2>1, <3>1, <3>2
      <4>2. levels[lvl + 1] \subseteq IDs
        BY <2>1, <4>1, Zenon
      <4> QED BY <2>2, <3>1, <3>2, <4>2, Zenon
    <3>3. CASE ~(lvl < Len(levels))
      BY <2>2, <3>1, <3>3, Zenon
    <3> QED BY <3>2, <3>3, Zenon
  <2>4. Received \subseteq IDs /\ DOMAIN resultsByID' \subseteq IDs
    <3>1. resultCh \in Seq(IDs) /\ DOMAIN resultsByID \subseteq IDs
      BY Zenon DEF Values
    <3>2. Received \subseteq IDs
      BY <3>1 DEF Received
    <3>3. DOMAIN resultsByID' = DOMAIN resultsByID \cup Received
      BY <1>5, Zenon DEF CollectLevel
    <3> QED BY <3>1, <3>2, <3>3, Zenon
  <2>5. /\ resultCh' = << >> /\ main' = main /\ UNCHANGED levels
        /\ UNCHANGED <<attempt, res, steps, states, metrics, registry, clock>>
    BY <1>5, Zenon DEF CollectLevel
  <2>6. resultCh' \in Seq(IDs) /\ main' # "build"
    BY <2>2, <2>5
  <2> QED BY <1>1, <2>3, <2>4, <2>5, <2>6, Zenon DEF Values
<1>6. CASE FinishPlan
  BY <1>1, <1>6, Zenon DEF FinishPlan, Values
<1>7. ASSUME NEW n \in IDs, Dispatch(n) PROVE Values'
  <2>1. DepFailed \in Errors /\ n \in Int /\ main # "build"
    BY <1>1, <1>7, EngineErrors DEF Dispatch
  <2>2. AddStep(n, 0, DepFailed) \in Seq(StepRecords)
    BY <2>1, StepRecorded DEF Values
  <2>3. res' \in [IDs -> Errors] /\ steps' \in Seq(StepRecords)
    BY <1>7, <2>1, <2>2 DEF Dispatch, Values
  <2>4. resultCh' \in Seq(IDs) /\ todo' \subseteq IDs
    <3>1. resultCh \in Seq(IDs) /\ todo \subseteq IDs
      BY DEF Values
    <3>2. (resultCh' = resultCh \/ resultCh' = Append(resultCh, n)) /\ todo' = todo \ {n}
      BY <1>7 DEF Dispatch
    <3> QED BY <3>1, <3>2
  <2> QED BY <1>1, <1>7, <2>1, <2>3, <2>4, Zenon DEF Dispatch, Values
<1>8. ASSUME NEW n \in IDs, Node(n) PROVE Values'
  BY <1>1, <1>8, NodeValues
<1>9. CASE Cancel
  BY <1>1, <1>9 DEF Cancel, Values
<1>10. CASE Tick
  <2>1. clock \in 0..MaxClock /\ clock' = clock + 1 /\ clock < MaxClock
    BY <1>10, Zenon DEF Tick, Values
  <2>2. clock' \in 0..MaxClock
    BY <2>1, EngineAssumption
  <2> QED BY <1>1, <1>10, <2>2, Zenon DEF Tick, Values
<1>11. ASSUME NEW a \in LateAgents, Register(a) PROVE Values'
  BY <1>1, <1>11 DEF Register, Values
<1>12. CASE UNCHANGED vars
  BY <1>1, <1>12, Zenon DEF vars, Values
<1> QED BY <1>2, <1>3, <1>4, <1>5, <1>6, <1>7, <1>8, <1>9, <1>10, <1>11, <1>12 DEF Next, Main

-----------------------------------------------------------------------------
(* Attempts stay within the policy. *)
Limits ==
    \A n \in IDs : /\ attempt[n] <= MaxAttempts(n)
                   /\ pc[n] = "backoff" => attempt[n] < MaxAttempts(n)
                   /\ pc[n] \in Running \cup {"done"} => attempt[n] >= 1

(* A half-open circuit has a call under way. *)
Probes ==
    \A a \in Agents : HalfOpen(states[a]) =>
        \E n \in IDs : pc[n] = "call" /\ AgentOf(n) = a /\ Threshold(n) > 0

(* RunPlan returns when no goroutine is left. *)
Over == main = "done" => \A n \in IDs : pc[n] \notin Active

(* The nodes that hold a slot of the pool. *)
Holding == {n \in IDs : pc[n] \in Running}

(* The semaphore counts them. *)
Pool == sem = Cardinality(Holding) /\ sem <= WorkerPoolSize

(* What the engine bounds. *)
Bounds == Limits /\ Probes /\ Over /\ Pool

(* The bounds hold at the start, *)
LEMMA InitBounds == Init => Bounds
<1> SUFFICES ASSUME Init PROVE Bounds
  OBVIOUS
<1>1. plan \in Plans
  BY Zenon DEF Init, GraphInit
<1>2. Limits
  <2>1. pc = [n \in IDs |-> "idle"] /\ attempt = [n \in IDs |-> 0]
    BY Zenon DEF Init
  <2>2. ASSUME NEW n \in IDs
        PROVE  /\ attempt[n] <= MaxAttempts(n) /\ pc[n] # "backoff"
               /\ pc[n] \notin Running \cup {"done"}
    <3>1. MaxAttempts(n) \in Nat \ {0}
      BY <1>1, NodeFacts
    <3> QED BY <2>1, <3>1 DEF Running
  <2> QED BY <2>2 DEF Limits
<1>3. Probes
  <2>1. \A a \in Agents : \A s \in PriorCircuits[a] : ~HalfOpen(s)
    BY <1>1, PriorAssumption DEF Agents
  <2> QED BY <2>1, Zenon DEF Init, Probes
<1>4. Over
  BY Zenon DEF Init, Over
<1>5. Pool
  <2>1. Holding = {}
    BY Zenon DEF Init, Holding, Running
  <2>2. sem = 0 /\ Cardinality({}) = 0 /\ WorkerPoolSize \in Nat
    BY FS_EmptySet, EngineAssumption, Zenon DEF Init
  <2> QED BY <2>1, <2>2 DEF Pool
<1> QED BY <1>2, <1>3, <1>4, <1>5 DEF Bounds

(* A step of a node changes nothing of the others. *)
LEMMA NodeAlone ==
    ASSUME EInv, Values, NEW n \in IDs, Node(n)
    PROVE  /\ pc[n] \in Active /\ pc'[n] \in Running \cup {"done"}
           /\ \A m \in IDs : m # n => pc'[m] = pc[m] /\ attempt'[m] = attempt[m] /\ res'[m] = res[m]
           /\ UNCHANGED <<graphVars, main, lvl, todo, resultsByID, outVars, registry, envVars>>
<1>1. /\ pc \in [IDs -> Active \cup Ended \cup {"idle"}]
      /\ attempt \in [IDs -> Nat] /\ res \in [IDs -> Errors]
  BY DEF EInv, Frame, Values
<1> USE DEF Active, Running, outVars, envVars
<1>2. CASE StartNode(n)
  BY <1>1, <1>2 DEF StartNode
<1>3. CASE Allow(n)
  BY <1>1, <1>3 DEF Allow
<1>4. CASE CallSucceeds(n)
  BY <1>1, <1>4 DEF CallSucceeds
<1>5. ASSUME NEW raw \in MayReturn(n) \ {NoErr}, CallFails(n, raw)
      PROVE  /\ pc[n] \in Active /\ pc'[n] \in Running \cup {"done"}
             /\ \A m \in IDs : m # n => pc'[m] = pc[m] /\ attempt'[m] = attempt[m] /\ res'[m] = res[m]
             /\ UNCHANGED <<graphVars, main, lvl, todo, resultsByID, outVars, registry, envVars>>
  BY <1>1, <1>5 DEF CallFails
<1>6. CASE BackoffElapsed(n)
  BY <1>1, <1>6 DEF BackoffElapsed
<1>7. CASE BackoffCancelled(n)
  BY <1>1, <1>7 DEF BackoffCancelled
<1>8. CASE Return(n)
  BY <1>1, <1>8 DEF Return
<1> QED BY <1>2, <1>3, <1>4, <1>5, <1>6, <1>7, <1>8, Zenon DEF Node

(* No attempt is made beyond the policy's. *)
LEMMA NodeLimits ==
    ASSUME EInv, Values, Limits, NEW n \in IDs, Node(n), [Next]_vars
    PROVE  Limits'
<1>1. /\ IDs' = IDs /\ \A m \in IDs : MaxAttempts(m)' = MaxAttempts(m)
      /\ \A m \in IDs : m # n => pc'[m] = pc[m] /\ attempt'[m] = attempt[m]
  BY PlanKept, NodeAlone, Zenon
<1>2. /\ MaxAttempts(n) \in Nat \ {0} /\ attempt[n] \in Nat
      /\ pc \in [IDs -> Active \cup Ended \cup {"idle"}] /\ attempt \in [IDs -> Nat]
  BY NodeFacts, Zenon DEF EInv, Frame, IInv, Phases, Values
<1>3. /\ attempt'[n] <= MaxAttempts(n)
      /\ pc'[n] = "backoff" => attempt'[n] < MaxAttempts(n)
      /\ attempt'[n] >= 1
  <2> USE DEF Running
  <2>1. CASE StartNode(n)
    BY <1>2, <2>1 DEF StartNode
  <2>2. CASE Allow(n)
    BY <1>2, <2>2, Zenon DEF Allow, Limits
  <2>3. CASE CallSucceeds(n)
    BY <1>2, <2>3, Zenon DEF CallSucceeds, Limits
  <2>4. ASSUME NEW raw \in MayReturn(n) \ {NoErr}, CallFails(n, raw) 
        PROVE  /\ attempt'[n] <= MaxAttempts(n)
               /\ pc'[n] = "backoff" => attempt'[n] < MaxAttempts(n)
               /\ attempt'[n] >= 1
    <3>1. pc[n] = "call" /\ attempt' = attempt
      BY <2>4, Zenon DEF CallFails
    <3>2. attempt[n] <= MaxAttempts(n) /\ attempt[n] >= 1
      BY <3>1, Zenon DEF Limits
    <3>3. pc'[n] = "backoff" => attempt[n] # MaxAttempts(n)
      BY <1>2, <2>4, Zenon DEF CallFails, GivesUp
    <3> QED BY <1>2, <3>1, <3>2, <3>3
  <2>5. CASE BackoffElapsed(n)
    BY <1>2, <2>5 DEF BackoffElapsed, Limits
  <2>6. CASE BackoffCancelled(n)
    BY <1>2, <2>6 DEF BackoffCancelled, Limits
  <2>7. CASE Return(n)
    BY <1>2, <2>7 DEF Return, Limits
  <2> QED BY <2>1, <2>2, <2>3, <2>4, <2>5, <2>6, <2>7, Zenon DEF Node
<1> QED BY <1>1, <1>3, Zenon DEF Limits

(* A half-open circuit belongs to a call that is under way. *)
LEMMA NodeProbes ==
    ASSUME EInv, Values, Probes, NEW n \in IDs, Node(n), [Next]_vars
    PROVE  Probes'
<1>1. /\ IDs' = IDs /\ Agents' = Agents
      /\ \A m \in IDs : AgentOf(m)' = AgentOf(m) /\ Threshold(m)' = Threshold(m)
      /\ \A m \in IDs : m # n => pc'[m] = pc[m]
  BY PlanKept, NodeAlone, Zenon
<1>2. /\ AgentOf(n) \in Agents /\ Threshold(n) \in Nat /\ clock \in Nat
      /\ pc \in [IDs -> Active \cup Ended \cup {"idle"}] /\ states \in [Agents -> CircuitState]
  <2>1. AgentOf(n) \in Agents /\ Threshold(n) \in Nat
    BY NodeFacts DEF EInv, Frame, IInv, Phases
  <2>2. /\ clock \in 0..MaxClock /\ states \in [Agents -> CircuitState]
        /\ pc \in [IDs -> Active \cup Ended \cup {"idle"}]
    BY Zenon DEF EInv, Frame, Values
  <2>3. MaxClock \in Nat
    BY EngineAssumption
  <2> QED BY <2>1, <2>2, <2>3
<1> DEFINE a == AgentOf(n)
<1>3. ASSUME pc[n] # "call", states' = states PROVE Probes'
  BY <1>1, <1>3, Zenon DEF Probes
<1>4. CASE StartNode(n)
  BY <1>3, <1>4 DEF StartNode
<1>5. CASE Allow(n)
  <2>1. CASE states' = states
    BY <1>3, <1>5, <2>1 DEF Allow
  <2>2. CASE /\ states' = [states EXCEPT ![a] = AfterAllow(states[a], Threshold(n), clock)]
             /\ pc' = [pc EXCEPT ![n] = "call"]
    <3>1. HalfOpen(AfterAllow(states[a], Threshold(n), clock)) => HalfOpen(states[a]) \/ Threshold(n) > 0
      BY <1>2, AllowEntry
    <3>2. pc'[n] = "call" /\ pc[n] = "allow"
      BY <1>2, <1>5, <2>2, Zenon DEF Allow
    <3>3. \A b \in Agents : HalfOpen(states'[b]) => HalfOpen(states[b]) \/ (b = a /\ Threshold(n) > 0)
      BY <1>2, <2>2, <3>1
    <3> QED BY <1>1, <3>2, <3>3, Zenon DEF Probes
  <2> QED BY <1>5, <2>1, <2>2, Zenon DEF Allow
<1>6. ASSUME pc[n] = "call", NEW s, states' = [states EXCEPT ![a] = s],
             ~HalfOpen(s) \/ (Threshold(n) = 0 /\ s = states[a])
      PROVE  Probes'
  <2>1. ASSUME NEW b \in Agents, HalfOpen(states'[b])
        PROVE  \E m \in IDs : pc'[m] = "call" /\ AgentOf(m)' = b /\ Threshold(m)' > 0
    <3>1. HalfOpen(states[b]) /\ (b = a => Threshold(n) = 0)
      BY <1>2, <1>6, <2>1
    <3>2. PICK m \in IDs : pc[m] = "call" /\ AgentOf(m) = b /\ Threshold(m) > 0
      BY <3>1 DEF Probes
    <3>3. m # n
      BY <3>1, <3>2
    <3>4. pc'[m] = "call" /\ AgentOf(m)' = b /\ Threshold(m)' > 0
      BY <1>1, <3>2, <3>3, Zenon
    <3> QED BY <3>4, Zenon
  <2> QED BY <1>1, <2>1, Zenon DEF Probes
<1>7. CASE CallSucceeds(n)
  BY <1>6, <1>7, SuccessEntry, Zenon DEF CallSucceeds
<1>8. ASSUME NEW raw \in MayReturn(n) \ {NoErr}, CallFails(n, raw) PROVE Probes'
  <2> DEFINE s == AfterFailure(states[a], Threshold(n), ResetTimeout, clock)
  <2>1. ~HalfOpen(s) \/ (Threshold(n) = 0 /\ s = states[a])
    <3>1. PICK c \in CircuitState, t \in Nat, now \in Nat :
                  c = states[a] /\ t = Threshold(n) /\ now = clock
      BY <1>2
    <3>2. t > 0 \/ t = 0
      OBVIOUS
    <3> QED BY <3>1, <3>2, FailureEntry, Zenon
  <2>2. pc[n] = "call" /\ states' = [states EXCEPT ![a] = s]
    BY <1>8, Zenon DEF CallFails
  <2> HIDE DEF s
  <2> QED BY <1>6, <2>1, <2>2, Zenon
<1>9. CASE BackoffElapsed(n) \/ BackoffCancelled(n) \/ Return(n)
  BY <1>3, <1>9, Zenon DEF BackoffElapsed, BackoffCancelled, Return
<1> QED BY <1>4, <1>5, <1>7, <1>8, <1>9 DEF Node

(* The slots of the pool are those of the running nodes. *)
LEMMA NodePool ==
    ASSUME EInv, Values, Pool, NEW n \in IDs, Node(n), [Next]_vars
    PROVE  Pool'
<1>1. /\ IDs' = IDs /\ \A m \in IDs : m # n => pc'[m] = pc[m]
      /\ pc \in [IDs -> Active \cup Ended \cup {"idle"}]
  <2>1. pc \in [IDs -> Active \cup Ended \cup {"idle"}]
    BY Zenon DEF EInv, Frame
  <2> QED BY <2>1, PlanKept, NodeAlone, Zenon
<1>2. IsFiniteSet(Holding) /\ Cardinality(Holding) \in Nat
  <2>1. Holding \in SUBSET IDs
    BY DEF Holding
  <2> QED BY <2>1, Finite DEF EInv, Frame
<1>3. WorkerPoolSize \in Nat /\ sem = Cardinality(Holding) /\ sem <= WorkerPoolSize
  BY EngineAssumption DEF Pool
<1>4. CASE StartNode(n)
  <2>1. pc[n] = "spawned" /\ pc'[n] \in Running /\ sem < WorkerPoolSize /\ sem' = sem + 1
    BY <1>1, <1>4 DEF StartNode, PoolHasRoom, Running
  <2>2. n \notin Holding /\ Holding' = Holding \cup {n}
    BY <1>1, <2>1 DEF Holding, Running
  <2>3. Cardinality(Holding \cup {n}) = Cardinality(Holding) + 1
    BY <1>2, <2>2, FS_AddElement
  <2>4. Cardinality(Holding') = sem'
    BY <1>3, <2>1, <2>2, <2>3
  <2>5. sem' <= WorkerPoolSize
    BY <1>2, <1>3, <2>1
  <2> QED BY <2>4, <2>5, Zenon DEF Pool
<1>5. CASE Return(n)
  <2>1. pc[n] = "return" /\ pc'[n] = "done" /\ sem' = sem - 1
    BY <1>1, <1>5 DEF Return, SlotReleased
  <2>2. n \in Holding /\ Holding' = Holding \ {n}
    BY <1>1, <2>1 DEF Holding, Running
  <2>3. Cardinality(Holding \ {n}) = Cardinality(Holding) - 1
    BY <1>2, <2>2, FS_RemoveElement
  <2>4. Cardinality(Holding') = sem'
    BY <1>3, <2>1, <2>2, <2>3
  <2> QED BY <1>2, <1>3, <2>1, <2>4 DEF Pool
<1>6. ASSUME pc[n] \in Running, pc'[n] \in Running, sem' = sem PROVE Pool'
  <2>1. Holding' = Holding
    BY <1>1, <1>6 DEF Holding
  <2> QED BY <1>3, <1>6, <2>1 DEF Pool
<1>7. CASE Allow(n)
  BY <1>1, <1>6, <1>7 DEF Allow, Running
<1>8. CASE CallSucceeds(n)
  BY <1>1, <1>6, <1>8 DEF CallSucceeds, Running
<1>9. ASSUME NEW raw \in MayReturn(n) \ {NoErr}, CallFails(n, raw) PROVE Pool'
  BY <1>1, <1>6, <1>9, Zenon DEF CallFails, Running
<1>10. CASE BackoffElapsed(n)
  BY <1>1, <1>6, <1>10 DEF BackoffElapsed, Running
<1>11. CASE BackoffCancelled(n)
  BY <1>1, <1>6, <1>11 DEF BackoffCancelled, Running
<1> QED BY <1>4, <1>5, <1>7, <1>8, <1>9, <1>10, <1>11 DEF Node

(* and every step keeps them. *)
LEMMA BoundsStep ==
    ASSUME EInv, Values, Bounds, [Next]_vars
    PROVE  Bounds'
<1>1. /\ IDs' = IDs /\ Agents' = Agents
      /\ \A m \in IDs : /\ AgentOf(m)' = AgentOf(m) /\ Threshold(m)' = Threshold(m)
                        /\ MaxAttempts(m)' = MaxAttempts(m)
  BY PlanKept
<1> USE DEF nodeVars
<1>2. ASSUME UNCHANGED <<pc, attempt, states>> PROVE Limits' /\ Probes'
  BY <1>1, <1>2, Zenon DEF Bounds, Limits, Probes
<1>3. ASSUME UNCHANGED <<pc, sem>> PROVE Pool'
  BY <1>1, <1>3 DEF Bounds, Pool, Holding
<1>4. ASSUME UNCHANGED <<pc, main>> PROVE Over'
  BY <1>1, <1>4 DEF Bounds, Over
<1>5. CASE BuildGraph
  BY <1>2, <1>3, <1>4, <1>5 DEF BuildGraph, Bounds
<1>6. CASE RejectPlan
  <2>1. Over'
    BY <1>1, <1>6 DEF RejectPlan, Over, EInv, Frame, Active, Running
  <2> QED BY <1>2, <1>3, <1>6, <2>1, Zenon DEF RejectPlan, Bounds
<1>7. CASE StartPlan
  <2>1. Over'
    BY <1>7 DEF StartPlan, Over
  <2> QED BY <1>2, <1>3, <1>7, <2>1 DEF StartPlan, Bounds
<1>8. CASE CollectLevel
  <2>1. /\ main = "level" /\ lvl <= Len(levels) /\ sem' = 0 /\ pc' = pc
        /\ \A n \in levels[lvl] : pc[n] \in Ended
    BY <1>8, Zenon DEF CollectLevel, LevelEnded, Ended
  <2>2. ASSUME NEW n \in Holding PROVE FALSE
    <3>1. n \in IDs /\ pc[n] \in Active /\ pc[n] \notin Ended
      BY DEF Holding, Active, Running, Ended
    <3>2. n \in levels[lvl]
      BY <2>1, <3>1, ActiveInLevel
    <3> QED BY <2>1, <3>1, <3>2
  <2>3. Holding' = {}
    BY <1>1, <2>1, <2>2, Zenon DEF Holding
  <2>4. Pool'
    <3>1. Cardinality({}) = 0 /\ WorkerPoolSize \in Nat
      BY FS_EmptySet, EngineAssumption
    <3> QED BY <2>1, <2>3, <3>1 DEF Pool
  <2> QED BY <1>2, <1>4, <1>8, <2>4, Zenon DEF CollectLevel, Bounds
<1>9. CASE FinishPlan
  <2>1. /\ main = "level" /\ lvl > Len(levels) /\ pc' = pc /\ IInv /\ phase = "built"
        /\ lvl \in 1..(Len(levels) + 1)
    BY <1>9 DEF FinishPlan, EInv, Frame
  <2>2. Len(levels) \in Nat
    BY <2>1, LevelType
  <2>3. \A n \in IDs : pc[n] \notin Active
    BY <2>1, <2>2, ActiveInLevel
  <2>4. Over'
    BY <1>1, <2>1, <2>3 DEF Over
  <2> QED BY <1>2, <1>3, <1>9, <2>4, Zenon DEF FinishPlan, Bounds
<1>10. ASSUME NEW n \in IDs, Dispatch(n) PROVE Bounds'
  <2>1. /\ pc[n] = "idle" /\ pc'[n] \in {"skipped", "spawned"}
        /\ \A m \in IDs : m # n => pc'[m] = pc[m]
        /\ attempt' = attempt /\ states' = states /\ sem' = sem /\ main' = "level"
    BY <1>10 DEF Dispatch, EInv, Frame, InLevels
  <2>2. Limits' /\ Probes' /\ Over'
    BY <1>1, <2>1, Zenon DEF Bounds, Limits, Probes, Over, Running
  <2>3. Holding' = Holding
    BY <1>1, <2>1, Zenon DEF Holding, Running
  <2> QED BY <2>1, <2>2, <2>3 DEF Bounds, Pool
<1>11. ASSUME NEW n \in IDs, Node(n) PROVE Bounds'
  <2>1. Over'
    BY <1>1, <1>11, NodeAlone, Zenon DEF Bounds, Over
  <2> QED BY <1>11, <2>1, NodeLimits, NodeProbes, NodePool DEF Bounds
<1>12. CASE Cancel \/ Tick \/ (\E a \in LateAgents : Register(a)) \/ UNCHANGED vars
  <2>1. UNCHANGED <<pc, attempt, states, sem, main>>
    BY <1>12 DEF Cancel, Tick, Register, vars
  <2> QED BY <1>2, <1>3, <1>4, <2>1 DEF Bounds
<1> QED BY <1>5, <1>6, <1>7, <1>8, <1>9, <1>10, <1>11, <1>12 DEF Next, Main

-----------------------------------------------------------------------------
(* The invariant of type correctness and of the bounds. *)
LEMMA RunInvariance == Spec => [](EInv /\ Values /\ Bounds)
<1>1. Init => Values /\ Bounds
  BY InitValues, InitBounds
<1>2. EInv /\ Values /\ Bounds /\ [Next]_vars => Values' /\ Bounds'
  BY ValuesStep, BoundsStep
<1> QED BY <1>1, <1>2, EngineInvariance, PTL DEF Spec

(* The context is cancelled or it is not. *)
LEMMA CancelledOnce == Spec => [](cancelled \in BOOLEAN)
<1>1. Init => cancelled \in BOOLEAN
  BY Zenon DEF Init
<1>2. cancelled \in BOOLEAN /\ [Next]_vars => (cancelled \in BOOLEAN)'
  <2> SUFFICES ASSUME cancelled \in BOOLEAN, [Next]_vars PROVE cancelled' \in BOOLEAN
    OBVIOUS
  <2>1. ASSUME NEW n \in IDs, Node(n) PROVE cancelled' = cancelled
    BY <2>1, Zenon DEF Node, StartNode, Allow, CallSucceeds, CallFails, BackoffElapsed,
       BackoffCancelled, Return, envVars
  <2>2. CASE Main
    BY <2>2, Zenon DEF Main, BuildGraph, RejectPlan, StartPlan, Dispatch, CollectLevel, FinishPlan, envVars
  <2>3. CASE Cancel \/ Tick \/ (\E a \in LateAgents : Register(a)) \/ UNCHANGED vars
    BY <2>3, Zenon DEF Cancel, Tick, Register, vars, envVars
  <2> QED BY <2>1, <2>2, <2>3 DEF Next
<1> QED BY <1>1, <1>2, PTL DEF Spec

(* RunPlan stays well typed for every plan and configuration: no node makes  *)
(* more attempts than its policy allows, and the slots taken from the worker *)
(* pool are those of the nodes that executeNode is running.                  *)
THEOREM EngineTypeCorrect == Spec => []TypeOK
<1>1. EInv /\ Values /\ Bounds /\ cancelled \in BOOLEAN => TypeOK
  <2> SUFFICES ASSUME EInv, Values, Bounds, cancelled \in BOOLEAN PROVE TypeOK
    OBVIOUS
  <2>0. GraphTypeOK
    BY DEF EInv, Frame, IInv, Phases, Counted, Ordering, GraphTypeOK
  <2>1. Holding \in SUBSET IDs /\ IInv /\ WorkerPoolSize \in Nat
    BY EngineAssumption DEF Holding, EInv, Frame
  <2>2. Cardinality(Holding) \in Nat
    BY <2>1, Finite
  <2>3. sem \in 0..WorkerPoolSize /\ sem = Cardinality({n \in IDs : pc[n] \in Running})
    BY <2>1, <2>2 DEF Bounds, Pool, Holding
  <2>4. pc \in [IDs -> Running \cup {"idle", "skipped", "spawned", "done"}]
    BY DEF EInv, Frame, Active, Ended
  <2>5. \A n \in IDs : attempt[n] <= MaxAttempts(n)
    BY DEF Bounds, Limits
  <2>6. main \in {"build", "level", "done"}
    BY DEF EInv, Frame
  <2> QED BY <2>0, <2>3, <2>4, <2>5, <2>6, Zenon DEF TypeOK, Values, Metrics, Counters
<1> QED BY <1>1, RunInvariance, CancelledOnce, PTL

(* When RunPlan returns, no probe of its breaker is left behind: a circuit   *)
(* is half-open only while the call that probes it is under way, and RunPlan *)
(* waits for every call.                                                     *)
THEOREM CircuitsSettle == Spec => []BreakerSettles
<1>1. Bounds => BreakerSettles
  BY DEF Bounds, Probes, Over, BreakerSettles, Active, Running
<1> QED BY <1>1, RunInvariance, PTL

-----------------------------------------------------------------------------
(* The end of the range of a Duration. *)
Half == 2^(Width - 1)

Power(k) == 2^k

(* The powers of two that fit. *)
LEMMA Powers ==
    /\ Half \in Nat /\ Half > 200 /\ 2^Width = 2 * Half /\ Width \in Nat /\ Width >= 2
    /\ Half = Power(Width - 1) /\ Power(0) = 1
    /\ \A k \in 0..(Width - 1) : Power(k) \in Nat /\ Power(k + 1) = 2 * Power(k)
<1>1. Width \in Nat \ {0}
  BY EngineAssumption
<1>2. Width - 1 \in 0..(Width - 1) /\ (Width - 1) + 1 = Width
  BY <1>1
<1>3. /\ 2^(Width - 1) > 200 /\ 2^0 = 1
      /\ \A k \in 0..(Width - 1) : 2^k \in Nat /\ 2^(k + 1) = 2 * 2^k
  BY DurationAssumption DEF Base
<1>4. 2^(Width - 1) \in Nat /\ 2^((Width - 1) + 1) = 2 * 2^(Width - 1)
  BY <1>2, <1>3
<1>5. Width # 1
  <2> SUFFICES ASSUME Width = 1 PROVE FALSE
    OBVIOUS
  <2>1. 2^0 > 200
    BY <1>3
  <2> QED BY <1>3, <2>1
<1>6. 2^Width = 2 * 2^(Width - 1)
  BY <1>2, <1>4
<1> QED BY <1>1, <1>3, <1>4, <1>5, <1>6 DEF Half, Power

(* A remainder is its own remainder. *)
LEMMA SmallMod ==
    ASSUME NEW M \in Nat \ {0}, NEW y \in 0..(M - 1)
    PROVE  y % M = y
  OBVIOUS

(* What fits is not changed. *)
LEMMA Fitting ==
    ASSUME NEW x \in Nat, x < Half
    PROVE  Wrap(x) = x
<1> DEFINE M == 2 * Half
           y == x + Half
<1>1. Half \in Nat /\ M \in Nat \ {0} /\ y \in 0..(M - 1)
  BY Powers
<1>2. Wrap(x) = (y % M) - Half
  BY Powers DEF Wrap, Half
<1>3. y % M = y
  <2> HIDE DEF M, y
  <2> QED BY <1>1, SmallMod
<1> QED BY <1>1, <1>2, <1>3

(* What the waits of node n add up to. *)
Waited(f, n, k) == f = [j \in 0..k |-> IF j = 0 THEN 0 ELSE f[j - 1] + Wait(n, j)]

(* The sum of the waits is well defined. *)
LEMMA WaitedExists ==
    ASSUME NEW n, NEW k \in Nat
    PROVE  \E f : Waited(f, n, k)
<1> DEFINE T == {m \in Nat : ~ \E f : Waited(f, n, m)}
<1> SUFFICES ASSUME T # {} PROVE FALSE
  OBVIOUS
<1>1. T \in SUBSET Nat
  OBVIOUS
<1>2. PICK m \in T : \A j \in T : m <= j
  <2> HIDE DEF T
  <2> QED BY <1>1, Least
<1>3. m \in Nat /\ ~ \E f : Waited(f, n, m)
  OBVIOUS
<1>4. CASE m = 0
  <2> DEFINE g == [j \in 0..0 |-> 0]
  <2>1. Waited(g, n, 0)
    BY DEF Waited
  <2> HIDE DEF g
  <2> QED BY <1>3, <1>4, <2>1
<1>5. CASE m # 0
  <2>1. m - 1 \in Nat /\ m - 1 \notin T
    <3>1. m - 1 \in Nat /\ m - 1 < m
      BY <1>3, <1>5
    <3> HIDE DEF T
    <3> QED BY <1>2, <1>3, <3>1
  <2>2. PICK f : Waited(f, n, m - 1)
    BY <2>1
  <2> DEFINE g == [j \in 0..m |-> IF j = m THEN f[m - 1] + Wait(n, m) ELSE f[j]]
  <2>3. \A j \in 0..(m - 1) : f[j] = IF j = 0 THEN 0 ELSE f[j - 1] + Wait(n, j)
    BY <2>2, Zenon DEF Waited
  <2>4. ASSUME NEW j \in 0..m PROVE g[j] = IF j = 0 THEN 0 ELSE g[j - 1] + Wait(n, j)
    <3>1. CASE j = m
      <4>1. m - 1 \in 0..m /\ m - 1 # m /\ m # 0
        BY <1>3, <1>5
      <4>2. g[m - 1] = f[m - 1] /\ g[m] = f[m - 1] + Wait(n, m)
        BY <1>3, <4>1
      <4> HIDE DEF g
      <4> QED BY <3>1, <4>1, <4>2
    <3>2. CASE j # m
      <4>1. j \in 0..(m - 1) /\ (j # 0 => j - 1 \in 0..m /\ j - 1 # m)
        BY <1>3, <3>2
      <4>2. g[j] = f[j] /\ (j # 0 => g[j - 1] = f[j - 1])
        BY <3>2, <4>1
      <4> HIDE DEF g
      <4> QED BY <2>3, <4>1, <4>2
    <3> QED BY <3>1, <3>2
  <2>5. g = [j \in 0..m |-> g[j]]
    OBVIOUS
  <2> HIDE DEF g
  <2>6. Waited(g, n, m)
    BY <2>4, <2>5, Zenon DEF Waited
  <2> QED BY <1>3, <2>6
<1> QED BY <1>4, <1>5

(* Waits W that are w as long as that fits: w grows, from a base interval on *)
(* and not by much more than what has been waited for before, which is c at  *)
(* least and s in fact.                                                      *)
Paced(K, m, W, w, c, s) ==
    /\ m \in 1..K /\ (m = K \/ w[m] >= Half)
    /\ \A j \in 1..m : /\ w[j] \in Nat /\ c[j] \in Int /\ w[j] <= c[j] + 200
                       /\ w[j] < Half => W[j] = w[j]
    /\ w[1] \in 1..200 /\ c[1] = 0
    /\ \A j \in 1..(m - 1) : w[j] < w[j + 1] /\ c[j + 1] <= c[j] + w[j]
    /\ s[0] = 0 /\ \A j \in 1..K : s[j] = s[j - 1] + W[j]

(* Such waits grow, unless they have added up. *)
LEMMA Spreading ==
    ASSUME NEW K \in Nat \ {0}, NEW m, NEW W, NEW w, NEW c, NEW s, Paced(K, m, W, w, c, s)
    PROVE  \/ W[1] > 0 /\ (K > 1 => W[K - 1] < W[K])
           \/ \E i \in 1..(K - 1) : s[i] >= Half - 200
<1> USE DEF Paced
<1>1. Half \in Nat /\ Half > 200
  BY Powers
<1> DEFINE T == {j \in 1..m : w[j] >= Half}
<1>2. CASE T = {}
  <2>1. \A j \in 1..m : w[j] < Half
    BY <1>1, <1>2
  <2>2. m = K /\ \A j \in 1..K : W[j] = w[j]
    BY <1>1, <2>1
  <2>3. W[1] > 0
    BY <2>2
  <2>4. K > 1 => W[K - 1] < W[K]
    <3> SUFFICES ASSUME K > 1 PROVE W[K - 1] < W[K]
      OBVIOUS
    <3>1. K - 1 \in 1..(m - 1) /\ (K - 1) + 1 = K /\ K - 1 \in 1..K /\ K \in 1..K
      BY <2>2
    <3>2. w[K - 1] < w[(K - 1) + 1]
      BY <3>1
    <3> QED BY <2>2, <3>1, <3>2
  <2> QED BY <2>3, <2>4
<1>3. CASE T # {}
  <2>1. T \in SUBSET Nat
    OBVIOUS
  <2>2. PICK q \in T : \A j \in T : q <= j
    <3> HIDE DEF T
    <3> QED BY <1>3, <2>1, Least
  <2>3. q \in 1..m /\ w[q] >= Half /\ \A j \in 1..m : j < q => w[j] < Half
    <3>1. q \in 1..m /\ w[q] >= Half
      OBVIOUS
    <3>2. ASSUME NEW j \in 1..m, j < q PROVE w[j] < Half
      <4>1. j \notin T
        <5> HIDE DEF T
        <5> QED BY <2>2, <3>1, <3>2
      <4> QED BY <1>1, <4>1
    <3> QED BY <3>1, <3>2
  <2> HIDE DEF T
  <2>4. q # 1
    BY <1>1, <2>3
  <2> DEFINE U == {j \in 0..(q - 1) : ~(s[j] \in Int /\ s[j] >= c[j + 1])}
  <2>5. U = {}
    <3> SUFFICES ASSUME U # {} PROVE FALSE
      OBVIOUS
    <3>1. U \in SUBSET Nat
      <4>1. 0..(q - 1) \subseteq Nat
        <5> HIDE DEF U, Paced
        <5> QED BY <2>3
      <4> QED BY <4>1, Zenon
    <3>2. PICK j \in U : \A i \in U : j <= i
      <4> HIDE DEF U
      <4> QED BY <3>1, Least
    <3>3. j \in 0..(q - 1) /\ ~(s[j] \in Int /\ s[j] >= c[j + 1])
      BY Zenon
    <3>4. j # 0
      <4>1. s[0] = 0 /\ c[0 + 1] = 0
        OBVIOUS
      <4> HIDE DEF U, Paced
      <4> QED BY <3>3, <4>1
    <3>5. j \in 1..m /\ j - 1 \in 0..(q - 1) /\ j < q /\ j \in 1..K /\ j \in 1..(m - 1) /\ j - 1 < j
      BY <2>3, <3>3, <3>4
    <3>6. j - 1 \notin U
      <4> HIDE DEF U
      <4> QED BY <3>2, <3>3, <3>5
    <3>7. s[j - 1] \in Int /\ s[j - 1] >= c[(j - 1) + 1] /\ (j - 1) + 1 = j
      <4>1. s[j - 1] \in Int /\ s[j - 1] >= c[(j - 1) + 1]
        BY <3>5, <3>6, Zenon
      <4> HIDE DEF U, Paced
      <4> QED BY <3>5, <4>1
    <3>8. W[j] = w[j] /\ w[j] \in Nat /\ c[j] \in Int /\ c[j + 1] <= c[j] + w[j]
      BY <2>3, <3>5
    <3>9. s[j] = s[j - 1] + w[j] /\ c[j + 1] \in Int
      <4>1. j + 1 \in 1..m
        BY <3>5
      <4> QED BY <3>5, <3>8, <4>1, Zenon
    <3>10. s[j - 1] >= c[j]
      BY <3>7, Zenon
    <3>11. s[j] \in Int /\ s[j] >= c[j + 1]
      <4> HIDE DEF U
      <4> QED BY <3>7, <3>8, <3>9, <3>10
    <3> QED BY <3>3, <3>11, Zenon
  <2>6. q - 1 \in 1..(K - 1) /\ q - 1 \in 0..(q - 1) /\ (q - 1) + 1 = q
    BY <2>3, <2>4
  <2>7. s[q - 1] \in Int /\ s[q - 1] >= c[q]
    <3>1. s[q - 1] \in Int /\ s[q - 1] >= c[(q - 1) + 1]
      BY <2>5, <2>6
    <3> HIDE DEF U
    <3> QED BY <2>6, <3>1
  <2> HIDE DEF U
  <2>8. w[q] \in Nat /\ c[q] \in Int /\ w[q] <= c[q] + 200
    BY <2>3
  <2>9. s[q - 1] >= Half - 200
    BY <1>1, <2>3, <2>7, <2>8
  <2> QED BY <2>6, <2>9
<1> QED BY <1>2, <1>3

(* What the jitter adds. *)
Jitter(strategy, j) == IF strategy = "exponential_jitter" THEN (j * 37) % 100 ELSE 0

(* It is less than a base interval. *)
LEMMA JitterFacts == ASSUME NEW strategy, NEW j \in Nat PROVE Jitter(strategy, j) \in 0..99
<1>1. (j * 37) % 100 \in 0..99
  BY j * 37 \in Nat
<1> QED BY <1>1 DEF Jitter

(* The exponential strategies wait for powers of two, as long as they fit. *)
LEMMA Exponential ==
    ASSUME NEW strategy \in {"exponential", "exponential_jitter"}, NEW j \in 1..Width,
           100 * Power(j - 1) + Jitter(strategy, j) < Half
    PROVE  BackoffDuration(strategy, j) = 100 * Power(j - 1) + Jitter(strategy, j)
<1>1. Half \in Nat /\ Width \in Nat /\ \A k \in 0..(Width - 1) : Power(k) \in Nat
  BY Powers
<1>2. PICK p \in Nat : p = Power(j - 1)
  BY <1>1
<1>3. PICK r \in 0..99 : r = Jitter(strategy, j)
  BY JitterFacts
<1>4. 100 * p + r < Half
  BY <1>2, <1>3
<1>5. p < Half /\ 100 * p \in Nat /\ 100 * p < Half /\ 100 * p + r \in Nat
  BY <1>1, <1>4
<1>6. Wrap(p) = p /\ Wrap(100 * p) = 100 * p /\ Wrap(100 * p + r) = 100 * p + r
  BY <1>4, <1>5, Fitting
<1>7. Shifted(j - 1) = p
  <2>1. j - 1 \in 0..(Width - 1)
    BY <1>1
  <2> QED BY <1>2, <1>6, <2>1 DEF Shifted, Power
<1>8. CASE strategy = "exponential"
  <2>1. r = 0
    BY <1>3, <1>8 DEF Jitter
  <2>2. BackoffDuration(strategy, j) = Wrap(100 * p)
    BY <1>7, <1>8 DEF BackoffDuration, Base
  <2> QED BY <1>2, <1>3, <1>6, <2>1, <2>2
<1>9. CASE strategy = "exponential_jitter"
  <2>1. r = (j * 37) % 100
    BY <1>3, <1>9 DEF Jitter
  <2>2. BackoffDuration(strategy, j) = Wrap(Wrap(100 * p) + r)
    BY <1>7, <1>9, <2>1 DEF BackoffDuration, Base
  <2> QED BY <1>2, <1>3, <1>6, <2>2
<1> QED BY <1>8, <1>9

(* An exponential strategy is paced until a power no longer fits. *)
LEMMA ExponentialSpreads ==
    ASSUME NEW strategy \in {"exponential", "exponential_jitter"}, NEW K \in Nat \ {0}, NEW s,
           s[0] = 0, \A j \in 1..K : s[j] = s[j - 1] + BackoffDuration(strategy, j)
    PROVE  \/ /\ BackoffDuration(strategy, 1) > 0
              /\ K > 1 => BackoffDuration(strategy, K - 1) < BackoffDuration(strategy, K)
           \/ \E i \in 1..(K - 1) : s[i] >= Half - 200
<1>1. /\ Half \in Nat /\ Half > 200 /\ Width \in Nat /\ Width >= 2 /\ Power(0) = 1
      /\ Half = Power(Width - 1)
      /\ \A k \in 0..(Width - 1) : Power(k) \in Nat /\ Power(k + 1) = 2 * Power(k)
  BY Powers
<1>2. PICK m : m = IF K <= Width - 1 THEN K ELSE Width - 1
  OBVIOUS
<1>3. m \in 1..K /\ m <= Width - 1 /\ (m # K => m = Width - 1)
  BY <1>1, <1>2
<1> DEFINE W == [j \in 1..K |-> BackoffDuration(strategy, j)]
           w == [j \in 1..m |-> 100 * Power(j - 1) + Jitter(strategy, j)]
           c == [j \in 1..m |-> 100 * Power(j - 1) - 100]
<1>4. ASSUME NEW j \in 1..m
      PROVE  /\ Power(j - 1) \in Nat /\ Power(j) = 2 * Power(j - 1) /\ Jitter(strategy, j) \in 0..99
             /\ w[j] = 100 * Power(j - 1) + Jitter(strategy, j) /\ c[j] = 100 * Power(j - 1) - 100
  <2>1. j - 1 \in 0..(Width - 1) /\ (j - 1) + 1 = j /\ j \in Nat
    BY <1>1, <1>3
  <2>2. Power(j - 1) \in Nat /\ Power((j - 1) + 1) = 2 * Power(j - 1)
    BY <1>1, <2>1
  <2> QED BY <2>1, <2>2, JitterFacts, Zenon
<1>5. ASSUME NEW j \in 1..K PROVE W[j] = BackoffDuration(strategy, j)
  OBVIOUS
<1> HIDE DEF w, c, W
<1>6. \A j \in 1..m : w[j] \in Nat /\ c[j] \in Int /\ w[j] <= c[j] + 200
  BY <1>4
<1>7. \A j \in 1..m : w[j] < Half => W[j] = w[j]
  <2> SUFFICES ASSUME NEW j \in 1..m, w[j] < Half PROVE W[j] = w[j]
    OBVIOUS
  <2>1. j \in 1..Width /\ j \in 1..K
    BY <1>1, <1>3
  <2> QED BY <1>4, <1>5, <2>1, Exponential
<1>8. \A k \in 1..m : \E p \in Nat : Power(k - 1) = p /\ p >= 1
  <2> DEFINE T == {k \in 1..m : ~(Power(k - 1) >= 1)}
  <2> SUFFICES ASSUME T # {} PROVE FALSE
    BY <1>4
  <2>1. T \in SUBSET Nat
    OBVIOUS
  <2>2. PICK k \in T : \A i \in T : k <= i
    <3> HIDE DEF T
    <3> QED BY <2>1, Least
  <2>3. k \in 1..m /\ ~(Power(k - 1) >= 1)
    OBVIOUS
  <2>4. k # 1
    BY <1>1, <2>3
  <2>5. k - 1 \in 1..m /\ k - 1 < k
    BY <1>3, <2>3, <2>4
  <2>6. k - 1 \notin T
    <3> HIDE DEF T
    <3> QED BY <2>2, <2>3, <2>5
  <2>7. Power((k - 1) - 1) >= 1
    BY <2>5, <2>6
  <2>8. Power(k - 1) = 2 * Power((k - 1) - 1) /\ Power((k - 1) - 1) \in Nat
    BY <1>4, <2>5
  <2> HIDE DEF T
  <2> QED BY <2>3, <2>7, <2>8
<1>9. \A j \in 1..(m - 1) : w[j] < w[j + 1] /\ c[j + 1] <= c[j] + w[j]
  <2> SUFFICES ASSUME NEW j \in 1..(m - 1) PROVE w[j] < w[j + 1] /\ c[j + 1] <= c[j] + w[j]
    OBVIOUS
  <2>1. j \in 1..m /\ j + 1 \in 1..m /\ (j + 1) - 1 = j
    BY <1>3
  <2>2. PICK p \in Nat : p = Power(j - 1) /\ p >= 1
    BY <1>8, <2>1
  <2>3. Power(j) = 2 * p
    BY <1>4, <2>1, <2>2
  <2>4. PICK r \in 0..99 : r = Jitter(strategy, j)
    BY <1>4, <2>1
  <2>5. PICK t \in 0..99 : t = Jitter(strategy, j + 1)
    BY <1>4, <2>1
  <2>6. w[j] = 100 * p + r /\ c[j] = 100 * p - 100
    BY <1>4, <2>1, <2>2, <2>4
  <2>7. w[j + 1] = 100 * (2 * p) + t /\ c[j + 1] = 100 * (2 * p) - 100
    BY <1>4, <2>1, <2>3, <2>5
  <2> QED BY <2>2, <2>6, <2>7
<1>10. w[1] \in 1..200 /\ c[1] = 0
  <2>1. 1 \in 1..m /\ 1 - 1 = 0
    BY <1>3
  <2>2. PICK r \in 0..99 : r = Jitter(strategy, 1)
    BY <1>4, <2>1
  <2>3. w[1] = 100 * 1 + r /\ c[1] = 100 * 1 - 100
    BY <1>1, <1>4, <2>1, <2>2
  <2> QED BY <2>3
<1>11. m = K \/ w[m] >= Half
  <2> SUFFICES ASSUME m # K PROVE w[m] >= Half
    OBVIOUS
  <2>1. m = Width - 1 /\ m \in 1..m
    BY <1>3
  <2>2. PICK p \in Nat : p = Power(m - 1)
    BY <1>4, <2>1
  <2>3. Half = 2 * p
    BY <1>1, <1>4, <2>1, <2>2
  <2>4. PICK r \in 0..99 : r = Jitter(strategy, m)
    BY <1>4, <2>1
  <2>5. w[m] = 100 * p + r
    BY <1>4, <2>1, <2>2, <2>4
  <2> QED BY <2>3, <2>5
<1>12. \A j \in 1..K : s[j] = s[j - 1] + W[j]
  BY <1>5
<1>13. \/ W[1] > 0 /\ (K > 1 => W[K - 1] < W[K])
       \/ \E i \in 1..(K - 1) : s[i] >= Half - 200
  <2>1. Paced(K, m, W, w, c, s)
    BY <1>3, <1>6, <1>7, <1>9, <1>10, <1>11, <1>12, Zenon DEF Paced
  <2> QED BY <2>1, Spreading
<1>14. W[1] = BackoffDuration(strategy, 1) /\ W[K] = BackoffDuration(strategy, K)
       /\ (K > 1 => W[K - 1] = BackoffDuration(strategy, K - 1))
  <2>1. 1 \in 1..K /\ K \in 1..K /\ (K > 1 => K - 1 \in 1..K)
    OBVIOUS
  <2> QED BY <1>5, <2>1
<1> QED BY <1>13, <1>14

(* Any other strategy is linear. *)
LEMMA LinearSpreads ==
    ASSUME NEW strategy, strategy \notin {"exponential", "exponential_jitter"}, NEW K \in Nat \ {0}, NEW s,
           s[0] = 0, \A j \in 1..K : s[j] = s[j - 1] + BackoffDuration(strategy, j)
    PROVE  \/ /\ BackoffDuration(strategy, 1) > 0
              /\ K > 1 => BackoffDuration(strategy, K - 1) < BackoffDuration(strategy, K)
           \/ \E i \in 1..(K - 1) : s[i] >= Half - 200
<1> DEFINE W == [j \in 1..K |-> BackoffDuration(strategy, j)]
           w == [j \in 1..K |-> 100 * j]
           c == [j \in 1..K |-> 100 * j - 100]
<1>1. Half \in Nat /\ Half > 200 /\ K \in 1..K
  BY Powers
<1>2. ASSUME NEW j \in 1..K
      PROVE  W[j] = BackoffDuration(strategy, j) /\ w[j] = 100 * j /\ c[j] = 100 * j - 100
  OBVIOUS
<1> HIDE DEF w, c, W
<1>3. \A j \in 1..K : w[j] \in Nat /\ c[j] \in Int /\ w[j] <= c[j] + 200
  BY <1>2
<1>4. \A j \in 1..K : w[j] < Half => W[j] = w[j]
  <2> SUFFICES ASSUME NEW j \in 1..K, w[j] < Half PROVE W[j] = w[j]
    OBVIOUS
  <2>1. 100 * j \in Nat /\ 100 * j < Half
    BY <1>2
  <2>2. BackoffDuration(strategy, j) = Wrap(100 * j)
    BY DEF BackoffDuration, Base
  <2> QED BY <1>2, <2>1, <2>2, Fitting
<1>5. \A j \in 1..(K - 1) : w[j] < w[j + 1] /\ c[j + 1] <= c[j] + w[j]
  <2> SUFFICES ASSUME NEW j \in 1..(K - 1) PROVE w[j] < w[j + 1] /\ c[j + 1] <= c[j] + w[j]
    OBVIOUS
  <2>1. j \in 1..K /\ j + 1 \in 1..K
    OBVIOUS
  <2>2. w[j] = 100 * j /\ w[j + 1] = 100 * (j + 1) /\ c[j] = 100 * j - 100 /\ c[j + 1] = 100 * (j + 1) - 100
    BY <1>2, <2>1
  <2> QED BY <2>2
<1>6. w[1] \in 1..200 /\ c[1] = 0
  <2>1. 1 \in 1..K
    OBVIOUS
  <2>2. w[1] = 100 * 1 /\ c[1] = 100 * 1 - 100
    BY <1>2, <2>1
  <2> QED BY <2>2
<1>7. \A j \in 1..K : s[j] = s[j - 1] + W[j]
  BY <1>2
<1>8. \/ W[1] > 0 /\ (K > 1 => W[K - 1] < W[K])
      \/ \E i \in 1..(K - 1) : s[i] >= Half - 200
  <2>1. Paced(K, K, W, w, c, s)
    BY <1>1, <1>3, <1>4, <1>5, <1>6, <1>7, Zenon DEF Paced
  <2> QED BY <2>1, Spreading
<1>9. W[1] = BackoffDuration(strategy, 1) /\ W[K] = BackoffDuration(strategy, K)
      /\ (K > 1 => W[K - 1] = BackoffDuration(strategy, K - 1))
  <2>1. 1 \in 1..K /\ K \in 1..K /\ (K > 1 => K - 1 \in 1..K)
    OBVIOUS
  <2> QED BY <1>2, <2>1
<1> QED BY <1>8, <1>9

(* The waits of a node, up to any attempt. *)
LEMMA WaitsSpread ==
    ASSUME NEW n, NEW k \in Nat \ {0}
    PROVE  LET sum[j \in 0..k] == IF j = 0 THEN 0 ELSE sum[j - 1] + Wait(n, j)
           IN  \/ Wait(n, 1) > 0 /\ (k > 1 => Wait(n, k - 1) < Wait(n, k))
               \/ \E i \in 1..(k - 1) : sum[i] >= 2^(Width - 1) - 2 * Base
<1> DEFINE f == CHOOSE g : Waited(g, n, k)
<1>1. Waited(f, n, k)
  BY WaitedExists
<1>2. PICK strategy : \A j : Wait(n, j) = BackoffDuration(strategy, j)
  BY Zenon DEF Wait
<1> HIDE DEF f
<1>3. f[0] = 0 /\ \A j \in 1..k : f[j] = f[j - 1] + BackoffDuration(strategy, j)
  <2>1. \A j \in 0..k : f[j] = IF j = 0 THEN 0 ELSE f[j - 1] + Wait(n, j)
    BY <1>1, Zenon DEF Waited
  <2>2. 0 \in 0..k /\ \A j \in 1..k : j \in 0..k /\ j # 0
    OBVIOUS
  <2> QED BY <1>2, <2>1, <2>2
<1>4. \/ /\ BackoffDuration(strategy, 1) > 0
         /\ k > 1 => BackoffDuration(strategy, k - 1) < BackoffDuration(strategy, k)
      \/ \E i \in 1..(k - 1) : f[i] >= Half - 200
  BY <1>3, ExponentialSpreads, LinearSpreads
<1>5. \/ Wait(n, 1) > 0 /\ (k > 1 => Wait(n, k - 1) < Wait(n, k))
      \/ \E i \in 1..(k - 1) : f[i] >= 2^(Width - 1) - 2 * Base
  <2>1. 2 * Base = 200
    BY DEF Base
  <2>2. Half - 200 = 2^(Width - 1) - 2 * Base
    BY <2>1, Zenon DEF Half
  <2> QED BY <1>2, <1>4, <2>2
<1> QED BY <1>5 DEF f, Waited

(* For every strategy, retry policy and width of a Duration, the waits       *)
(* between attempts grow, from a positive one on, until the node has waited  *)
(* for as long as a Duration can say, less two base intervals.               *)
THEOREM WaitsGrow == Spec => []BackoffSpreads
<1>1. EInv /\ Values /\ Bounds => BackoffSpreads
  <2> SUFFICES ASSUME EInv, Values, Bounds, NEW n \in IDs, pc[n] = "backoff"
               PROVE  LET k == attempt[n]
                          sum[j \in 0..k] == IF j = 0 THEN 0 ELSE sum[j - 1] + Wait(n, j)
                      IN  \/ Wait(n, 1) > 0 /\ (k > 1 => Wait(n, k - 1) < Wait(n, k))
                          \/ \E i \in 1..(k - 1) : sum[i] >= 2^(Width - 1) - 2 * Base
    BY Zenon DEF BackoffSpreads
  <2>1. attempt[n] \in Nat \ {0}
    BY DEF Values, Bounds, Limits, Running
  <2> QED BY <2>1, WaitsSpread, Zenon
<1> QED BY <1>1, RunInvariance, PTL
=============================================================================
