----------------------------- MODULE PlanGraph -----------------------------
(***************************************************************************)
(* buildGraph of internal/router/router.go: the validation of an           *)
(* ExecutionPlan and its partition into levels, the sets of invocations    *)
(* that RunPlan executes one after the other.                              *)
(*                                                                         *)
(* An invocation ID is a natural number; 0 is the empty string, and the    *)
(* order of the strings is the order of the numbers.  A level is a set:    *)
(* the code keeps it as a sorted list, which is the same thing.            *)
(***************************************************************************)
EXTENDS Integers, Sequences, FiniteSets

CONSTANT Plans       \* plans: sequences of records with fields id, dependsOn

(* Plans are sequences, and so are the dependencies of their nodes. *)
ASSUME PlansAssumption ==
    \A p \in Plans :
        /\ p \in Seq({p[i] : i \in DOMAIN p})
        /\ \A i \in DOMAIN p : p[i].id \in Nat /\ p[i].dependsOn \in Seq(Nat)

NoID == 0

VARIABLES
    plan,       \* the ExecutionPlan handed to RunPlan
    phase,      \* "check", "levels", then "built" or "invalid"
    err,        \* the error buildGraph returns, "none" while there is none
    inDegree,   \* dependencies of a node not yet placed in a level
    queue,      \* the level under construction
    levels      \* graph.levels

graphVars == <<plan, phase, err, inDegree, queue, levels>>

IDs == {plan[i].id : i \in DOMAIN plan}

NodeOf(n) == plan[CHOOSE i \in DOMAIN plan : plan[i].id = n]

DependsOn(n) == NodeOf(n).dependsOn

Deps(n) == {DependsOn(n)[k] : k \in DOMAIN DependsOn(n)}

(* How many entries of n's DependsOn list name a member of S; a dependency *)
(* listed twice counts twice.                                              *)
EdgesFrom(S, n) == Cardinality({k \in DOMAIN DependsOn(n) : DependsOn(n)[k] \in S})

Placed == UNION {levels[i] : i \in DOMAIN levels}

-----------------------------------------------------------------------------
First(S) == CHOOSE i \in S : \A j \in S : i <= j

BadIDs == {i \in DOMAIN plan : \/ plan[i].id = NoID
                               \/ \E j \in 1..(i - 1) : plan[j].id = plan[i].id}

BadDepsOf(i) == {k \in DOMAIN plan[i].dependsOn :
                    plan[i].dependsOn[k] \notin IDs \/ plan[i].dependsOn[k] = plan[i].id}

BadNodes == {i \in DOMAIN plan : BadDepsOf(i) # {}}

ValidationIgnoringDuplicates ==
    CASE plan = << >>   -> "no_nodes"
      [] plan # << >> /\ BadNodes # {} -> "unknown_dep"
      [] OTHER -> "none"

(* The error of the first offending node, IDs being checked before edges. *)
Validation ==
    CASE plan = << >> -> "no_nodes"
      [] plan # << >> /\ BadIDs # {} ->
            IF plan[First(BadIDs)].id = NoID THEN "empty_id" ELSE "duplicate_id"
      [] plan # << >> /\ BadIDs = {} /\ BadNodes # {} ->
            LET i == First(BadNodes)
                k == First(BadDepsOf(i))
            IN  IF plan[i].dependsOn[k] \notin IDs THEN "unknown_dep" ELSE "self_dep"
      [] OTHER -> "none"

GraphInit ==
    /\ plan \in Plans
    /\ phase = "check"
    /\ err = "none"
    /\ inDegree = << >>
    /\ queue = {}
    /\ levels = << >>

InitialInDegreeDistinct(n) == Cardinality(Deps(n))

(* inDegree[nodeID] = len(node.DependsOn): repeated entries count. *)
InitialInDegree(n) == Len(DependsOn(n))

CheckPlan ==
    /\ phase = "check"
    /\ err' = Validation
    /\ IF Validation = "none"
       THEN /\ phase' = "levels"
            /\ inDegree' = [n \in IDs |-> InitialInDegree(n)]
            /\ queue' = {n \in IDs : InitialInDegree(n) = 0}
       ELSE /\ phase' = "invalid"
            /\ UNCHANGED <<inDegree, queue>>
    /\ UNCHANGED <<plan, levels>>

-----------------------------------------------------------------------------
(* inDegree[child]-- for every child of every node of the level. *)
Decremented(n) == inDegree[n] - EdgesFrom(queue, n)

ReadyWithAnyDep == {n \in IDs : n \notin Placed \cup queue /\ EdgesFrom(queue, n) > 0}

(* The children whose count has just reached zero. *)
Ready == {n \in IDs : inDegree[n] > 0 /\ Decremented(n) = 0}

(* One round of the loop over the queue. *)
NextLevel ==
    /\ phase = "levels"
    /\ queue # {}
    /\ levels' = Append(levels, queue)
    /\ inDegree' = [n \in IDs |-> Decremented(n)]
    /\ queue' = Ready
    /\ UNCHANGED <<plan, phase, err>>

(* visited != len(plan.Nodes) *)
CycleLeft == Cardinality(Placed) # Len(plan)

GraphDoneWhenAllPlaced ==
    /\ phase = "levels"
    /\ queue = {}
    /\ ~CycleLeft
    /\ phase' = "built"
    /\ UNCHANGED <<plan, err, inDegree, queue, levels>>

GraphDone ==
    /\ phase = "levels"
    /\ queue = {}
    /\ IF CycleLeft
       THEN phase' = "invalid" /\ err' = "cycle"
       ELSE phase' = "built" /\ err' = err
    /\ UNCHANGED <<plan, inDegree, queue, levels>>

GraphNext == CheckPlan \/ NextLevel \/ GraphDone

GraphSpec == GraphInit /\ [][GraphNext]_graphVars

-----------------------------------------------------------------------------
ErrorKinds == {"none", "no_nodes", "empty_id", "duplicate_id", "unknown_dep",
               "self_dep", "cycle"}

(* The graph under construction is well typed: no in-degree is decremented   *)
(* below zero, even when DependsOn lists a node twice.                       *)
GraphTypeOK ==
    /\ phase \in {"check", "levels", "built", "invalid"}
    /\ err \in ErrorKinds
    /\ phase \in {"levels", "built"} => inDegree \in [IDs -> Nat]
    /\ queue \subseteq IDs
    /\ levels \in Seq(SUBSET IDs)

(* A plan that leaves some set of its nodes each waiting for another one of  *)
(* the set can never be ordered.                                             *)
Cyclic == \E S \in SUBSET IDs : S # {} /\ \A n \in S : Deps(n) \cap S # {}

(* buildGraph reports a cycle for exactly the plans that have one, and every *)
(* plan it accepts has distinct, non-empty IDs and only known dependencies.  *)
CycleReportedIffCyclic ==
    /\ err = "cycle" => Cyclic
    /\ phase = "built" => /\ ~Cyclic
                          /\ NoID \notin IDs /\ Cardinality(IDs) = Len(plan)
                          /\ \A n \in IDs : Deps(n) \subseteq IDs

(* The levels are an order of execution: at every round of the construction  *)
(* each dependency of a node is in an earlier level than the node, and when  *)
(* the plan is accepted every node is in exactly one level, so that none is  *)
(* run twice and none is forgotten.                                          *)
LevelsSound ==
    /\ \A i \in DOMAIN levels : \A n \in levels[i] :
         /\ \A d \in Deps(n) : \E j \in 1..(i - 1) : d \in levels[j]
         /\ \A j \in DOMAIN levels : n \in levels[j] => j = i
    /\ phase = "built" => Placed = IDs
=============================================================================
