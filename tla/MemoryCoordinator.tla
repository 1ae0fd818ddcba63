------------------------- MODULE MemoryCoordinator -------------------------
(***************************************************************************)
(* The in-memory coordinator of internal/coordinator/coordinator.go.       *)
(* Acquire and Release hold c.mu, so an iteration of Acquire's loop is one *)
(* step.  A coordinator is an object: CoordinatorOf says which one a       *)
(* client uses (acquireLeaseIfEnabled makes a new one for every run).      *)
(***************************************************************************)
EXTENDS Lease

CONSTANT CoordinatorOf     \* [Clients -> coordinator objects]

Coordinators == {CoordinatorOf[c] : c \in Clients}

VARIABLES
    locks     \* per coordinator: ticks left on locks[key]; 0 when it is
              \* absent or expired

memoryVars == <<pc, left, faults, locks>>

MemoryInit ==
    /\ pc = [c \in Clients |-> "idle"]
    /\ left = [c \in Clients |-> 0]
    /\ faults = 0
    /\ locks = [o \in Coordinators |-> 0]

-----------------------------------------------------------------------------
MemoryAcquire(c) ==
    /\ pc[c] = "idle"
    /\ GoTo(c, "acquire")
    /\ UNCHANGED <<left, faults, locks>>

(* !exists || now.After(exp) *)
Free(o) == locks[o] = 0

TryLock(c) ==
    /\ pc[c] = "acquire"
    /\ \/ /\ Free(CoordinatorOf[c])
          /\ locks' = [locks EXCEPT ![CoordinatorOf[c]] = Duration]
          /\ left' = [left EXCEPT ![c] = Duration]
          /\ GoTo(c, "held")
       \/ /\ ~Free(CoordinatorOf[c])
          /\ GoTo(c, "wait")
          /\ UNCHANGED <<left, locks>>
    /\ UNCHANGED faults

MemoryWaitElapsed(c) ==
    /\ pc[c] = "wait"
    /\ GoTo(c, "acquire")
    /\ UNCHANGED <<left, faults, locks>>

MemoryWaitCancelled(c) ==
    /\ pc[c] = "wait"
    /\ GoTo(c, "idle")
    /\ UNCHANGED <<left, faults, locks>>

(* delete(l.c.locks, l.key): whoever's lock it is by now. *)
Deleted(c) == [locks EXCEPT ![CoordinatorOf[c]] = 0]

MemoryRelease(c) ==
    /\ pc[c] = "held"
    /\ locks' = Deleted(c)
    /\ left' = [left EXCEPT ![c] = 0]
    /\ GoTo(c, "idle")
    /\ UNCHANGED faults

(* Deadlines come closer. *)
LockAfterTick(n) == CountDown(n)

MemoryTick ==
    /\ \/ \E o \in Coordinators : locks[o] > 0
       \/ \E c \in Clients : left[c] > 0
    /\ locks' = [o \in Coordinators |-> LockAfterTick(locks[o])]
    /\ left' = [c \in Clients |-> CountDown(left[c])]
    /\ UNCHANGED <<pc, faults>>

MemoryNext ==
    \/ \E c \in Clients :
          \/ MemoryAcquire(c) \/ TryLock(c) \/ MemoryRelease(c)
          \/ MemoryWaitElapsed(c) \/ MemoryWaitCancelled(c)
    \/ MemoryTick

MemorySpec == MemoryInit /\ [][MemoryNext]_memoryVars
=============================================================================
