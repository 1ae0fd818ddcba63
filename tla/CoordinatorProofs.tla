------------------------- MODULE CoordinatorProofs -------------------------
(***************************************************************************)
(* TLAPS proofs about the Redis coordinator, for any set of clients and    *)
(* tokens, any ttl and any number of crashes and lost messages.            *)
(***************************************************************************)
EXTENDS RedisCoordinator, TLAPS

-----------------------------------------------------------------------------
(* A client inside Acquire, or with a lease, has a token of its own. *)
TokensUnique ==
    /\ \A c \in Clients : pc[c] # "idle" => token[c] \in Tokens
    /\ \A c, d \in Clients : token[c] = token[d] /\ token[c] # NoToken => c = d

(* As long as a client's lease is alive the server's key is the client's     *)
(* and has the same time left.                                               *)
LiveOwnsKey ==
    \A c \in Clients : left[c] > 0 =>
        pc[c] = "held" /\ store.token = token[c] /\ store.ttl = left[c]

(* The inductive invariant. *)
IInv == TypeOK /\ TokensUnique /\ LiveOwnsKey

-----------------------------------------------------------------------------
LEMMA DurationType == Duration \in Nat \ {0}
  BY LeaseAssumption DEF Duration

LEMMA CountDownType ==
    ASSUME NEW n \in 0..Duration
    PROVE  CountDown(n) \in 0..Duration
  BY DurationType DEF CountDown

LEMMA AbsentFields == Absent.token = NoToken /\ Absent.ttl = 0
  BY DEF Absent

(* The server's key is a pair of a token and a time to live. *)
Keys == [token : Tokens, ttl : 1..Duration]

LEMMA StoreAfterTickType ==
    ASSUME store \in Keys \cup {Absent}
    PROVE  /\ StoreAfterTick \in Keys \cup {Absent}
           /\ store.ttl > 1 => /\ StoreAfterTick.token = store.token
                               /\ StoreAfterTick.ttl = store.ttl - 1
                               /\ StoreAfterTick # Absent
<1>1. CASE store.ttl > 1
  <2>1. store \in Keys
    BY <1>1, AbsentFields
  <2>2. StoreAfterTick = [store EXCEPT !.ttl = @ - 1]
    BY <1>1 DEF StoreAfterTick
  <2>3. store.ttl - 1 \in 1..Duration
    BY <1>1, <2>1, DurationType DEF Keys
  <2> QED BY <2>1, <2>2, <2>3, AbsentFields, TokenAssumption DEF Keys
<1>2. CASE ~(store.ttl > 1)
  BY <1>2 DEF StoreAfterTick
<1> QED BY <1>1, <1>2

LEMMA TypeInit == Init => TypeOK
  BY DurationType, LeaseAssumption DEF Init, TypeOK, States

LEMMA TypeStep == TypeOK /\ TokensUnique /\ [Next]_vars => TypeOK'
<1> SUFFICES ASSUME TypeOK, TokensUnique, [Next]_vars PROVE TypeOK'
  OBVIOUS
<1> USE DurationType, LeaseAssumption DEF TypeOK, TokensUnique, States, GoTo, Idle, Fault
<1>1. ASSUME NEW c \in Clients, NEW t \in Tokens, Acquire(c, t) PROVE TypeOK'
  BY <1>1 DEF Acquire
<1>2. ASSUME NEW c \in Clients, SetNX(c) PROVE TypeOK'
  BY <1>2 DEF SetNX
<1>3. ASSUME NEW c \in Clients, SetNXRefused(c) PROVE TypeOK'
  BY <1>3 DEF SetNXRefused
<1>4. ASSUME NEW c \in Clients, SetNXError(c) PROVE TypeOK'
  BY <1>4 DEF SetNXError
<1>5. ASSUME NEW c \in Clients, SetNXResent(c) PROVE TypeOK'
  BY <1>5 DEF SetNXResent
<1>6. ASSUME NEW c \in Clients, WaitElapsed(c) PROVE TypeOK'
  BY <1>6 DEF WaitElapsed
<1>7. ASSUME NEW c \in Clients, WaitCancelled(c) PROVE TypeOK'
  BY <1>7 DEF WaitCancelled
<1>8. ASSUME NEW c \in Clients, Release(c) PROVE TypeOK'
  BY <1>8 DEF Release, AfterRelease
<1>9. ASSUME NEW c \in Clients, ReleaseError(c) PROVE TypeOK'
  BY <1>9 DEF ReleaseError
<1>10. ASSUME NEW c \in Clients, Crash(c) PROVE TypeOK'
  BY <1>10 DEF Crash
<1>11. CASE Tick
  <2>1. store' \in Keys \cup {Absent}
    BY <1>11, StoreAfterTickType DEF Tick, Keys
  <2>2. left' \in [Clients -> 0..Duration]
    BY <1>11, CountDownType DEF Tick
  <2> QED BY <1>11, <2>1, <2>2 DEF Tick, Keys
<1>12. CASE UNCHANGED vars
  BY <1>12 DEF vars
<1> QED BY <1>1, <1>2, <1>3, <1>4, <1>5, <1>6, <1>7, <1>8, <1>9, <1>10, <1>11, <1>12
        DEF Next, ClientStep

LEMMA IInvInit == Init => IInv
  BY TypeInit DEF Init, IInv, TokensUnique, LiveOwnsKey

LEMMA IInvStep == IInv /\ [Next]_vars => IInv'
<1> SUFFICES ASSUME IInv, [Next]_vars PROVE IInv'
  OBVIOUS
<1>t. TypeOK /\ TypeOK'
  BY TypeStep DEF IInv
<1> USE <1>t, DurationType, TokenAssumption, AbsentFields
        DEF IInv, TypeOK, TokensUnique, LiveOwnsKey, States, GoTo, Idle
<1>1. ASSUME NEW c \in Clients, NEW t \in Tokens, Acquire(c, t) PROVE IInv'
  BY <1>1 DEF Acquire, Fresh
<1>2. ASSUME NEW c \in Clients, SetNX(c) PROVE IInv'
  <2>1. \A d \in Clients : left[d] = 0
    BY <1>2 DEF SetNX, KeyFree
  <2> QED BY <1>2, <2>1 DEF SetNX
<1>3. ASSUME NEW c \in Clients, SetNXRefused(c) PROVE IInv'
  BY <1>3 DEF SetNXRefused
<1>4. ASSUME NEW c \in Clients, SetNXError(c) PROVE IInv'
  <2>1. KeyFree => \A d \in Clients : left[d] = 0
    BY DEF KeyFree
  <2> QED BY <1>4, <2>1 DEF SetNXError
<1>5. ASSUME NEW c \in Clients, SetNXResent(c) PROVE IInv'
  <2>1. \A d \in Clients : left[d] = 0
    BY <1>5 DEF SetNXResent, KeyFree
  <2> QED BY <1>5, <2>1 DEF SetNXResent
<1>6. ASSUME NEW c \in Clients, WaitElapsed(c) PROVE IInv'
  BY <1>6 DEF WaitElapsed
<1>7. ASSUME NEW c \in Clients, WaitCancelled(c) PROVE IInv'
  BY <1>7 DEF WaitCancelled
<1>8. ASSUME NEW c \in Clients, Release(c) PROVE IInv'
  BY <1>8 DEF Release, AfterRelease
<1>9. ASSUME NEW c \in Clients, ReleaseError(c) PROVE IInv'
  BY <1>9 DEF ReleaseError
<1>10. ASSUME NEW c \in Clients, Crash(c) PROVE IInv'
  BY <1>10 DEF Crash
<1>11. CASE Tick
  <2>1. ASSUME NEW c \in Clients, left'[c] > 0
        PROVE  left[c] > 1 /\ left'[c] = left[c] - 1
    BY <1>11, <2>1 DEF Tick, CountDown
  <2>2. store.ttl > 1 => store'.token = store.token /\ store'.ttl = store.ttl - 1
    BY <1>11, StoreAfterTickType DEF Tick, Keys
  <2> QED BY <1>11, <2>1, <2>2 DEF Tick
<1>12. CASE UNCHANGED vars
  BY <1>12 DEF vars
<1> QED BY <1>1, <1>2, <1>3, <1>4, <1>5, <1>6, <1>7, <1>8, <1>9, <1>10, <1>11, <1>12
        DEF Next, ClientStep

LEMMA Invariance == Spec => []IInv
  BY IInvInit, IInvStep, PTL DEF Spec

(* The server's key, the tokens and the remaining times are well typed: a    *)
(* key never outlives its time to live.                                      *)
THEOREM RedisTypeCorrect == Spec => []TypeOK
<1>1. IInv => TypeOK
  BY DEF IInv
<1> QED BY <1>1, Invariance, PTL

-----------------------------------------------------------------------------
LEMMA IInvExclusion == IInv => LiveExclusion
  BY TokenAssumption DEF IInv, TypeOK, TokensUnique, LiveOwnsKey, LiveExclusion, Live, Holds

(* Two clients never hold unexpired leases at once, whatever crashes, lost   *)
(* replies, resent commands and late releases happen.                        *)
THEOREM ExclusiveLeases == Spec => []LiveExclusion
  BY Invariance, IInvExclusion, PTL

(* A live key is deleted only by the Release of the client it belongs to. *)
THEOREM OwnerReleases == Spec => OnlyOwnerReleases
<1> DEFINE Removed == store # Absent /\ store.ttl > 1 /\ store' = Absent
           Owner == \E c \in Clients :
                       pc[c] = "held" /\ pc'[c] = "idle" /\ token[c] = store.token
<1>1. IInv /\ [Next]_vars => [Removed => Owner]_vars
  <2> SUFFICES ASSUME IInv, Next, Removed PROVE Owner
    OBVIOUS
  <2> USE TokenAssumption, AbsentFields DEF IInv, TypeOK, TokensUnique, GoTo, Idle, Fault
  <2>1. ASSUME NEW c \in Clients, Release(c) PROVE Owner
    BY <2>1 DEF Release, AfterRelease
  <2>2. CASE Tick
    BY <2>2, StoreAfterTickType DEF Tick, Keys
  <2>3. ASSUME NEW c \in Clients, SetNX(c) \/ SetNXError(c) \/ SetNXResent(c) PROVE FALSE
    BY <2>3 DEF SetNX, SetNXError, SetNXResent, KeyFree
  <2>4. ASSUME NEW c \in Clients, NEW t \in Tokens, Acquire(c, t) PROVE FALSE
    BY <2>4 DEF Acquire
  <2>5. ASSUME NEW c \in Clients,
               \/ SetNXRefused(c) \/ WaitElapsed(c) \/ WaitCancelled(c)
               \/ ReleaseError(c) \/ Crash(c)
        PROVE  FALSE
    BY <2>5 DEF SetNXRefused, WaitElapsed, WaitCancelled, ReleaseError, Crash
  <2> QED BY <2>1, <2>2, <2>3, <2>4, <2>5 DEF Next, ClientStep
<1> QED BY <1>1, Invariance, PTL DEF Spec, OnlyOwnerReleases

-----------------------------------------------------------------------------
Holders == {c \in Clients : Live(c)}

(* A step of the coordinator is a Grant, an End or no step of the lock. *)
LEMMA LockStep == IInv /\ IInv' /\ [Next]_vars => [Lock!Next]_Holders
<1> SUFFICES ASSUME IInv, IInv', [Next]_vars PROVE Lock!Next \/ Holders' = Holders
  BY DEF Holders
<1> USE DurationType, TokenAssumption DEF GoTo, Idle, Holders, Live, Holds
<1>a. \A c \in Clients : c \in Holders => Holders = {c}
  BY IInvExclusion DEF LiveExclusion
<1>e. ASSUME NEW c \in Clients, Holders' \subseteq Holders,
             \A d \in Holders : d # c => d \in Holders'
      PROVE  Lock!Next \/ Holders' = Holders
  BY <1>a, <1>e DEF Lock!Next, Lock!End
<1>o. ASSUME NEW c \in Clients, pc[c] # "idle", Idle(c)
      PROVE  Lock!Next \/ Holders' = Holders
  <2>1. \A d \in Clients : d # c => (d \in Holders' <=> d \in Holders)
    BY <1>o DEF IInv, TypeOK
  <2>2. c \notin Holders'
    BY <1>o DEF IInv, TypeOK
  <2> QED BY <1>e, <2>1, <2>2
<1>k. ASSUME NEW c \in Clients, NEW l \in States \ {"held"}, pc[c] # "held", GoTo(c, l), UNCHANGED left
      PROVE  Holders' = Holders
  BY <1>k DEF IInv, TypeOK
<1>1. ASSUME NEW c \in Clients, NEW t \in Tokens, Acquire(c, t) PROVE Holders' = Holders
  BY <1>1, <1>k DEF Acquire, States
<1>2. ASSUME NEW c \in Clients, SetNX(c) PROVE Lock!Next
  <2>1. Holders = {}
    BY <1>2, AbsentFields DEF SetNX, KeyFree, IInv, LiveOwnsKey, TypeOK
  <2>2. Holders' = {c}
    BY <1>2, <2>1 DEF SetNX, IInv, TypeOK
  <2> QED BY <2>1, <2>2 DEF Lock!Next, Lock!Grant
<1>3. ASSUME NEW c \in Clients, SetNXRefused(c) PROVE Holders' = Holders
  BY <1>3, <1>k DEF SetNXRefused, States
<1>4. ASSUME NEW c \in Clients, SetNXResent(c) PROVE Holders' = Holders
  BY <1>4 DEF SetNXResent
<1>5. ASSUME NEW c \in Clients, WaitElapsed(c) PROVE Holders' = Holders
  BY <1>5, <1>k DEF WaitElapsed, States
<1>6. ASSUME NEW c \in Clients,
             SetNXError(c) \/ WaitCancelled(c) \/ Release(c) \/ ReleaseError(c) \/ Crash(c)
      PROVE  Lock!Next \/ Holders' = Holders
  BY <1>6, <1>o DEF SetNXError, WaitCancelled, Release, ReleaseError, Crash
<1>7. CASE Tick
  <2>1. \A c \in Clients : left[c] \in Nat /\ (left'[c] > 0 => left[c] > 0)
    BY <1>7 DEF Tick, CountDown, IInv, TypeOK
  <2>2. Holders' \subseteq Holders
    BY <1>7, <2>1 DEF Tick
  <2>3. CASE Holders = {}
    BY <2>2, <2>3
  <2>4. ASSUME NEW c \in Clients, c \in Holders PROVE Lock!Next \/ Holders' = Holders
    BY <1>a, <1>e, <2>2, <2>4
  <2> QED BY <2>3, <2>4
<1>8. CASE UNCHANGED vars
  BY <1>8 DEF vars
<1> QED BY <1>1, <1>2, <1>3, <1>4, <1>5, <1>6, <1>7, <1>8 DEF Next, ClientStep

(* The Redis coordinator implements the abstract lease service: the set of   *)
(* clients with an unexpired lease passes from one client to another only    *)
(* through empty.                                                            *)
THEOREM RedisImplementsLock == Spec => ImplementsLock
<1>1. Init => Lock!Init
  BY DEF Init, Lock!Init, Live, Holds
<1>2. Spec => [][Lock!Next]_Holders
  BY Invariance, LockStep, PTL DEF Spec
<1> QED BY <1>1, <1>2, PTL DEF Spec, ImplementsLock, Lock!Spec, Holders
=============================================================================
