-------------------------- MODULE RedisCoordinator --------------------------
(***************************************************************************)
(* internal/coordinator/redis.go: a lease is a Redis key set with SET NX   *)
(* PX and a random token, deleted by a script that compares the token.     *)
(* The server executes each command atomically; a command may not reach    *)
(* it, its reply may be lost, and a client may crash at any point.         *)
(***************************************************************************)
EXTENDS Lease

CONSTANTS
    Tokens,      \* the values randomToken draws from
    NoToken      \* no token at all

ASSUME TokenAssumption == NoToken \notin Tokens

VARIABLES
    store,    \* the server: the key's token and time to live, or Absent
    token     \* the token of a client's Acquire

vars == <<pc, left, faults, store, token>>

Absent == [token |-> NoToken, ttl |-> 0]

(* The client's Acquire or Release returns; its locals are gone. *)
Idle(c) ==
    /\ GoTo(c, "idle")
    /\ left' = [left EXCEPT ![c] = 0]
    /\ token' = [token EXCEPT ![c] = NoToken]

States == {"idle", "setnx", "wait", "held"}

(* Clients and server are well typed: a key that exists has a token and some *)
(* time to live.                                                             *)
TypeOK ==
    /\ pc \in [Clients -> States]
    /\ left \in [Clients -> 0..Duration]
    /\ faults \in 0..MaxFaults
    /\ store \in [token : Tokens, ttl : 1..Duration] \cup {Absent}
    /\ token \in [Clients -> Tokens \cup {NoToken}]

Init ==
    /\ pc = [c \in Clients |-> "idle"]
    /\ left = [c \in Clients |-> 0]
    /\ faults = 0
    /\ store = Absent
    /\ token = [c \in Clients |-> NoToken]

-----------------------------------------------------------------------------
(* 128 random bits: never a token that somebody still uses. *)
Fresh(t) == store.token # t /\ \A c \in Clients : token[c] # t

Acquire(c, t) ==
    /\ pc[c] = "idle" /\ Fresh(t)
    /\ token' = [token EXCEPT ![c] = t]
    /\ GoTo(c, "setnx")
    /\ UNCHANGED <<left, faults, store>>

SetWithoutNX == TRUE

(* NX: the key does not exist. *)
KeyFree == store = Absent

SetNX(c) ==
    /\ pc[c] = "setnx"
    /\ KeyFree
    /\ store' = [token |-> token[c], ttl |-> Duration]
    /\ left' = [left EXCEPT ![c] = Duration]
    /\ GoTo(c, "held")
    /\ UNCHANGED <<faults, token>>

SetNXRefused(c) ==
    /\ pc[c] = "setnx"
    /\ ~KeyFree
    /\ GoTo(c, "wait")
    /\ UNCHANGED <<left, faults, store, token>>

(* SetNX returns an error: the command was lost, or only its reply was and  *)
(* the key stays behind with nobody to delete it.                           *)
SetNXError(c) ==
    /\ pc[c] = "setnx" /\ Fault
    /\ \/ store' = store
       \/ KeyFree /\ store' = [token |-> token[c], ttl |-> Duration]
    /\ Idle(c)

(* The reply is lost and the client library sends the command again: the    *)
(* key is there already, under the client's own token.                      *)
SetNXResent(c) ==
    /\ pc[c] = "setnx" /\ KeyFree /\ Fault
    /\ store' = [token |-> token[c], ttl |-> Duration]
    /\ UNCHANGED <<pc, left, token>>

WaitElapsed(c) ==
    /\ pc[c] = "wait"
    /\ GoTo(c, "setnx")
    /\ UNCHANGED <<left, faults, store, token>>

WaitCancelled(c) ==
    /\ pc[c] = "wait"
    /\ Idle(c)
    /\ UNCHANGED <<faults, store>>

AfterReleaseAny(t) == Absent

(* The script: delete the key if it still holds the token. *)
AfterRelease(t) == IF store.token = t THEN Absent ELSE store

Release(c) ==
    /\ pc[c] = "held"
    /\ store' = AfterRelease(token[c])
    /\ Idle(c)
    /\ UNCHANGED faults

(* Eval fails before the server runs it; the caller drops the error. *)
ReleaseError(c) ==
    /\ pc[c] = "held" /\ Fault
    /\ Idle(c)
    /\ UNCHANGED store

Crash(c) ==
    /\ pc[c] # "idle" /\ Fault
    /\ Idle(c)
    /\ UNCHANGED store

StoreWithoutTTL == store

StoreKeptAtZero == IF store.ttl > 0 THEN [store EXCEPT !.ttl = @ - 1] ELSE store

(* The server counts the key's time to live down and drops the key at 0. *)
StoreAfterTick ==
    IF store.ttl > 1 THEN [store EXCEPT !.ttl = @ - 1] ELSE Absent

Tick ==
    /\ store # Absent \/ \E c \in Clients : left[c] > 0
    /\ store' = StoreAfterTick
    /\ left' = [c \in Clients |-> CountDown(left[c])]
    /\ UNCHANGED <<pc, faults, token>>

ClientStep(c) == \/ SetNX(c) \/ SetNXRefused(c) \/ WaitElapsed(c) \/ Release(c)

Next ==
    \/ \E c \in Clients :
          \/ \E t \in Tokens : Acquire(c, t)
          \/ ClientStep(c)
          \/ SetNXError(c) \/ SetNXResent(c) \/ WaitCancelled(c) \/ ReleaseError(c) \/ Crash(c)
    \/ Tick

(* Time passes, a polling client polls again, and a run that holds a lease   *)
(* ends.                                                                     *)
Fairness == WF_vars(Tick) /\ \A c \in Clients : WF_vars(ClientStep(c))

Spec == Init /\ [][Next]_vars /\ Fairness

-----------------------------------------------------------------------------
Waiting(c) == pc[c] \in {"setnx", "wait"}

(* A key that is still alive is deleted only by the client whose token it    *)
(* holds, when it ends its run: a late Release of an expired lease never     *)
(* takes the next holder's key away.                                         *)
OnlyOwnerReleases ==
    [][store # Absent /\ store.ttl > 1 /\ store' = Absent =>
          \E c \in Clients : pc[c] = "held" /\ pc'[c] = "idle" /\ token[c] = store.token]_vars

Lock == INSTANCE LeaseLock WITH holders <- {c \in Clients : Live(c)}

(* The Redis coordinator implements the lease service of LeaseLock. *)
ImplementsLock == Lock!Spec

(* A crash or a lost reply never wedges the key: a client that waits stops   *)
(* waiting, or somebody gets the lease.                                      *)
KeyNotWedged ==
    \A c \in Clients : Waiting(c) ~> (~Waiting(c) \/ \E d \in Clients : Holds(d))
=============================================================================
