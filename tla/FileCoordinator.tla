--------------------------- MODULE FileCoordinator ---------------------------
(***************************************************************************)
(* The file coordinator of internal/coordinator/coordinator.go: a lease is *)
(* a lock file created with O_EXCL that holds its own deadline.  The file  *)
(* system executes each call atomically; the calls of different processes  *)
(* interleave between them.                                                *)
(***************************************************************************)
EXTENDS Lease

VARIABLES
    file,    \* the lock file: its creator and what it contains, or NoFile
    late     \* the file's deadline had passed when the client's loop read
             \* time.Now()

vars == <<pc, left, faults, file, late>>

(* text is the number of ticks to the deadline written in the file, 0 once   *)
(* it has passed, or -1 for a file that is still empty.                      *)
NoFile == [owner |-> "nobody", text |-> 0]
Empty  == -1

Init ==
    /\ pc = [c \in Clients |-> "idle"]
    /\ left = [c \in Clients |-> 0]
    /\ faults = 0
    /\ file = NoFile
    /\ late = [c \in Clients |-> FALSE]

Idle(c) == /\ GoTo(c, "idle")
           /\ left' = [left EXCEPT ![c] = 0]
           /\ late' = [late EXCEPT ![c] = FALSE]

-----------------------------------------------------------------------------
Acquire(c) ==
    /\ pc[c] = "idle"
    /\ GoTo(c, "loop")
    /\ UNCHANGED <<left, faults, file, late>>

(* now := time.Now(); expires := now.Add(ttl). *)
ReadClock(c) ==
    /\ pc[c] = "loop"
    /\ left' = [left EXCEPT ![c] = Duration]
    /\ late' = [late EXCEPT ![c] = file # NoFile /\ file.text = 0]
    /\ GoTo(c, "open")
    /\ UNCHANGED <<faults, file>>

(* OpenFile with O_CREATE|O_EXCL makes the file ... *)
OpenCreates(c) ==
    /\ pc[c] = "open" /\ file = NoFile
    /\ file' = [owner |-> c, text |-> Empty]
    /\ late' = [d \in Clients |-> FALSE]
    /\ GoTo(c, "write")
    /\ UNCHANGED <<left, faults>>

(* ... or finds one. *)
OpenExists(c) ==
    /\ pc[c] = "open" /\ file # NoFile
    /\ GoTo(c, "check")
    /\ UNCHANGED <<left, faults, file, late>>

(* The directory cannot be made or the file cannot be opened. *)
OpenError(c) ==
    /\ pc[c] = "open" /\ Fault
    /\ Idle(c)
    /\ UNCHANGED file

(* WriteString: the deadline goes into the file the client created, which    *)
(* the path may no longer name; its error is dropped.                        *)
Write(c) ==
    /\ pc[c] = "write"
    /\ \/ /\ file' = IF file.owner = c THEN [file EXCEPT !.text = left[c]] ELSE file
          /\ UNCHANGED faults
       \/ Fault /\ UNCHANGED file
    /\ GoTo(c, "held")
    /\ UNCHANGED <<left, late>>

(* The deadline in the file had passed when the loop read the clock. *)
Late(c) == file.text = 0 /\ late[c]

ExpiredOnlyByDeadline(c) == file # NoFile /\ Late(c)

(* expired(): the file is gone, does not parse (it is empty), or is late. *)
Expired(c) == file = NoFile \/ file.text = Empty \/ Late(c)

(* Also when the file cannot be read. *)
CheckExpired(c) ==
    /\ pc[c] = "check"
    /\ \/ Expired(c) /\ UNCHANGED faults
       \/ ~Expired(c) /\ Fault
    /\ left' = [left EXCEPT ![c] = 0]
    /\ late' = [late EXCEPT ![c] = FALSE]
    /\ GoTo(c, "remove")
    /\ UNCHANGED file

CheckLive(c) ==
    /\ pc[c] = "check"
    /\ ~Expired(c)
    /\ left' = [left EXCEPT ![c] = 0]
    /\ late' = [late EXCEPT ![c] = FALSE]
    /\ GoTo(c, "wait")
    /\ UNCHANGED <<faults, file>>

(* os.Remove(path): whatever file is there by now; an error is dropped. *)
Remove(c) ==
    /\ pc[c] = "remove"
    /\ \/ file' = NoFile /\ UNCHANGED faults
       \/ Fault /\ UNCHANGED file
    /\ GoTo(c, "loop")
    /\ UNCHANGED <<left, late>>

WaitElapsed(c) ==
    /\ pc[c] = "wait"
    /\ GoTo(c, "loop")
    /\ UNCHANGED <<left, faults, file, late>>

WaitCancelled(c) ==
    /\ pc[c] = "wait"
    /\ Idle(c)
    /\ UNCHANGED <<faults, file>>

(* os.Remove(path), or an error the caller drops. *)
Release(c) ==
    /\ pc[c] = "held"
    /\ \/ file' = NoFile /\ UNCHANGED faults
       \/ Fault /\ UNCHANGED file
    /\ Idle(c)

Crash(c) ==
    /\ pc[c] # "idle" /\ Fault
    /\ Idle(c)
    /\ UNCHANGED file

DeadlineAfterTick(n) == IF n = Empty THEN Empty ELSE CountDown(n)

Tick ==
    /\ file.text > 0 \/ \E c \in Clients : left[c] > 0
    /\ file' = [file EXCEPT !.text = DeadlineAfterTick(@)]
    /\ left' = [c \in Clients |-> CountDown(left[c])]
    /\ UNCHANGED <<pc, faults, late>>

ClientStep(c) ==
    \/ ReadClock(c) \/ OpenCreates(c) \/ OpenExists(c) \/ Write(c)
    \/ CheckExpired(c) \/ CheckLive(c) \/ Remove(c) \/ WaitElapsed(c) \/ Release(c)

Next ==
    \/ \E c \in Clients :
          Acquire(c) \/ ClientStep(c) \/ OpenError(c) \/ WaitCancelled(c) \/ Crash(c)
    \/ Tick

Fairness == WF_vars(Tick) /\ \A c \in Clients : WF_vars(ClientStep(c))

Spec == Init /\ [][Next]_vars /\ Fairness

-----------------------------------------------------------------------------
Acquiring(c) == pc[c] \notin {"idle", "held"}

(* A lock file left by a crash, even one between its creation and the write  *)
(* of its deadline, never wedges the key: whoever tries to acquire it stops  *)
(* trying or somebody gets the lease.                                        *)
FileNotWedged ==
    \A c \in Clients : Acquiring(c) ~> (~Acquiring(c) \/ \E d \in Clients : Holds(d))
=============================================================================
