---------------------------- MODULE BreakerModes ----------------------------
(***************************************************************************)
(* The circuit of one agent as the state diagram of the repository's       *)
(* README.md draws it: closed, open and half-open, left only on the edges  *)
(* the diagram has.  Diagram is that machine.  Spec adds the one kind of   *)
(* edge the diagram lacks, named Late: the outcome of a call the circuit   *)
(* did not admit in its present mode.                                      *)
(*                                                                         *)
(* calls[a] holds the callers the circuit of a admitted in its present     *)
(* mode and whose outcome it has yet to hear; elapsed[a] says whether the  *)
(* reset timeout is over; streak[a] counts the failures since the last     *)
(* success or probe.                                                       *)
(***************************************************************************)
EXTENDS Integers

CONSTANTS Agents, Callers,
          Thresholds    \* the enabled failure thresholds in use

VARIABLES mode, streak, calls, elapsed

vars == <<mode, streak, calls, elapsed>>

Init == /\ mode = [a \in Agents |-> "closed"]
        /\ streak = [a \in Agents |-> 0]
        /\ calls = [a \in Agents |-> {}]
        /\ elapsed = [a \in Agents |-> TRUE]

(* The circuit enters mode m with n failures behind it and cs admitted. *)
Enters(a, m, n, cs) ==
    /\ mode' = [mode EXCEPT ![a] = m]
    /\ streak' = [streak EXCEPT ![a] = n]
    /\ calls' = [calls EXCEPT ![a] = cs]
    /\ \E b \in BOOLEAN : elapsed' = [elapsed EXCEPT ![a] = b]

(* Closed: requests pass, a success resets the count, a failure opens the    *)
(* circuit exactly when the count reaches the threshold of the caller that   *)
(* reports it; a caller with the breaker disabled does not count.            *)
Admit(a, c) == mode[a] = "closed" /\ Enters(a, "closed", streak[a], calls[a] \cup {c})

CountSuccess(a, c) == mode[a] = "closed" /\ Enters(a, "closed", 0, calls[a] \ {c})

CountFailure(a, c, t) ==
    /\ mode[a] = "closed"
    /\ IF streak[a] + 1 < t THEN Enters(a, "closed", streak[a] + 1, calls[a] \ {c})
                            ELSE Enters(a, "open", streak[a] + 1, {})

Uncounted(a, c) == mode[a] = "closed" /\ Enters(a, "closed", streak[a], calls[a] \ {c})

(* Open: once the reset timeout has elapsed, exactly one probe is allowed.   *)
(* A failure reported meanwhile leaves the circuit open.                     *)
Elapse == /\ \E over \in SUBSET Agents :
                elapsed' = [a \in Agents |-> elapsed[a] \/ a \in over]
          /\ UNCHANGED <<mode, streak, calls>>

Probe(a, c) == mode[a] = "open" /\ elapsed[a] /\ Enters(a, "halfOpen", 0, {c})

StaysOpen(a) == mode[a] = "open" /\ Enters(a, "open", streak[a] + 1, {})

(* Half-open: the probe closes the circuit or re-opens it. *)
ProbeSuccess(a, c) == /\ mode[a] = "halfOpen" /\ c \in calls[a]
                      /\ Enters(a, "closed", 0, {})

ProbeFailure(a, c) == /\ mode[a] = "halfOpen" /\ c \in calls[a]
                      /\ Enters(a, "open", streak[a] + 1, {})

Documented(a) ==
    \/ StaysOpen(a)
    \/ \E c \in Callers :
          \/ Admit(a, c) \/ Probe(a, c)
          \/ CountSuccess(a, c) \/ Uncounted(a, c)
          \/ \E t \in Thresholds : CountFailure(a, c, t)
          \/ ProbeSuccess(a, c) \/ ProbeFailure(a, c)

(* Not in the diagram: a call admitted in an earlier mode, or by a caller    *)
(* with the breaker disabled, ends.  Its success closes the circuit, its     *)
(* failure re-opens a half-open one.                                         *)
LateSuccess(a, c) == /\ mode[a] # "closed" /\ c \notin calls[a]
                     /\ Enters(a, "closed", 0, {})

LateFailure(a, c) == /\ mode[a] = "halfOpen" /\ c \notin calls[a]
                     /\ Enters(a, "open", streak[a] + 1, {})

Late(a) == \E c \in Callers : LateSuccess(a, c) \/ LateFailure(a, c)

Next == Elapse \/ \E a \in Agents : Documented(a) \/ Late(a)

Diagram == Init /\ [][Elapse \/ \E a \in Agents : Documented(a)]_vars

Spec == Init /\ [][Next]_vars
=============================================================================
