------------------------- MODULE RunManifestProofs -------------------------
(***************************************************************************)
(* TLAPS proofs about RunManifest, for any number of commands in any mix   *)
(* of processes, namespaces and environments: what the lease of a          *)
(* namespace protects, and that the audit log tells the truth.             *)
(***************************************************************************)
EXTENDS RunManifest, FiniteSetTheorems, SequenceTheorems, TLAPS

(* The deferred calls a command may have. *)
Bare == << >>
Audited == <<"audit">>
Leased == <<"audit", "release">>
Metered == <<"audit", "stop">>
Full == <<"audit", "release", "stop">>

States == {"idle", "validate", "replay", "load", "lease", "otel", "metrics", "run",
           "open", "write", "export", "unwind", "returned"} \cup Ended

Typed ==
    /\ pc \in [Runs -> States]
    /\ defers \in [Runs -> {Bare, Audited, Leased, Metered, Full}]
    /\ holders \in [Namespaces -> SUBSET Runs]
    /\ port \in Runs \cup {NoRun}
    /\ srv \in [Runs -> {"none", "starting", "serving", "shut"}]
    /\ call \in [Runs -> Call]

(* A command has deferred what it must undo: where it is tells its stack. *)
StackMatches ==
    \A r \in Runs :
        /\ pc[r] \in Ended \cup {"idle", "returned"} => defers[r] = Bare
        /\ pc[r] \in {"validate", "replay", "load", "lease"} => defers[r] = Audited
        /\ pc[r] \in {"otel", "metrics"} =>
             defers[r] = IF env.coordinated THEN Leased ELSE Audited
        /\ pc[r] \in {"run", "open", "write", "export"} =>
             IF env.coordinated THEN defers[r] \in {Leased, Full}
             ELSE defers[r] \in {Audited, Metered}
        /\ pc[r] = "unwind" =>
             IF env.coordinated THEN defers[r] \in {Audited, Leased, Full}
             ELSE defers[r] \in {Audited, Metered}

(* The port is bound by the one run that has a server; a run whose server    *)
(* has not been stopped has yet to stop it.                                  *)
ServerMatches ==
    \A r \in Runs :
        /\ srv[r] # "none" <=> port = r
        /\ srv[r] \in {"starting", "serving"} <=> defers[r] \in {Metered, Full}

(* A run that has yet to release its lease has it, as long as none overran,  *)
(* and in Redis no other run of the namespace does.                          *)
LeaseMatches ==
    /\ env.mode = "redis" => \A n \in Namespaces : \A r, s \in holders[n] : r = s
    /\ ~overran => \A r \in Runs : defers[r] \in {Leased, Full} => r \in holders[call[r].ns]

(* KeepsTrace, by the stack of the run. *)
HasTrace(r) ==
    \/ pc[r] = "export"
    \/ pc[r] = "unwind" /\ outcome[r] = "ok" /\ defers[r] \in {Leased, Full}

(* TraceFileWhole, without Cardinality. *)
Whole ==
    /\ outcome \in [Runs -> {"none", "ok", "error"}]
    /\ \A r, s \in traceFile \cap Runs : r = s
    /\ \A r \in Runs : /\ pc[r] = "write" => traceFile = {}
                       /\ HasTrace(r) /\ env.traceOutput => traceFile = {r}

TraceMatches == Coordinated => Whole

(* The inductive invariant. *)
IInv == Typed /\ StackMatches /\ ServerMatches /\ LeaseMatches /\ TraceMatches

-----------------------------------------------------------------------------
Calls3 == {"audit", "release", "stop"}

LEMMA Stacks ==
    /\ Bare \in Seq(Calls3) /\ Audited \in Seq(Calls3) /\ Leased \in Seq(Calls3)
    /\ Metered \in Seq(Calls3) /\ Full \in Seq(Calls3)
    /\ Len(Bare) = 0 /\ Len(Audited) = 1 /\ Len(Leased) = 2 /\ Len(Metered) = 2 /\ Len(Full) = 3
    /\ Audited[1] = "audit"
    /\ Leased[1] = "audit" /\ Leased[2] = "release"
    /\ Metered[1] = "audit" /\ Metered[2] = "stop"
    /\ Full[1] = "audit" /\ Full[2] = "release" /\ Full[3] = "stop"
  BY DEF Bare, Audited, Leased, Metered, Full, Calls3

LEMMA StacksDiffer ==
    /\ Bare # Audited /\ Bare # Leased /\ Bare # Metered /\ Bare # Full
    /\ Audited # Leased /\ Audited # Metered /\ Audited # Full
    /\ Leased # Metered /\ Leased # Full /\ Metered # Full
  BY DEF Bare, Audited, Leased, Metered, Full

LEMMA Pushed ==
    /\ Append(Audited, "release") = Leased
    /\ Append(Audited, "stop") = Metered
    /\ Append(Leased, "stop") = Full
<1>1. ASSUME NEW s \in Seq(Calls3), NEW e \in Calls3, NEW t \in Seq(Calls3),
             Len(t) = Len(s) + 1, t[Len(t)] = e, \A i \in 1..Len(s) : t[i] = s[i]
      PROVE  Append(s, e) = t
  <2>1. /\ Append(s, e) \in Seq(Calls3) /\ Len(Append(s, e)) = Len(t)
        /\ \A i \in 1..Len(t) : Append(s, e)[i] = t[i]
    BY <1>1, AppendProperties
  <2> QED BY <2>1, SeqEqual
<1>2. "release" \in Calls3 /\ "stop" \in Calls3
  BY DEF Calls3
<1>3. /\ Len(Leased) = Len(Audited) + 1 /\ Leased[Len(Leased)] = "release"
      /\ \A i \in 1..Len(Audited) : Leased[i] = Audited[i]
  BY Stacks DEF Audited, Leased
<1>4. /\ Len(Metered) = Len(Audited) + 1 /\ Metered[Len(Metered)] = "stop"
      /\ \A i \in 1..Len(Audited) : Metered[i] = Audited[i]
  BY Stacks DEF Audited, Metered
<1>5. /\ Len(Full) = Len(Leased) + 1 /\ Full[Len(Full)] = "stop"
      /\ \A i \in 1..Len(Leased) : Full[i] = Leased[i]
  BY Stacks DEF Full, Leased
<1>6. Append(Audited, "release") = Leased
  BY <1>1, <1>2, <1>3, Stacks, Zenon
<1>7. Append(Audited, "stop") = Metered
  BY <1>1, <1>2, <1>4, Stacks, Zenon
<1>8. Append(Leased, "stop") = Full
  BY <1>1, <1>2, <1>5, Stacks, Zenon
<1> QED BY <1>6, <1>7, <1>8

LEMMA RemoveLast ==
    ASSUME NEW s \in Seq(Calls3), NEW t \in Seq(Calls3),
           Len(s) = Len(t) + 1, \A i \in 1..Len(t) : t[i] = s[i]
    PROVE  RemoveAt(s, Len(s)) = t
<1> DEFINE n == Len(t)
           u == SubSeq(s, 1, n)
<1>0. n \in Nat /\ Len(s) = n + 1 /\ \A i \in 1..n : s[i] \in Calls3
  OBVIOUS
<1>1. SubSeq(s, Len(s) + 1, Len(s)) = << >>
  BY SubSeqEmpty
<1>2. u \in Seq(Calls3) /\ Len(u) = n /\ \A i \in 1..n : u[i] = s[i]
  BY <1>0, SubSeqProperties
<1>3. u = t
  BY <1>0, <1>2, SeqEqual
<1>4. RemoveAt(s, Len(s)) = u \o << >>
  BY <1>0, <1>1 DEF RemoveAt
<1>5. u \o << >> = u
  BY <1>2, ConcatEmptySeq
<1> QED BY <1>3, <1>4, <1>5

LEMMA Popped ==
    /\ RemoveAt(Audited, Len(Audited)) = Bare
    /\ RemoveAt(Leased, Len(Leased)) = Audited
    /\ RemoveAt(Metered, Len(Metered)) = Audited
    /\ RemoveAt(Full, Len(Full)) = Leased
<1>1. Len(Audited) = Len(Bare) + 1 /\ \A i \in 1..Len(Bare) : Bare[i] = Audited[i]
  BY Stacks DEF Audited, Bare
<1>2. Len(Leased) = Len(Audited) + 1 /\ \A i \in 1..Len(Audited) : Audited[i] = Leased[i]
  BY Stacks DEF Audited, Leased
<1>3. Len(Metered) = Len(Audited) + 1 /\ \A i \in 1..Len(Audited) : Audited[i] = Metered[i]
  BY Stacks DEF Audited, Metered
<1>4. Len(Full) = Len(Leased) + 1 /\ \A i \in 1..Len(Leased) : Leased[i] = Full[i]
  BY Stacks DEF Leased, Full
<1> QED BY <1>1, <1>2, <1>3, <1>4, Stacks, RemoveLast, Zenon

(* What a deferred call does to the stack of its command. *)
LEMMA DeferredPops ==
    ASSUME Typed, StackMatches, NEW r \in Runs, NEW d \in Calls3, Deferred(r, d)
    PROVE  /\ pc[r] = "unwind"
           /\ env' = env /\ call' = call /\ traceFile' = traceFile /\ overran' = overran
           /\ outcome' = outcome
           /\ d = "audit" => /\ defers[r] = Audited
                             /\ defers' = [defers EXCEPT ![r] = Bare]
                             /\ pc' = [pc EXCEPT ![r] = "returned"]
           /\ d = "release" => /\ defers[r] = Leased
                               /\ defers' = [defers EXCEPT ![r] = Audited]
                               /\ pc' = pc
           /\ d = "stop" => \/ /\ defers[r] = Metered
                               /\ defers' = [defers EXCEPT ![r] = Audited]
                               /\ pc' = pc
                            \/ /\ defers[r] = Full
                               /\ defers' = [defers EXCEPT ![r] = Leased]
                               /\ pc' = pc
<1>0. /\ env' = env /\ call' = call /\ traceFile' = traceFile /\ overran' = overran
      /\ outcome' = outcome
  BY DEF Deferred, given
<1>1. /\ pc[r] = "unwind" /\ defers[r][Len(defers[r])] = d
      /\ defers' = [defers EXCEPT ![r] = RemoveAt(defers[r], Len(defers[r]))]
      /\ pc' = [pc EXCEPT ![r] = IF Len(defers[r]) = 1 THEN "returned" ELSE pc[r]]
  BY DEF Deferred, NextDeferred, Typed
<1>2. defers[r] \in {Audited, Leased, Metered, Full}
  BY <1>1 DEF StackMatches
<1>3. pc = [pc EXCEPT ![r] = pc[r]]
  BY DEF Typed
<1>4. "audit" # "release" /\ "audit" # "stop" /\ "release" # "stop"
  OBVIOUS
<1>5. CASE defers[r] = Audited
  <2>1. d = "audit"
    BY <1>1, <1>5, Stacks
  <2> QED BY <1>0, <1>1, <1>4, <1>5, <2>1, Stacks, Popped
<1>6. CASE defers[r] = Leased
  <2>1. d = "release" /\ Len(defers[r]) # 1
    BY <1>1, <1>6, Stacks
  <2> QED BY <1>0, <1>1, <1>3, <1>4, <1>6, <2>1, Popped
<1>7. CASE defers[r] = Metered
  <2>1. d = "stop" /\ Len(defers[r]) # 1
    BY <1>1, <1>7, Stacks
  <2> QED BY <1>0, <1>1, <1>3, <1>4, <1>7, <2>1, Popped
<1>8. CASE defers[r] = Full
  <2>1. d = "stop" /\ Len(defers[r]) # 1
    BY <1>1, <1>8, Stacks
  <2> QED BY <1>0, <1>1, <1>3, <1>4, <1>8, <2>1, Popped
<1> QED BY <1>0, <1>2, <1>5, <1>6, <1>7, <1>8

LEMMA CallsOf == "audit" \in Calls3 /\ "release" \in Calls3 /\ "stop" \in Calls3
  BY DEF Calls3

LEMMA IInvInit == Init => IInv
<1> SUFFICES ASSUME Init PROVE IInv
  OBVIOUS
<1> USE RunManifestAssumption DEF Init
<1>1. Typed
  <2>1. call \in [Runs -> Call]
    OBVIOUS
  <2> QED BY <2>1 DEF Typed, States, Bare
<1>2. StackMatches
  BY DEF StackMatches, Ended, Bare
<1>3. ServerMatches
  BY StacksDiffer DEF ServerMatches, Bare
<1>4. LeaseMatches
  BY StacksDiffer DEF LeaseMatches, Bare
<1>5. TraceMatches
  BY DEF TraceMatches, Whole, HasTrace
<1> QED BY <1>1, <1>2, <1>3, <1>4, <1>5 DEF IInv

(* Where the commands are and what they have deferred. *)
Control == Typed /\ StackMatches

LEMMA DiesControl ==
    ASSUME Control, NEW S \in SUBSET Runs, Dies(S)
    PROVE  Control'
  BY DEF Control, Typed, StackMatches, States, Ended, Dies, Bare, given

LEMMA ControlStep == Control /\ [Next]_vars => Control'
<1> SUFFICES ASSUME Control, [Next]_vars PROVE Control'
  OBVIOUS
<1> USE RunManifestAssumption DEF Control, Typed, StackMatches, States, Ended, GoTo, Return, given,
        runVars
<1>1. ASSUME NEW r \in Runs, Start(r) PROVE Control'
  BY <1>1 DEF Start, Audited, Call
<1>2. ASSUME NEW r \in Runs, ValidateManifest(r) PROVE Control'
  BY <1>2 DEF ValidateManifest
<1>3. ASSUME NEW r \in Runs, ReplayTrace(r) PROVE Control'
  BY <1>3 DEF ReplayTrace
<1>4. ASSUME NEW r \in Runs, Load(r) PROVE Control'
  BY <1>4 DEF Load
<1>5. ASSUME NEW r \in Runs, AcquireLease(r) PROVE Control'
  <2>1. CASE env.coordinated
    <3>1. defers' = [defers EXCEPT ![r] = Leased]
      BY <1>5, <2>1, Pushed DEF AcquireLease, Leases
    <3> QED BY <1>5, <2>1, <3>1 DEF AcquireLease, Leases, Call
  <2>2. CASE ~env.coordinated
    BY <1>5, <2>2 DEF AcquireLease
  <2> QED BY <2>1, <2>2
<1>22. ASSUME NEW r \in Runs, SeizeLease(r) PROVE Control'
  <2>1. defers' = [defers EXCEPT ![r] = Leased]
    BY <1>22, Pushed DEF SeizeLease, Leases
  <2> QED BY <1>22, <2>1 DEF SeizeLease, Leases, Call
<1>6. ASSUME NEW r \in Runs, LeaseError(r) PROVE Control'
  BY <1>6 DEF LeaseError
<1>7. ASSUME NEW r \in Runs, SetupOTelFromEnv(r) PROVE Control'
  BY <1>7 DEF SetupOTelFromEnv
<1>8. ASSUME NEW r \in Runs, StartMetrics(r) PROVE Control'
  <2>1. CASE defers' = defers
    BY <1>8, <2>1 DEF StartMetrics
  <2>2. CASE defers' = [defers EXCEPT ![r] = Append(defers[r], "stop")]
    <3>1. defers' = [defers EXCEPT ![r] = IF env.coordinated THEN Full ELSE Metered]
      BY <1>8, <2>2, Pushed DEF StartMetrics
    <3> QED BY <1>8, <3>1 DEF StartMetrics
  <2> QED BY <1>8, <2>1, <2>2 DEF StartMetrics
<1>9. ASSUME NEW r \in Runs, Serve(r) PROVE Control'
  BY <1>9 DEF Serve
<1>10. ASSUME NEW r \in Runs, RunPlan(r) PROVE Control'
  BY <1>10 DEF RunPlan
<1>11. ASSUME NEW r \in Runs, OpenTrace(r) PROVE Control'
  BY <1>11 DEF OpenTrace
<1>12. ASSUME NEW r \in Runs, WriteTrace(r) PROVE Control'
  BY <1>12 DEF WriteTrace, SaveError
<1>13. ASSUME NEW r \in Runs, ExportAstraGraphAudit(r) PROVE Control'
  BY <1>13 DEF ExportAstraGraphAudit
<1>14. ASSUME NEW r \in Runs, StopServer(r) PROVE Control'
  <2>0. Deferred(r, "stop")
    BY <1>14 DEF StopServer
  <2>1. /\ pc[r] = "unwind" /\ pc' = pc /\ env' = env /\ call' = call
        /\ \/ defers[r] = Metered /\ defers' = [defers EXCEPT ![r] = Audited]
           \/ defers[r] = Full /\ defers' = [defers EXCEPT ![r] = Leased]
    BY <2>0, DeferredPops, CallsOf
  <2>2. srv' \in [Runs -> {"none", "starting", "serving", "shut"}]
        /\ port' \in Runs \cup {NoRun} /\ holders' = holders
    BY <1>14 DEF StopServer
  <2>3. Typed'
    BY <2>1, <2>2
  <2>4. defers[r] = Metered => ~env.coordinated
    BY <2>1, StacksDiffer
  <2>5. defers[r] = Full => env.coordinated
    BY <2>1, StacksDiffer
  <2> QED BY <2>1, <2>3, <2>4, <2>5
<1>15. ASSUME NEW r \in Runs, ReleaseLease(r) PROVE Control'
  BY <1>15, DeferredPops, CallsOf DEF ReleaseLease
<1>16. ASSUME NEW r \in Runs, WriteAudit(r) PROVE Control'
  BY <1>16, DeferredPops, CallsOf DEF WriteAudit
<1>17. ASSUME NEW r \in Runs, Answer(r) PROVE Control'
  BY <1>17 DEF Answer
<1>18. ASSUME NEW r \in Runs, Crash(r) PROVE Control'
  BY <1>18, DiesControl DEF Crash
<1>19. CASE Exit
  BY <1>19, DiesControl DEF Exit
<1>20. ASSUME NEW n \in Namespaces, LeaseExpires(n) PROVE Control'
  BY <1>20 DEF LeaseExpires
<1>21. CASE UNCHANGED vars
  BY <1>21 DEF vars
<1> QED BY <1>1, <1>2, <1>3, <1>4, <1>5, <1>6, <1>7, <1>8, <1>9, <1>10, <1>11, <1>12,
        <1>13, <1>14, <1>15, <1>16, <1>17, <1>18, <1>19, <1>20, <1>21, <1>22
        DEF Next, Step

LEMMA DiesServer ==
    ASSUME Control, ServerMatches, NEW S \in SUBSET Runs, Dies(S)
    PROVE  ServerMatches'
  BY RunManifestAssumption, StacksDiffer
     DEF Control, Typed, StackMatches, ServerMatches, States, Ended, Dies, Bare

LEMMA ServerStep == Control /\ ServerMatches /\ [Next]_vars => ServerMatches'
<1> SUFFICES ASSUME Control, ServerMatches, [Next]_vars PROVE ServerMatches'
  OBVIOUS
<1>c. Control'
  BY ControlStep
<1> USE RunManifestAssumption, StacksDiffer
        DEF Control, Typed, StackMatches, ServerMatches, Ended, GoTo, Return, given, runVars
<1>1. ASSUME NEW r \in Runs, Start(r) PROVE ServerMatches'
  BY <1>1 DEF Start, Audited, Bare
<1>2. ASSUME NEW r \in Runs, ValidateManifest(r) PROVE ServerMatches'
  BY <1>2 DEF ValidateManifest
<1>3. ASSUME NEW r \in Runs, ReplayTrace(r) PROVE ServerMatches'
  BY <1>3 DEF ReplayTrace
<1>4. ASSUME NEW r \in Runs, Load(r) PROVE ServerMatches'
  BY <1>4 DEF Load
<1>5. ASSUME NEW r \in Runs, AcquireLease(r) PROVE ServerMatches'
  <2>1. CASE env.coordinated
    <3>1. defers' = [defers EXCEPT ![r] = Leased] /\ defers[r] = Audited
      BY <1>5, <2>1, Pushed DEF AcquireLease, Leases
    <3> QED BY <1>5, <2>1, <3>1 DEF AcquireLease, Leases
  <2>2. CASE ~env.coordinated
    BY <1>5, <2>2 DEF AcquireLease
  <2> QED BY <2>1, <2>2
<1>22. ASSUME NEW r \in Runs, SeizeLease(r) PROVE ServerMatches'
  <2>1. defers' = [defers EXCEPT ![r] = Leased] /\ defers[r] = Audited
    BY <1>22, Pushed DEF SeizeLease, Leases
  <2> QED BY <1>22, <2>1 DEF SeizeLease, Leases
<1>6. ASSUME NEW r \in Runs, LeaseError(r) PROVE ServerMatches'
  BY <1>6 DEF LeaseError
<1>7. ASSUME NEW r \in Runs, SetupOTelFromEnv(r) PROVE ServerMatches'
  BY <1>7 DEF SetupOTelFromEnv
<1>8. ASSUME NEW r \in Runs, StartMetrics(r) PROVE ServerMatches'
  <2>1. CASE defers' = defers
    BY <1>8, <2>1 DEF StartMetrics
  <2>2. CASE defers' # defers
    <3>1. defers' = [defers EXCEPT ![r] = IF env.coordinated THEN Full ELSE Metered]
      BY <1>8, <2>2, Pushed DEF StartMetrics
    <3> QED BY <1>8, <2>2, <3>1 DEF StartMetrics
  <2> QED BY <2>1, <2>2
<1>9. ASSUME NEW r \in Runs, Serve(r) PROVE ServerMatches'
  BY <1>9 DEF Serve
<1>10. ASSUME NEW r \in Runs, RunPlan(r) PROVE ServerMatches'
  BY <1>10 DEF RunPlan
<1>11. ASSUME NEW r \in Runs, OpenTrace(r) PROVE ServerMatches'
  BY <1>11 DEF OpenTrace
<1>12. ASSUME NEW r \in Runs, WriteTrace(r) PROVE ServerMatches'
  BY <1>12 DEF WriteTrace
<1>13. ASSUME NEW r \in Runs, ExportAstraGraphAudit(r) PROVE ServerMatches'
  BY <1>13 DEF ExportAstraGraphAudit
<1>14. ASSUME NEW r \in Runs, StopServer(r) PROVE ServerMatches'
  BY <1>14, DeferredPops, CallsOf DEF StopServer
<1>15. ASSUME NEW r \in Runs, ReleaseLease(r) PROVE ServerMatches'
  BY <1>15, DeferredPops, CallsOf DEF ReleaseLease
<1>16. ASSUME NEW r \in Runs, WriteAudit(r) PROVE ServerMatches'
  BY <1>16, DeferredPops, CallsOf DEF WriteAudit
<1>17. ASSUME NEW r \in Runs, Answer(r) PROVE ServerMatches'
  BY <1>17 DEF Answer
<1>18. ASSUME NEW r \in Runs, Crash(r) PROVE ServerMatches'
  BY <1>18, DiesServer DEF Crash
<1>19. CASE Exit
  BY <1>19, DiesServer DEF Exit
<1>20. ASSUME NEW n \in Namespaces, LeaseExpires(n) PROVE ServerMatches'
  BY <1>20 DEF LeaseExpires
<1>21. CASE UNCHANGED vars
  BY <1>21 DEF vars
<1> QED BY <1>1, <1>2, <1>3, <1>4, <1>5, <1>6, <1>7, <1>8, <1>9, <1>10, <1>11, <1>12,
        <1>13, <1>14, <1>15, <1>16, <1>17, <1>18, <1>19, <1>20, <1>21, <1>22
        DEF Next, Step

(* The leases of a process that dies stay, its stacks do not. *)
LEMMA DiesLease ==
    ASSUME Control, LeaseMatches, NEW S \in SUBSET Runs, Dies(S)
    PROVE  LeaseMatches'
  BY StacksDiffer DEF Control, Typed, LeaseMatches, Dies, Bare, given

LEMMA LeaseStep == Control /\ LeaseMatches /\ [Next]_vars => LeaseMatches'
<1> SUFFICES ASSUME Control, LeaseMatches, [Next]_vars PROVE LeaseMatches'
  OBVIOUS
<1>c. Control'
  BY ControlStep
<1> USE RunManifestAssumption, StacksDiffer
        DEF Control, Typed, StackMatches, LeaseMatches, Ended, GoTo, Return, given, runVars
<1>g. ASSUME NEW r \in Runs, pc[r] = "lease", Leases(r), UNCHANGED <<given, overran>>,
             env.mode # "redis" \/ holders[call[r].ns] = {}
      PROVE  LeaseMatches'
  <2>1. defers' = [defers EXCEPT ![r] = Leased] /\ defers[r] = Audited
    BY <1>g, Pushed DEF Leases
  <2>2. call[r].ns \in Namespaces /\ env' = env /\ call' = call
    BY <1>g DEF Call
  <2>3. holders' = [holders EXCEPT ![call[r].ns] = @ \cup {r}]
    BY <1>g DEF Leases
  <2>4. ~overran => \A s \in Runs : defers'[s] \in {Leased, Full} => s \in holders'[call[s].ns]
    <3> SUFFICES ASSUME ~overran, NEW s \in Runs, defers'[s] \in {Leased, Full}
                 PROVE  s \in holders'[call[s].ns]
      OBVIOUS
    <3>1. call[s].ns \in Namespaces
      BY DEF Call
    <3> QED BY <2>1, <2>2, <2>3, <3>1
  <2>5. env.mode = "redis" => \A n \in Namespaces : \A x, y \in holders'[n] : x = y
    BY <1>g, <2>2, <2>3
  <2> QED BY <1>g, <2>2, <2>4, <2>5
<1>1. ASSUME NEW r \in Runs, Start(r) PROVE LeaseMatches'
  BY <1>1 DEF Start, Audited, Bare
<1>2. ASSUME NEW r \in Runs, ValidateManifest(r) PROVE LeaseMatches'
  BY <1>2 DEF ValidateManifest
<1>3. ASSUME NEW r \in Runs, ReplayTrace(r) PROVE LeaseMatches'
  BY <1>3 DEF ReplayTrace
<1>4. ASSUME NEW r \in Runs, Load(r) PROVE LeaseMatches'
  BY <1>4 DEF Load
<1>5. ASSUME NEW r \in Runs, AcquireLease(r) PROVE LeaseMatches'
  <2>1. CASE env.coordinated
    <3>1. env.mode # "redis" \/ holders[call[r].ns] = {}
      BY <1>5, <2>1 DEF AcquireLease, LeaseFree
    <3> QED BY <1>5, <1>g, <2>1, <3>1 DEF AcquireLease
  <2>2. CASE ~env.coordinated
    BY <1>5, <2>2 DEF AcquireLease
  <2> QED BY <2>1, <2>2
<1>22. ASSUME NEW r \in Runs, SeizeLease(r) PROVE LeaseMatches'
  BY <1>22, <1>g DEF SeizeLease
<1>6. ASSUME NEW r \in Runs, LeaseError(r) PROVE LeaseMatches'
  BY <1>6 DEF LeaseError
<1>7. ASSUME NEW r \in Runs, SetupOTelFromEnv(r) PROVE LeaseMatches'
  BY <1>7 DEF SetupOTelFromEnv
<1>8. ASSUME NEW r \in Runs, StartMetrics(r) PROVE LeaseMatches'
  <2>1. CASE defers' = defers
    BY <1>8, <2>1 DEF StartMetrics
  <2>2. CASE defers' # defers
    <3>1. /\ defers' = [defers EXCEPT ![r] = IF env.coordinated THEN Full ELSE Metered]
          /\ defers[r] = IF env.coordinated THEN Leased ELSE Audited
      BY <1>8, <2>2, Pushed DEF StartMetrics
    <3> QED BY <1>8, <2>2, <3>1 DEF StartMetrics
  <2> QED BY <2>1, <2>2
<1>9. ASSUME NEW r \in Runs, Serve(r) PROVE LeaseMatches'
  BY <1>9 DEF Serve
<1>10. ASSUME NEW r \in Runs, RunPlan(r) PROVE LeaseMatches'
  BY <1>10 DEF RunPlan
<1>11. ASSUME NEW r \in Runs, OpenTrace(r) PROVE LeaseMatches'
  BY <1>11 DEF OpenTrace
<1>12. ASSUME NEW r \in Runs, WriteTrace(r) PROVE LeaseMatches'
  BY <1>12 DEF WriteTrace
<1>13. ASSUME NEW r \in Runs, ExportAstraGraphAudit(r) PROVE LeaseMatches'
  BY <1>13 DEF ExportAstraGraphAudit
<1>14. ASSUME NEW r \in Runs, StopServer(r) PROVE LeaseMatches'
  BY <1>14, DeferredPops, CallsOf DEF StopServer
<1>15. ASSUME NEW r \in Runs, ReleaseLease(r) PROVE LeaseMatches'
  <2>0. Deferred(r, "release")
    BY <1>15 DEF ReleaseLease
  <2>1. /\ defers[r] = Leased /\ defers' = [defers EXCEPT ![r] = Audited]
        /\ env' = env /\ call' = call /\ overran' = overran
    BY <2>0, DeferredPops, CallsOf
  <2>2. \A n \in Namespaces : holders'[n] \subseteq holders[n] /\ holders[n] \ {r} \subseteq holders'[n]
    BY <1>15 DEF ReleaseLease
  <2> QED BY <2>1, <2>2, <1>c DEF Call
<1>16. ASSUME NEW r \in Runs, WriteAudit(r) PROVE LeaseMatches'
  BY <1>16, DeferredPops, CallsOf DEF WriteAudit
<1>17. ASSUME NEW r \in Runs, Answer(r) PROVE LeaseMatches'
  BY <1>17 DEF Answer
<1>18. ASSUME NEW r \in Runs, Crash(r) PROVE LeaseMatches'
  BY <1>18, DiesLease DEF Crash
<1>19. CASE Exit
  BY <1>19, DiesLease DEF Exit
<1>20. ASSUME NEW n \in Namespaces, LeaseExpires(n) PROVE LeaseMatches'
  <2>1. \A m \in Namespaces : holders'[m] \subseteq holders[m] /\ (m # n => holders'[m] = holders[m])
    BY <1>20 DEF LeaseExpires
  <2>2. ASSUME ~overran', NEW r \in Runs, defers[r] \in {Leased, Full}
        PROVE  r \in holders'[call[r].ns]
    <3>1. Active(r)
      BY <2>2 DEF Active, States
    <3>2. r \in holders[call[r].ns] /\ call[r].ns \in Namespaces
      BY <1>20, <2>2 DEF LeaseExpires, Call
    <3>3. PICK x \in holders[n] : /\ holders' = [holders EXCEPT ![n] = @ \ {x}]
                                  /\ ~Active(x)
      BY <1>20, <2>2 DEF LeaseExpires, Expired
    <3> QED BY <3>1, <3>2, <3>3
  <2>3. env' = env /\ call' = call /\ defers' = defers /\ (overran => overran')
    BY <1>20 DEF LeaseExpires
  <2> QED BY <2>1, <2>2, <2>3, <1>c DEF Call
<1>21. CASE UNCHANGED vars
  BY <1>21 DEF vars
<1> QED BY <1>1, <1>2, <1>3, <1>4, <1>5, <1>6, <1>7, <1>8, <1>9, <1>10, <1>11, <1>12,
        <1>13, <1>14, <1>15, <1>16, <1>17, <1>18, <1>19, <1>20, <1>21, <1>22
        DEF Next, Step

(* The environment and the commands stay, and an overrun is remembered. *)
Kept == env' = env /\ call' = call /\ (overran => overran')

LEMMA Monotone == [Next]_vars => Kept
<1> SUFFICES ASSUME [Next]_vars PROVE Kept
  OBVIOUS
<1> USE DEF given, Kept
<1>1. ASSUME NEW r \in Runs, Start(r) PROVE Kept
  BY <1>1 DEF Start
<1>2. ASSUME NEW r \in Runs, ValidateManifest(r) PROVE Kept
  BY <1>2 DEF ValidateManifest
<1>3. ASSUME NEW r \in Runs, ReplayTrace(r) PROVE Kept
  BY <1>3 DEF ReplayTrace
<1>4. ASSUME NEW r \in Runs, Load(r) PROVE Kept
  BY <1>4 DEF Load
<1>5. ASSUME NEW r \in Runs, AcquireLease(r) PROVE Kept
  BY <1>5 DEF AcquireLease
<1>22. ASSUME NEW r \in Runs, SeizeLease(r) PROVE Kept
  BY <1>22 DEF SeizeLease
<1>6. ASSUME NEW r \in Runs, LeaseError(r) PROVE Kept
  BY <1>6 DEF LeaseError
<1>7. ASSUME NEW r \in Runs, SetupOTelFromEnv(r) PROVE Kept
  BY <1>7 DEF SetupOTelFromEnv
<1>8. ASSUME NEW r \in Runs, StartMetrics(r) PROVE Kept
  BY <1>8 DEF StartMetrics
<1>9. ASSUME NEW r \in Runs, Serve(r) PROVE Kept
  BY <1>9 DEF Serve
<1>10. ASSUME NEW r \in Runs, RunPlan(r) PROVE Kept
  BY <1>10 DEF RunPlan
<1>11. ASSUME NEW r \in Runs, OpenTrace(r) PROVE Kept
  BY <1>11 DEF OpenTrace
<1>12. ASSUME NEW r \in Runs, WriteTrace(r) PROVE Kept
  BY <1>12 DEF WriteTrace
<1>13. ASSUME NEW r \in Runs, ExportAstraGraphAudit(r) PROVE Kept
  BY <1>13 DEF ExportAstraGraphAudit
<1>14. ASSUME NEW r \in Runs, StopServer(r) PROVE Kept
  BY <1>14 DEF StopServer, Deferred
<1>15. ASSUME NEW r \in Runs, ReleaseLease(r) PROVE Kept
  BY <1>15 DEF ReleaseLease, Deferred
<1>16. ASSUME NEW r \in Runs, WriteAudit(r) PROVE Kept
  BY <1>16 DEF WriteAudit, Deferred
<1>17. ASSUME NEW r \in Runs, Answer(r) PROVE Kept
  BY <1>17 DEF Answer
<1>18. ASSUME NEW r \in Runs, Crash(r) PROVE Kept
  BY <1>18 DEF Crash, Dies
<1>19. CASE Exit
  BY <1>19 DEF Exit, Dies
<1>20. ASSUME NEW n \in Namespaces, LeaseExpires(n) PROVE Kept
  BY <1>20 DEF LeaseExpires
<1>21. CASE UNCHANGED vars
  BY <1>21 DEF vars
<1> QED BY <1>1, <1>2, <1>3, <1>4, <1>5, <1>6, <1>7, <1>8, <1>9, <1>10, <1>11, <1>12,
        <1>13, <1>14, <1>15, <1>16, <1>17, <1>18, <1>19, <1>20, <1>21, <1>22
        DEF Next, Step

(* Coordinated runs exclude each other from their lease to its release. *)
LEMMA Exclusion ==
    ASSUME Control, LeaseMatches, Coordinated, NEW r \in Runs, NEW s \in Runs,
           defers[r] \in {Leased, Full}, defers[s] \in {Leased, Full}
    PROVE  r = s
<1>1. r \in holders[call[r].ns] /\ s \in holders[call[s].ns] /\ call[r].ns = call[s].ns
  BY DEF LeaseMatches, Coordinated
<1>2. call[r].ns \in Namespaces
  BY DEF Control, Typed, Call
<1> QED BY <1>1, <1>2 DEF LeaseMatches, Coordinated

(* A process that dies while it saves leaves an incomplete file behind. *)
LEMMA DiesTrace ==
    ASSUME Whole, \A r, s \in Runs : pc[r] = "write" /\ (pc[s] = "write" \/ HasTrace(s)) => r = s,
           NEW S \in SUBSET Runs, Dies(S)
    PROVE  Whole'
<1>1. /\ env' = env /\ outcome' = outcome
      /\ \A r \in Runs : pc'[r] # "crashed" => pc'[r] = pc[r]
      /\ \A r \in S : pc[r] = "write" => pc'[r] = "crashed"
  BY DEF Dies, given, Ended
<1>2. \A r \in Runs : pc'[r] # "crashed" => defers'[r] = defers[r]
  BY DEF Dies, Ended
<1>3. \A r \in Runs : HasTrace(r)' => HasTrace(r) /\ pc'[r] # "crashed"
  BY <1>1, <1>2 DEF HasTrace
<1>4. CASE traceFile' = traceFile
  BY <1>1, <1>3, <1>4 DEF Whole
<1>5. CASE traceFile' # traceFile
  <2>1. PICK r \in S : pc[r] = "write" /\ traceFile' = traceFile \cup {Torn}
    BY <1>5 DEF Dies, Saving
  <2>2. traceFile = {} /\ traceFile' = {Torn}
    BY <2>1 DEF Whole
  <2>3. \A s \in Runs : pc'[s] # "write" /\ ~HasTrace(s)'
    BY <1>1, <1>3, <2>1
  <2> QED BY <1>1, <2>2, <2>3, RunManifestAssumption DEF Whole
<1> QED BY <1>4, <1>5

LEMMA TraceStep == Control /\ LeaseMatches /\ TraceMatches /\ [Next]_vars => TraceMatches'
<1> SUFFICES ASSUME Control, LeaseMatches, TraceMatches, [Next]_vars, Coordinated'
             PROVE  Whole'
  BY DEF TraceMatches
<1>k. Coordinated /\ env' = env
  BY Monotone DEF Coordinated, Kept
<1>w. Whole
  BY <1>k DEF TraceMatches
<1>x. \A r, s \in Runs : /\ pc[r] \in {"open", "write"} \/ HasTrace(r)
                         /\ pc[s] \in {"open", "write"} \/ HasTrace(s)
                         => r = s
  <2>1. \A r \in Runs : pc[r] \in {"open", "write"} \/ HasTrace(r) => defers[r] \in {Leased, Full}
    BY <1>k DEF Control, StackMatches, Coordinated, HasTrace
  <2> QED BY <1>k, <2>1, Exclusion
<1>t. pc \in [Runs -> States] /\ defers \in [Runs -> {Bare, Audited, Leased, Metered, Full}]
  BY DEF Control, Typed
<1>y. outcome \in [Runs -> {"none", "ok", "error"}]
  BY <1>w DEF Whole
(* No command comes to its write, and none has its trace that had not. *)
<1>q. ASSUME traceFile' = traceFile, outcome' \in [Runs -> {"none", "ok", "error"}],
             \A s \in Runs : /\ pc'[s] = "write" => pc[s] = "write"
                             /\ HasTrace(s)' => HasTrace(s)
      PROVE  Whole'
  BY <1>k, <1>w, <1>q DEF Whole
(* So it is when a command moves on, or returns with an error, *)
<1>m. ASSUME NEW r \in Runs, traceFile' = traceFile, NEW l \in States \ {"write", "export", "unwind"},
             \/ GoTo(r, l) /\ outcome' = outcome
             \/ Return(r, "error"),
             \A s \in Runs \ {r} : defers'[s] = defers[s]
      PROVE  Whole'
  <2>1. outcome' \in [Runs -> {"none", "ok", "error"}]
    BY <1>y, <1>m DEF Return
  <2>2. \A s \in Runs \ {r} : pc'[s] = pc[s] /\ outcome'[s] = outcome[s]
    BY <1>t, <1>y, <1>m DEF Return, GoTo
  <2>3. pc'[r] \notin {"write", "export"} /\ (pc'[r] = "unwind" => outcome'[r] = "error")
    BY <1>t, <1>y, <1>m DEF Return, GoTo
  <2>4. ASSUME NEW s \in Runs
        PROVE  (pc'[s] = "write" => pc[s] = "write") /\ (HasTrace(s)' => HasTrace(s))
    BY <1>m, <2>2, <2>3, <2>4 DEF HasTrace
  <2> QED BY <1>q, <1>m, <2>1, <2>4
(* when nothing of it changes, *)
<1>s. ASSUME UNCHANGED <<pc, defers, outcome, traceFile>> PROVE Whole'
  BY <1>k, <1>w, <1>s DEF Whole, HasTrace
(* and when a command without a lease succeeds. *)
<1>v. ASSUME NEW r \in Runs, pc[r] \in {"validate", "replay"}, NEW result \in {"ok", "error"},
             Return(r, result), UNCHANGED <<defers, traceFile>>
      PROVE  Whole'
  <2>1. defers[r] = Audited /\ Audited \notin {Leased, Full}
    BY <1>v, StacksDiffer DEF Control, StackMatches
  <2>2. /\ outcome' \in [Runs -> {"none", "ok", "error"}] /\ pc'[r] = "unwind"
        /\ \A s \in Runs \ {r} : pc'[s] = pc[s] /\ outcome'[s] = outcome[s]
    BY <1>t, <1>y, <1>v DEF Return, GoTo
  <2>3. ASSUME NEW s \in Runs
        PROVE  (pc'[s] = "write" => pc[s] = "write") /\ (HasTrace(s)' => HasTrace(s))
    BY <1>v, <2>1, <2>2 DEF HasTrace
  <2> QED BY <1>q, <1>v, <2>2, <2>3
(* A deferred call that is made leaves a command with no more than it had. *)
<1>d. ASSUME NEW r \in Runs, NEW d \in Calls3, Deferred(r, d) PROVE Whole'
  <2>1. /\ traceFile' = traceFile /\ outcome' = outcome /\ pc[r] = "unwind"
        /\ \A s \in Runs \ {r} : pc'[s] = pc[s] /\ defers'[s] = defers[s]
        /\ pc'[r] \in {"unwind", "returned"}
        /\ defers'[r] \in {Leased, Full} => defers[r] \in {Leased, Full}
    BY <1>d, <1>t, DeferredPops, StacksDiffer DEF Control, Calls3
  <2>2. ASSUME NEW s \in Runs
        PROVE  (pc'[s] = "write" => pc[s] = "write") /\ (HasTrace(s)' => HasTrace(s))
    BY <2>1 DEF HasTrace
  <2> QED BY <1>q, <1>y, <2>1, <2>2
<1>1. ASSUME NEW r \in Runs, Start(r) PROVE Whole'
  <2>1. PICK l \in {"load", "validate", "replay"} : GoTo(r, l)
    BY <1>1 DEF Start, Control, Typed, Call
  <2>2. traceFile' = traceFile /\ outcome' = outcome /\ \A s \in Runs \ {r} : defers'[s] = defers[s]
    BY <1>1, <1>t DEF Start
  <2> QED BY <1>m, <2>1, <2>2 DEF States
<1>2. ASSUME NEW r \in Runs, ValidateManifest(r) PROVE Whole'
  BY <1>2, <1>v DEF ValidateManifest
<1>3. ASSUME NEW r \in Runs, ReplayTrace(r) PROVE Whole'
  BY <1>3, <1>v DEF ReplayTrace
<1>4. ASSUME NEW r \in Runs, Load(r) PROVE Whole'
  BY <1>4, <1>m DEF Load, States
<1>5. ASSUME NEW r \in Runs, AcquireLease(r) \/ SeizeLease(r) PROVE Whole'
  <2>1. GoTo(r, "otel") /\ outcome' = outcome /\ traceFile' = traceFile
    BY <1>5 DEF AcquireLease, SeizeLease
  <2>2. \A s \in Runs \ {r} : defers'[s] = defers[s]
    BY <1>5, <1>t DEF AcquireLease, SeizeLease, Leases
  <2> QED BY <1>m, <2>1, <2>2 DEF States
<1>6. ASSUME NEW r \in Runs, LeaseError(r) PROVE Whole'
  BY <1>6, <1>m DEF LeaseError, States
<1>7. ASSUME NEW r \in Runs, SetupOTelFromEnv(r) PROVE Whole'
  BY <1>7, <1>m DEF SetupOTelFromEnv, States
<1>8. ASSUME NEW r \in Runs, StartMetrics(r) PROVE Whole'
  <2>1. (GoTo(r, "run") /\ outcome' = outcome) \/ Return(r, "error")
    BY <1>8 DEF StartMetrics
  <2>2. traceFile' = traceFile /\ \A s \in Runs \ {r} : defers'[s] = defers[s]
    BY <1>8, <1>t DEF StartMetrics
  <2> QED BY <1>m, <2>1, <2>2 DEF States
<1>9. ASSUME NEW r \in Runs, Serve(r) PROVE Whole'
  BY <1>9, <1>s DEF Serve, runVars
<1>10. ASSUME NEW r \in Runs, RunPlan(r) PROVE Whole'
  BY <1>10, <1>k, <1>w, <1>t DEF RunPlan, Whole, HasTrace, GoTo
<1>11. ASSUME NEW r \in Runs, OpenTrace(r) PROVE Whole'
  <2>1. \A s \in Runs \ {r} : pc[s] # "write" /\ ~HasTrace(s)
    BY <1>11, <1>x DEF OpenTrace
  <2>2. CASE traceFile' = {} /\ GoTo(r, "write") /\ outcome' = outcome
    <3>1. pc'[r] = "write" /\ \A s \in Runs \ {r} : pc'[s] = pc[s]
      BY <1>t, <2>2 DEF GoTo
    <3>2. \A s \in Runs : ~HasTrace(s)'
      BY <1>11, <2>1, <2>2, <3>1 DEF HasTrace, OpenTrace
    <3> QED BY <1>y, <2>2, <3>2 DEF Whole
  <2>3. CASE Return(r, "error") /\ traceFile' = traceFile
    BY <1>11, <1>m, <2>3 DEF OpenTrace, States
  <2> QED BY <1>11, <2>2, <2>3 DEF OpenTrace
<1>12. ASSUME NEW r \in Runs, WriteTrace(r) PROVE Whole'
  <2>1. traceFile = {} /\ \A s \in Runs \ {r} : pc[s] # "write" /\ ~HasTrace(s)
    BY <1>12, <1>x, <1>w DEF WriteTrace, Whole
  <2>2. CASE GoTo(r, "export") /\ outcome' = outcome /\ traceFile' = {r}
    <3>1. pc'[r] = "export" /\ \A s \in Runs \ {r} : pc'[s] = pc[s]
      BY <1>t, <2>2 DEF GoTo
    <3>2. \A s \in Runs \ {r} : pc'[s] # "write" /\ ~HasTrace(s)'
      BY <1>12, <2>1, <2>2, <3>1 DEF HasTrace, WriteTrace
    <3> QED BY <1>y, <2>2, <3>1, <3>2 DEF Whole
  <2>3. CASE SaveError(r) /\ traceFile' = {Torn}
    <3>1. /\ pc'[r] = "unwind" /\ outcome'[r] = "error"
          /\ outcome' \in [Runs -> {"none", "ok", "error"}]
          /\ \A s \in Runs \ {r} : pc'[s] = pc[s] /\ outcome'[s] = outcome[s]
      BY <1>t, <1>y, <2>3 DEF SaveError, Return, GoTo
    <3>2. \A s \in Runs : pc'[s] # "write" /\ ~HasTrace(s)'
      BY <1>12, <2>1, <3>1 DEF HasTrace, WriteTrace
    <3> QED BY <2>3, <3>1, <3>2, RunManifestAssumption DEF Whole
  <2>4. \/ GoTo(r, "export") /\ outcome' = outcome /\ traceFile' = {r}
        \/ SaveError(r) /\ traceFile' = {Torn}
    BY <1>12, <2>1 DEF WriteTrace
  <2> QED BY <2>2, <2>3, <2>4
<1>13. ASSUME NEW r \in Runs, ExportAstraGraphAudit(r) PROVE Whole'
  <2>1. PICK result \in {"ok", "error"} : Return(r, result)
    BY <1>13 DEF ExportAstraGraphAudit
  <2>2. /\ outcome' \in [Runs -> {"none", "ok", "error"}] /\ pc'[r] = "unwind" /\ HasTrace(r)
        /\ \A s \in Runs \ {r} : pc'[s] = pc[s] /\ outcome'[s] = outcome[s]
    BY <1>13, <1>t, <1>y, <2>1 DEF Return, GoTo, ExportAstraGraphAudit, HasTrace
  <2>3. ASSUME NEW s \in Runs
        PROVE  (pc'[s] = "write" => pc[s] = "write") /\ (HasTrace(s)' => HasTrace(s))
    BY <1>13, <2>2 DEF HasTrace, ExportAstraGraphAudit
  <2> QED BY <1>13, <1>q, <2>2, <2>3 DEF ExportAstraGraphAudit
<1>14. ASSUME NEW r \in Runs, StopServer(r) \/ ReleaseLease(r) \/ WriteAudit(r) PROVE Whole'
  BY <1>14, <1>d, CallsOf DEF StopServer, ReleaseLease, WriteAudit
<1>17. ASSUME NEW r \in Runs, Answer(r) PROVE Whole'
  BY <1>17, <1>m DEF Answer, States, Ended
<1>18. ASSUME NEW r \in Runs, Crash(r) PROVE Whole'
  BY <1>18, <1>w, <1>x, DiesTrace DEF Crash
<1>19. CASE Exit
  BY <1>19, <1>w, <1>x, DiesTrace DEF Exit
<1>20. ASSUME NEW n \in Namespaces, LeaseExpires(n) PROVE Whole'
  BY <1>20, <1>s DEF LeaseExpires, runVars
<1>21. CASE UNCHANGED vars
  BY <1>21, <1>s DEF vars, runVars
<1> QED BY <1>1, <1>2, <1>3, <1>4, <1>5, <1>6, <1>7, <1>8, <1>9, <1>10, <1>11, <1>12,
        <1>13, <1>14, <1>17, <1>18, <1>19, <1>20, <1>21
        DEF Next, Step

LEMMA Invariance == Spec => []IInv
<1>1. IInv /\ [Next]_vars => IInv'
  BY ControlStep, ServerStep, LeaseStep, TraceStep DEF IInv, Control
<1> QED BY IInvInit, <1>1, PTL DEF Spec

-----------------------------------------------------------------------------
(* A run coordinated by Redis finds the metrics port free, or bound by a     *)
(* listener that is about to be closed, whatever number of runs there are    *)
(* and whichever processes die (StartMetrics, after acquireLeaseIfEnabled).  *)
THEOREM PortGuarded == Spec => []LeaseGuardsPort
<1>1. ASSUME IInv PROVE LeaseGuardsPort
  <2> SUFFICES ASSUME Coordinated, NEW r \in Runs, pc[r] = "metrics",
                      port # NoRun, srv[port] # "shut"
               PROVE  FALSE
    BY DEF LeaseGuardsPort
  <2>1. port \in Runs /\ srv[port] \in {"starting", "serving"}
    BY <1>1 DEF IInv, Typed, ServerMatches
  <2>2. defers[port] = Full
    <3>1. defers[port] \in {Metered, Full}
      BY <1>1, <2>1 DEF IInv, ServerMatches
    <3>2. defers[port] # Metered
      BY <1>1, <2>1, StacksDiffer
         DEF IInv, Typed, StackMatches, States, Ended, Coordinated
    <3> QED BY <3>1, <3>2
  <2>3. defers[r] = Leased
    BY <1>1 DEF IInv, StackMatches, Coordinated
  <2>4. port = r
    BY <1>1, <2>1, <2>2, <2>3, Exclusion DEF IInv, Control
  <2> QED BY <2>2, <2>3, <2>4, StacksDiffer
<1> QED BY <1>1, Invariance, PTL

(* The trace file of runs coordinated by Redis is whole and, from its save   *)
(* to the release of the lease, that of the run that holds it, whatever      *)
(* number of runs there are and whichever processes die (SaveToFile).        *)
THEOREM TraceWhole == Spec => []TraceFileWhole
<1>1. ASSUME IInv, Coordinated PROVE Cardinality(traceFile \cap Runs) <= 1
  <2>1. CASE traceFile \cap Runs = {}
    BY <2>1, FS_EmptySet
  <2>2. CASE traceFile \cap Runs # {}
    <3>1. PICK r : traceFile \cap Runs = {r}
      BY <1>1, <2>2 DEF IInv, TraceMatches, Whole
    <3>2. Cardinality({r}) = 1
      BY FS_Singleton, Zenon
    <3>3. Cardinality(traceFile \cap Runs) = 1
      BY <3>1, <3>2, Zenon
    <3> QED BY <3>3
  <2> QED BY <2>1, <2>2
<1>2. ASSUME IInv, NEW r \in Runs, KeepsTrace(r) PROVE HasTrace(r)
  <2>1. CASE pc[r] = "export"
    BY <2>1 DEF HasTrace
  <2>2. CASE pc[r] # "export"
    <3>1. /\ pc[r] = "unwind" /\ outcome[r] = "ok" /\ defers[r] \in {Audited, Leased, Metered, Full}
          /\ \E i \in DOMAIN defers[r] : defers[r][i] = "release"
      BY <1>2, <2>2 DEF KeepsTrace, IInv, StackMatches
    <3>2. ~\E i \in DOMAIN Audited : Audited[i] = "release"
      BY DEF Audited
    <3>3. ~\E i \in DOMAIN Metered : Metered[i] = "release"
      BY DEF Metered
    <3> QED BY <3>1, <3>2, <3>3 DEF HasTrace
  <2> QED BY <2>1, <2>2
<1>3. IInv => TraceFileWhole
  BY <1>1, <1>2 DEF IInv, TraceMatches, Whole, TraceFileWhole, Saving
<1> QED BY <1>3, Invariance, PTL

-----------------------------------------------------------------------------
(* A set of naturals that is not empty has a least element. *)
LEMMA LeastNumber ==
    ASSUME NEW T \in SUBSET Nat, T # {}
    PROVE  \E x \in T : \A y \in T : x <= y
<1> DEFINE R == OpToRel(<, Nat)
<1>1. IsWellFoundedOn(R, Nat)
  BY NatLessThanWellFounded
<1>2. \A x, y \in Nat : y < x => <<y, x>> \in R
  BY DEF OpToRel
<1> HIDE DEF R
<1>3. PICK x \in T : \A y \in T : ~(<<y, x>> \in R)
  BY <1>1, WFMin
<1>4. \A y \in T : ~(y < x)
  BY <1>2, <1>3, Zenon
<1> QED BY <1>4

(* The lines of the audit log. *)
LogLine == [run : Runs, status : {"success", "error"},
            form : {"whole", "cut", "unended", "joined"}]

(* The export stops at the first line it cannot decode: what it has read are *)
(* the first lines of the log.                                               *)
LEMMA ExportIsPrefix ==
    ASSUME log \in Seq(LogLine)
    PROVE  /\ DOMAIN ExportJSONLToCSV \subseteq DOMAIN log
           /\ \A i \in DOMAIN ExportJSONLToCSV : ExportJSONLToCSV[i] = log[i]
<1> DEFINE N == Len(log)
           readable(l) == l.form \in {"whole", "unended"}
           P(k) == /\ \A i \in 1..k : readable(log[i])
                   /\ k < N => ~readable(log[k + 1])
           n == CHOOSE k \in 0..N : P(k)
           T == {k \in 0..N : k = N \/ ~readable(log[k + 1])}
<1>1. N \in Nat /\ DOMAIN log = 1..N
  OBVIOUS
<1> HIDE DEF N
<1>2. T \in SUBSET Nat /\ N \in T
  BY <1>1
<1>3. PICK k \in T : \A j \in T : k <= j
  <2> HIDE DEF T
  <2> QED BY <1>2, LeastNumber
<1>4. k \in 0..N /\ P(k)
  <2>1. ASSUME NEW i \in 1..k PROVE readable(log[i])
    <3>1. i - 1 \in 0..N /\ i - 1 < k /\ (i - 1) + 1 = i /\ i - 1 # N
      BY <1>1, <1>3
    <3>2. i - 1 \notin T
      BY <1>2, <1>3, <3>1
    <3> QED BY <3>1, <3>2
  <2>2. k < N => ~readable(log[k + 1])
    BY <1>1, <1>3
  <2> QED BY <1>3, <2>1, <2>2
<1>5. n \in 0..N
  <2> HIDE DEF P
  <2> QED BY <1>4
<1>6. ExportJSONLToCSV = SubSeq(log, 1, n)
  BY DEF ExportJSONLToCSV, N
<1> HIDE DEF n
<1>7. /\ DOMAIN SubSeq(log, 1, n) = 1..n
      /\ \A i \in 1..n : SubSeq(log, 1, n)[i] = log[i]
  <2>1. n \in Nat /\ \A i \in 1..n : log[i] \in LogLine
    <3>1. \A i \in 1..N : log[i] \in LogLine
      BY <1>1
    <3> QED BY <1>1, <1>5, <3>1
  <2>2. /\ SubSeq(log, 1, n) \in Seq(LogLine) /\ Len(SubSeq(log, 1, n)) = n
        /\ \A i \in 1..n : SubSeq(log, 1, n)[i] = log[i]
    BY <2>1, SubSeqProperties
  <2> QED BY <2>2
<1> QED BY <1>1, <1>5, <1>6, <1>7

(* What the commands return and what their callers are told. *)
Reported ==
    /\ outcome \in [Runs -> {"none", "ok", "error"}]
    /\ failed \subseteq Runs
    /\ answer \in [Runs -> {"none", "ok", "error", "lost"}]
    /\ traceFile \subseteq Runs \cup {Torn}
    /\ \A r \in Runs :
         /\ pc[r] \in {"load", "lease", "otel", "metrics", "run", "open", "write", "export"} =>
              call[r].op = "run"
         /\ pc[r] \in {"validate", "replay"} => call[r].op # "run"
         /\ pc[r] \notin Ended \cup {"unwind", "returned"} => outcome[r] = "none"
         /\ pc[r] \notin Ended => answer[r] = "none"
         /\ answer[r] = "ok" => outcome[r] = "ok"
         /\ answer[r] = "error" /\ outcome[r] = "ok" => call[r].host = "cli" /\ r \in failed

(* With its line written a command has returned. *)
LEMMA AuditPops ==
    ASSUME Control, NEW r \in Runs, WriteAudit(r)
    PROVE  /\ pc[r] = "unwind" /\ pc' = [pc EXCEPT ![r] = "returned"]
           /\ UNCHANGED <<call, outcome, failed, answer, traceFile>>
<1>1. Deferred(r, "audit")
  BY DEF WriteAudit
<1>2. UNCHANGED <<call, outcome, failed, answer, traceFile>>
  BY <1>1 DEF Deferred, given
<1>3. pc[r] = "unwind" /\ pc' = [pc EXCEPT ![r] = "returned"]
  BY <1>1, DeferredPops, CallsOf DEF Control
<1> QED BY <1>2, <1>3

(* Nothing is reported before the first command, *)
LEMMA InitReported == Init => Reported
  BY RunManifestAssumption DEF Init, Reported, Ended

(* nor by commands that die with their process: *)
LEMMA DiesReported ==
    ASSUME Control, Reported, NEW S \in SUBSET Runs, Dies(S)
    PROVE  Reported'
  BY DEF Control, Typed, Reported, Ended, Dies, given

(* nor by a deferred call, *)
LEMMA DeferredReported ==
    ASSUME Control, Reported, NEW r \in Runs, NEW d, Deferred(r, d)
    PROVE  Reported'
<1>1. /\ pc[r] = "unwind" /\ UNCHANGED <<call, outcome, failed, answer, traceFile>>
      /\ pc' = [pc EXCEPT ![r] = IF Len(defers[r]) = 1 THEN "returned" ELSE @]
  BY DEF Deferred, given
<1>2. /\ pc'[r] \in {"unwind", "returned"}
      /\ \A s \in Runs : s # r => pc'[s] = pc[s]
  BY <1>1 DEF Control, Typed
<1> QED BY <1>1, <1>2 DEF Reported, Ended

(* and no command returns or is answered twice. *)
LEMMA ReportedStep == Control /\ Reported /\ [Next]_vars => Reported'
<1> SUFFICES ASSUME Control, Reported, [Next]_vars PROVE Reported'
  OBVIOUS
<1> USE DEF Control, Typed, Reported, Ended, GoTo, Return, given, runVars
<1>1. ASSUME NEW r \in Runs, Start(r) PROVE Reported'
  BY <1>1 DEF Start, Call
<1>2. ASSUME NEW r \in Runs, ValidateManifest(r) PROVE Reported'
  BY <1>2 DEF ValidateManifest
<1>3. ASSUME NEW r \in Runs, ReplayTrace(r) PROVE Reported'
  BY <1>3 DEF ReplayTrace
<1>4. ASSUME NEW r \in Runs, Load(r) PROVE Reported'
  BY <1>4 DEF Load
<1>5. ASSUME NEW r \in Runs, AcquireLease(r) PROVE Reported'
  BY <1>5 DEF AcquireLease
<1>22. ASSUME NEW r \in Runs, SeizeLease(r) PROVE Reported'
  BY <1>22 DEF SeizeLease
<1>6. ASSUME NEW r \in Runs, LeaseError(r) PROVE Reported'
  BY <1>6 DEF LeaseError
<1>7. ASSUME NEW r \in Runs, SetupOTelFromEnv(r) PROVE Reported'
  BY <1>7 DEF SetupOTelFromEnv
<1>8. ASSUME NEW r \in Runs, StartMetrics(r) PROVE Reported'
  BY <1>8 DEF StartMetrics
<1>9. ASSUME NEW r \in Runs, Serve(r) PROVE Reported'
  BY <1>9 DEF Serve
<1>10. ASSUME NEW r \in Runs, RunPlan(r) PROVE Reported'
  BY <1>10 DEF RunPlan
<1>11. ASSUME NEW r \in Runs, OpenTrace(r) PROVE Reported'
  BY <1>11 DEF OpenTrace
<1>12. ASSUME NEW r \in Runs, WriteTrace(r) PROVE Reported'
  BY <1>12 DEF WriteTrace, SaveError
<1>13. ASSUME NEW r \in Runs, ExportAstraGraphAudit(r) PROVE Reported'
  BY <1>13 DEF ExportAstraGraphAudit
<1>14. ASSUME NEW r \in Runs, StopServer(r) PROVE Reported'
  BY <1>14, DeferredReported DEF StopServer
<1>15. ASSUME NEW r \in Runs, ReleaseLease(r) PROVE Reported'
  BY <1>15, DeferredReported DEF ReleaseLease
<1>16. ASSUME NEW r \in Runs, WriteAudit(r) PROVE Reported'
  BY <1>16, DeferredReported DEF WriteAudit
<1>17. ASSUME NEW r \in Runs, Answer(r) PROVE Reported'
  BY <1>17 DEF Answer, Told, Call
<1>18. ASSUME NEW r \in Runs, Crash(r) PROVE Reported'
  BY <1>18, DiesReported DEF Crash
<1>19. CASE Exit
  BY <1>19, DiesReported DEF Exit
<1>20. ASSUME NEW n \in Namespaces, LeaseExpires(n) PROVE Reported'
  BY <1>20 DEF LeaseExpires
<1>21. CASE UNCHANGED vars
  BY <1>21 DEF vars
<1> QED BY <1>1, <1>2, <1>3, <1>4, <1>5, <1>6, <1>7, <1>8, <1>9, <1>10, <1>11, <1>12,
        <1>13, <1>14, <1>15, <1>16, <1>17, <1>18, <1>19, <1>20, <1>21, <1>22
        DEF Next, Step

(* The command has returned, or will never. *)
Settled == Ended \cup {"returned"}

(* A line is written for a command that ends with it. *)
Line(r, form) == [run |-> r, status |-> Status(r), form |-> form]

(* WriteAudit, as far as the log sees it. *)
Writes(r) ==
    /\ pc[r] = "unwind" /\ pc' = [pc EXCEPT ![r] = "returned"] /\ outcome' = outcome
    /\ \E form \in {"whole", "cut", "unended"} : log' = LineWritten(Line(r, form))

(* What a command that is settled keeps, and who writes the log. *)
Keeps ==
    /\ \A s \in Runs : pc[s] \in Settled => pc'[s] \in Settled /\ outcome'[s] = outcome[s]
    /\ log' = log \/ \E r \in Runs : Writes(r)

(* A settled command keeps its outcome, and the log is written by a command  *)
(* that settles with it.                                                     *)
LEMMA KeepsStep == Control /\ Reported /\ [Next]_vars => Keeps
<1> SUFFICES ASSUME Control, Reported, [Next]_vars PROVE Keeps
  OBVIOUS
<1> USE DEF Control, Typed, Reported, Keeps, Settled, Ended, GoTo, Return, runVars
<1>1. ASSUME NEW r \in Runs, Start(r) PROVE Keeps
  BY <1>1 DEF Start, Call
<1>2. ASSUME NEW r \in Runs, ValidateManifest(r) PROVE Keeps
  BY <1>2 DEF ValidateManifest
<1>3. ASSUME NEW r \in Runs, ReplayTrace(r) PROVE Keeps
  BY <1>3 DEF ReplayTrace
<1>4. ASSUME NEW r \in Runs, Load(r) PROVE Keeps
  BY <1>4 DEF Load
<1>5. ASSUME NEW r \in Runs, AcquireLease(r) PROVE Keeps
  BY <1>5 DEF AcquireLease
<1>22. ASSUME NEW r \in Runs, SeizeLease(r) PROVE Keeps
  BY <1>22 DEF SeizeLease
<1>6. ASSUME NEW r \in Runs, LeaseError(r) PROVE Keeps
  BY <1>6 DEF LeaseError
<1>7. ASSUME NEW r \in Runs, SetupOTelFromEnv(r) PROVE Keeps
  BY <1>7 DEF SetupOTelFromEnv
<1>8. ASSUME NEW r \in Runs, StartMetrics(r) PROVE Keeps
  BY <1>8 DEF StartMetrics
<1>9. ASSUME NEW r \in Runs, Serve(r) PROVE Keeps
  BY <1>9 DEF Serve
<1>10. ASSUME NEW r \in Runs, RunPlan(r) PROVE Keeps
  BY <1>10 DEF RunPlan
<1>11. ASSUME NEW r \in Runs, OpenTrace(r) PROVE Keeps
  BY <1>11 DEF OpenTrace
<1>12. ASSUME NEW r \in Runs, WriteTrace(r) PROVE Keeps
  BY <1>12 DEF WriteTrace, SaveError
<1>13. ASSUME NEW r \in Runs, ExportAstraGraphAudit(r) PROVE Keeps
  BY <1>13 DEF ExportAstraGraphAudit
<1>14. ASSUME NEW r \in Runs, StopServer(r) PROVE Keeps
  BY <1>14, DeferredPops, CallsOf DEF StopServer, Deferred
<1>15. ASSUME NEW r \in Runs, ReleaseLease(r) PROVE Keeps
  BY <1>15, DeferredPops, CallsOf DEF ReleaseLease, Deferred
<1>16. ASSUME NEW r \in Runs, WriteAudit(r) PROVE Keeps
  <2>1. /\ pc[r] = "unwind" /\ pc' = [pc EXCEPT ![r] = "returned"]
    BY <1>16, AuditPops
  <2>2. outcome' = outcome
    BY <1>16, AuditPops
  <2>3. log' = log \/ Writes(r)
    BY <1>16, <2>1, <2>2 DEF WriteAudit, Writes, Line
  <2> QED BY <2>1, <2>2, <2>3
<1>17. ASSUME NEW r \in Runs, Answer(r) PROVE Keeps
  BY <1>17 DEF Answer
<1>18. ASSUME NEW r \in Runs, Crash(r) PROVE Keeps
  BY <1>18 DEF Crash, Dies
<1>19. CASE Exit
  BY <1>19 DEF Exit, Dies
<1>20. ASSUME NEW n \in Namespaces, LeaseExpires(n) PROVE Keeps
  BY <1>20 DEF LeaseExpires
<1>21. CASE UNCHANGED vars
  BY <1>21 DEF vars
<1> QED BY <1>1, <1>2, <1>3, <1>4, <1>5, <1>6, <1>7, <1>8, <1>9, <1>10, <1>11, <1>12,
        <1>13, <1>14, <1>15, <1>16, <1>17, <1>18, <1>19, <1>20, <1>21, <1>22
        DEF Next, Step

(* The lines of the log are true: each is of another command, which has      *)
(* ended with the outcome it tells.                                          *)
Logged ==
    /\ log \in Seq(LogLine)
    /\ \A i \in DOMAIN log : \A r \in Runs :
          log[i].run = r => log[i].status = Status(r) /\ pc[r] \in Settled
    /\ \A i, j \in DOMAIN log : log[i].run = log[j].run => i = j

(* Lines stay true: the status a line tells is that of a settled command,    *)
(* also after the line has been joined to the next.                          *)
LEMMA LoggedStep ==
    ASSUME Control, Reported, Logged, [Next]_vars
    PROVE  Logged'
<1>1. Keeps
  BY KeepsStep
<1>2. /\ Len(log) \in Nat /\ DOMAIN log = 1..Len(log) /\ log \in Seq(LogLine)
      /\ \A i \in DOMAIN log : log[i] \in LogLine /\ log[i].run \in Runs
  <2>1. log \in Seq(LogLine)
    BY DEF Logged
  <2>2. \A l \in LogLine : l.run \in Runs
    BY DEF LogLine
  <2> QED BY <2>1, <2>2
<1>3. \A i \in DOMAIN log : \A s \in Runs :
         log[i].run = s => /\ log[i].status = Status(s)' /\ pc'[s] \in Settled
                           /\ pc[s] # "unwind"
  <2>1. \A s \in Runs : pc[s] \in Settled => Status(s)' = Status(s)
    BY <1>1 DEF Keeps, Status
  <2> QED BY <1>1, <1>2, <2>1 DEF Logged, Keeps, Settled, Ended
<1>4. CASE log' = log
  BY <1>2, <1>3, <1>4 DEF Logged
<1>5. ASSUME NEW r \in Runs, Writes(r) PROVE Logged'
  <2>1. PICK form \in {"whole", "cut", "unended"} : log' = LineWritten(Line(r, form))
    BY <1>5 DEF Writes
  <2>2. /\ pc[r] = "unwind" /\ pc'[r] = "returned" /\ Status(r)' = Status(r)
        /\ Line(r, form) \in LogLine /\ Line(r, form).run = r /\ Line(r, form).status = Status(r)
    BY <1>5 DEF Writes, Status, Line, LogLine, Control, Typed
  <2>3. CASE log' = Append(log, Line(r, form))
    <3> DEFINE N == Len(log)
    <3>1. /\ log' \in Seq(LogLine) /\ DOMAIN log' = 1..(N + 1) /\ N \in Nat /\ DOMAIN log = 1..N
          /\ log'[N + 1] = Line(r, form) /\ \A i \in 1..N : log'[i] = log[i]
      <4>1. PICK line : line = Line(r, form)
        OBVIOUS
      <4>2. log \in Seq(LogLine) /\ line \in LogLine /\ log' = Append(log, line)
        BY <1>2, <2>2, <2>3, <4>1
      <4> QED BY <4>1, <4>2
    <3> HIDE DEF N
    <3>2. ASSUME NEW i \in 1..(N + 1)
          PROVE  \A s \in Runs : log'[i].run = s => log'[i].status = Status(s)' /\ pc'[s] \in Settled
      <4>1. CASE i \in 1..N
        BY <1>3, <3>1, <4>1
      <4>2. CASE i = N + 1
        BY <2>2, <3>1, <4>2 DEF Settled
      <4> QED BY <3>1, <4>1, <4>2
    <3>3. ASSUME NEW i \in 1..(N + 1), NEW j \in 1..(N + 1), log'[i].run = log'[j].run
          PROVE  i = j
      <4>1. \A k \in 1..N : log'[k].run # r
        BY <1>3, <2>2, <3>1
      <4>2. CASE i \in 1..N /\ j \in 1..N
        BY <3>1, <3>3, <4>2 DEF Logged
      <4>3. CASE i = N + 1 \/ j = N + 1
        BY <2>2, <3>1, <3>3, <4>1, <4>3
      <4> QED BY <3>1, <4>2, <4>3
    <3> QED BY <3>1, <3>2, <3>3 DEF Logged
  <2>4. ASSUME NEW f \in {"joined", "cut"}, log # << >>, log' = [log EXCEPT ![Len(log)].form = f]
        PROVE  Logged'
    <3> DEFINE N == Len(log)
    <3>1. N \in Nat /\ N \in 1..N /\ DOMAIN log = 1..N
      BY <1>2, <2>4
    <3>2. /\ DOMAIN log' = 1..N /\ \A i \in 1..N : i # N => log'[i] = log[i]
          /\ log'[N] = [log[N] EXCEPT !.form = f]
      BY <1>2, <2>4, <3>1
    <3>3. log[N] \in LogLine
      BY <1>2, <3>1
    <3> HIDE DEF N
    <3>4. log'[N] \in LogLine /\ log'[N].run = log[N].run /\ log'[N].status = log[N].status
      BY <3>2, <3>3 DEF LogLine
    <3>5. \A i \in 1..N : log'[i] \in LogLine /\ log'[i].run = log[i].run /\ log'[i].status = log[i].status
      BY <1>2, <3>1, <3>2, <3>4
    <3>6. log' \in Seq(LogLine)
      BY <1>2, <2>4, <3>1, <3>4, ExceptSeq
    <3> QED BY <1>3, <3>1, <3>2, <3>5, <3>6 DEF Logged
  <2> QED BY <2>1, <2>3, <2>4 DEF LineWritten
<1> QED BY <1>1, <1>4, <1>5 DEF Keeps

(* No other run has got to its save. *)
Alone(r) == \A s \in Runs \ {r} : pc[s] \in BeforeSave \/ call[s].op # "run"

(* A run alone finds its own trace in the file. *)
SavedBy(r) ==
    env.traceOutput /\ call[r].op = "run" /\ Alone(r) =>
        /\ pc[r] = "write" => traceFile = {}
        /\ pc[r] = "export" \/ outcome[r] = "ok" => traceFile = {r}

(* The same for every run. *)
Saved == \A r \in Runs : SavedBy(r)

(* A process that dies in the middle of a save tears no file but the one of  *)
(* its own run.                                                              *)
LEMMA DiesSaved ==
    ASSUME Control, Reported, Saved, NEW S \in SUBSET Runs, Dies(S)
    PROVE  Saved'
<1> SUFFICES ASSUME NEW t \in Runs, env'.traceOutput, call'[t].op = "run", Alone(t)'
             PROVE  /\ pc'[t] = "write" => traceFile' = {}
                    /\ pc'[t] = "export" \/ outcome'[t] = "ok" => traceFile' = {t}
  BY DEF Saved, SavedBy
<1>1. /\ env' = env /\ call' = call /\ outcome' = outcome
      /\ \A s \in Runs : pc'[s] # "crashed" => pc'[s] = pc[s]
      /\ \A s \in S : pc[s] = "write" => pc'[s] = "crashed"
  BY DEF Dies, given, Ended
<1>2. Alone(t)
  BY <1>1 DEF Alone, BeforeSave
<1>3. SavedBy(t)
  BY DEF Saved
<1>4. CASE traceFile' = traceFile
  BY <1>1, <1>2, <1>3, <1>4 DEF SavedBy
<1>5. CASE traceFile' # traceFile
  <2>1. PICK s \in S : pc[s] = "write"
    BY <1>5 DEF Dies, Saving
  <2>2. call[s].op = "run" /\ pc[s] \notin BeforeSave /\ outcome[s] = "none"
    BY <2>1 DEF Reported, BeforeSave, Ended
  <2>3. s = t
    BY <1>2, <2>2 DEF Alone
  <2> QED BY <1>1, <2>1, <2>2, <2>3
<1> QED BY <1>4, <1>5

(* The file is opened and written by the run alone, up to its success. *)
LEMMA SavedStep == Control /\ Reported /\ Saved /\ [Next]_vars => Saved'
<1> SUFFICES ASSUME Control, Reported, Saved, [Next]_vars PROVE Saved'
  OBVIOUS
<1>d. ASSUME NEW S \in SUBSET Runs, Dies(S) PROVE Saved'
  BY <1>d, DiesSaved
<1>k. env' = env /\ call' = call
  BY Monotone DEF Kept
(* A command moves without touching the file: it comes neither to its write  *)
(* nor, but from its export, to a success.                                   *)
<1>q. ASSUME NEW r \in Runs, traceFile' = traceFile,
             \A s \in Runs \ {r} : pc'[s] = pc[s] /\ outcome'[s] = outcome[s],
             pc'[r] \in BeforeSave => pc[r] \in BeforeSave,
             call[r].op = "run" /\ env.traceOutput =>
                /\ pc'[r] = "write" => pc[r] = "write"
                /\ pc'[r] = "export" \/ outcome'[r] = "ok" => pc[r] = "export" \/ outcome[r] = "ok"
      PROVE  Saved'
  <2> SUFFICES ASSUME NEW t \in Runs, env.traceOutput, call[t].op = "run", Alone(t)'
               PROVE  /\ pc'[t] = "write" => traceFile' = {}
                      /\ pc'[t] = "export" \/ outcome'[t] = "ok" => traceFile' = {t}
    BY <1>k DEF Saved, SavedBy
  <2>1. Alone(t)
    BY <1>k, <1>q DEF Alone
  <2>2. SavedBy(t)
    BY DEF Saved
  <2> QED BY <1>q, <2>1, <2>2 DEF SavedBy
<1>s. ASSUME UNCHANGED <<pc, outcome, traceFile>> PROVE Saved'
  BY <1>k, <1>s DEF Saved, SavedBy, Alone
(* The commands other than r have nothing to do with the file of r. *)
<1>f. ASSUME NEW r \in Runs, call[r].op = "run", pc[r] \notin BeforeSave, pc'[r] \notin BeforeSave,
             \A s \in Runs \ {r} : pc'[s] = pc[s] /\ outcome'[s] = outcome[s],
             Alone(r) /\ env.traceOutput =>
                /\ pc'[r] = "write" => traceFile' = {}
                /\ pc'[r] = "export" \/ outcome'[r] = "ok" => traceFile' = {r}
      PROVE  Saved'
  <2> SUFFICES ASSUME NEW t \in Runs, env.traceOutput, call[t].op = "run", Alone(t)'
               PROVE  /\ pc'[t] = "write" => traceFile' = {}
                      /\ pc'[t] = "export" \/ outcome'[t] = "ok" => traceFile' = {t}
    BY <1>k DEF Saved, SavedBy
  <2>1. t = r
    BY <1>k, <1>f DEF Alone
  <2>2. Alone(r)
    BY <1>k, <1>f, <2>1 DEF Alone
  <2> QED BY <1>f, <2>1, <2>2
<1> USE <1>k DEF Control, Typed, Reported, Ended, GoTo, Return, BeforeSave, runVars
<1>1. ASSUME NEW r \in Runs, Start(r) PROVE Saved'
  BY <1>1, <1>q DEF Start, Call
<1>2. ASSUME NEW r \in Runs, ValidateManifest(r) PROVE Saved'
  BY <1>2, <1>q DEF ValidateManifest
<1>3. ASSUME NEW r \in Runs, ReplayTrace(r) PROVE Saved'
  BY <1>3, <1>q DEF ReplayTrace
<1>4. ASSUME NEW r \in Runs, Load(r) PROVE Saved'
  BY <1>4, <1>q DEF Load
<1>5. ASSUME NEW r \in Runs, AcquireLease(r) PROVE Saved'
  BY <1>5, <1>q DEF AcquireLease
<1>22. ASSUME NEW r \in Runs, SeizeLease(r) PROVE Saved'
  BY <1>22, <1>q DEF SeizeLease
<1>6. ASSUME NEW r \in Runs, LeaseError(r) PROVE Saved'
  BY <1>6, <1>q DEF LeaseError
<1>7. ASSUME NEW r \in Runs, SetupOTelFromEnv(r) PROVE Saved'
  BY <1>7, <1>q DEF SetupOTelFromEnv
<1>8. ASSUME NEW r \in Runs, StartMetrics(r) PROVE Saved'
  <2>1. /\ pc[r] = "metrics" /\ traceFile' = traceFile
        /\ \/ pc' = [pc EXCEPT ![r] = "run"] /\ outcome' = outcome
           \/ pc' = [pc EXCEPT ![r] = "unwind"] /\ outcome' = [outcome EXCEPT ![r] = "error"]
    BY <1>8 DEF StartMetrics
  <2>2. /\ \A s \in Runs \ {r} : pc'[s] = pc[s] /\ outcome'[s] = outcome[s]
        /\ pc'[r] \in {"run", "unwind"} /\ outcome'[r] \in {outcome[r], "error"}
    BY <2>1
  <2> QED BY <2>1, <2>2, <1>q
<1>9. ASSUME NEW r \in Runs, Serve(r) PROVE Saved'
  BY <1>9, <1>s DEF Serve
<1>10. ASSUME NEW r \in Runs, RunPlan(r) PROVE Saved'
  BY <1>10, <1>q DEF RunPlan
<1>11. ASSUME NEW r \in Runs, OpenTrace(r) PROVE Saved'
  <2>1. call[r].op = "run" /\ pc[r] = "open" /\ outcome[r] = "none"
    BY <1>11 DEF OpenTrace
  <2> QED BY <1>11, <1>f, <2>1 DEF OpenTrace
<1>12. ASSUME NEW r \in Runs, WriteTrace(r) PROVE Saved'
  <2>1. call[r].op = "run" /\ pc[r] = "write" /\ outcome[r] = "none"
    BY <1>12 DEF WriteTrace
  <2>2. Alone(r) /\ env.traceOutput => traceFile = {}
    BY <2>1 DEF Saved, SavedBy
  <2>3. CASE GoTo(r, "export") /\ UNCHANGED outcome
    <3>1. traceFile = {} => traceFile' = {r}
      BY <1>12, <2>3 DEF WriteTrace, SaveError
    <3> QED BY <1>f, <2>1, <2>2, <2>3, <3>1
  <2>4. CASE SaveError(r)
    BY <1>f, <2>1, <2>4 DEF SaveError
  <2> QED BY <1>12, <2>3, <2>4 DEF WriteTrace
<1>13. ASSUME NEW r \in Runs, ExportAstraGraphAudit(r) PROVE Saved'
  BY <1>13, <1>q DEF ExportAstraGraphAudit
<1>14. ASSUME NEW r \in Runs, StopServer(r) PROVE Saved'
  BY <1>14, <1>s, DeferredPops, CallsOf DEF StopServer, Deferred
<1>15. ASSUME NEW r \in Runs, ReleaseLease(r) PROVE Saved'
  BY <1>15, <1>s, DeferredPops, CallsOf DEF ReleaseLease, Deferred
<1>16. ASSUME NEW r \in Runs, WriteAudit(r) PROVE Saved'
  <2>1. /\ pc[r] = "unwind" /\ pc' = [pc EXCEPT ![r] = "returned"]
        /\ UNCHANGED <<call, outcome, failed, answer, traceFile>>
    BY <1>16, AuditPops
  <2>2. /\ traceFile' = traceFile /\ \A s \in Runs \ {r} : pc'[s] = pc[s] /\ outcome'[s] = outcome[s]
        /\ pc'[r] = "returned" /\ outcome'[r] = outcome[r]
    BY <2>1
  <2> QED BY <1>q, <2>2
<1>17. ASSUME NEW r \in Runs, Answer(r) PROVE Saved'
  BY <1>17, <1>q DEF Answer
<1>18. ASSUME NEW r \in Runs, Crash(r) PROVE Saved'
  BY <1>18, <1>d DEF Crash
<1>19. CASE Exit
  BY <1>19, <1>d DEF Exit
<1>20. ASSUME NEW n \in Namespaces, LeaseExpires(n) PROVE Saved'
  BY <1>20, <1>s DEF LeaseExpires
<1>21. CASE UNCHANGED vars
  BY <1>21, <1>s DEF vars
<1> QED BY <1>1, <1>2, <1>3, <1>4, <1>5, <1>6, <1>7, <1>8, <1>9, <1>10, <1>11, <1>12,
        <1>13, <1>14, <1>15, <1>16, <1>17, <1>18, <1>19, <1>20, <1>21, <1>22
        DEF Next, Step

(* What the audit log rests on, besides IInv. *)
Audit == Reported /\ Logged /\ Saved

(* The two are invariants together. *)
LEMMA AuditInvariance == Spec => [](IInv /\ Audit)
<1>1. Init => Audit
  <2> SUFFICES ASSUME Init PROVE Audit
    OBVIOUS
  <2>1. Logged
    <3>1. log = << >> /\ log \in Seq(LogLine) /\ DOMAIN log = {}
      BY DEF Init
    <3> QED BY <3>1 DEF Logged
  <2>2. Saved
    BY DEF Init, Saved, SavedBy
  <2> QED BY <2>1, <2>2, InitReported DEF Audit
<1>2. IInv /\ Audit /\ [Next]_vars => Audit'
  BY ReportedStep, LoggedStep, SavedStep DEF Audit, IInv, Control
<1> QED BY <1>1, <1>2, Invariance, PTL DEF Spec

(* A line of the exported audit log tells the truth about a command that has *)
(* ended: its status, the port it gave back, the trace it saved if no other  *)
(* run got to its save, and what its caller was told (WriteAudit deferred    *)
(* first in RunManifest, ValidateManifest and ReplayTrace of run.go).        *)
THEOREM AuditTrue == Spec => []AuditMatchesRun
<1>1. IInv /\ Audit => AuditMatchesRun
  <2> SUFFICES ASSUME IInv, Audit PROVE AuditMatchesRun
    OBVIOUS
  <2> DEFINE rows == ExportJSONLToCSV
  <2>1. /\ DOMAIN rows \subseteq DOMAIN log /\ \A i \in DOMAIN rows : rows[i] = log[i]
    BY ExportIsPrefix DEF Audit, Logged
  <2> HIDE DEF rows
  <2>2. \A i, j \in DOMAIN rows : rows[i].run = rows[j].run => i = j
    BY <2>1 DEF Audit, Logged
  <2>3. ASSUME NEW i \in DOMAIN rows, NEW r, r = rows[i].run, NEW st, st = rows[i].status
        PROVE  /\ st = Status(r) /\ pc[r] \in Ended \cup {"returned"}
               /\ port = r => srv[r] = "shut"
               /\ st = "success" /\ call[r].op = "run" /\ env.traceOutput
                    /\ (\A s \in Runs \ {r} : pc[s] \in BeforeSave \/ call[s].op # "run")
                  => traceFile = {r}
               /\ answer[r] = "ok" => st = "success"
               /\ answer[r] = "error" /\ st = "success" => call[r].host = "cli" /\ r \in failed
    <3>1. r \in Runs
      <4>1. log[i] \in LogLine
        BY <2>1 DEF Audit, Logged
      <4> QED BY <2>1, <2>3, <4>1 DEF LogLine
    <3>2. st = Status(r) /\ pc[r] \in Settled
      BY <2>1, <2>3, <3>1 DEF Audit, Logged
    <3>3. st = "success" <=> outcome[r] = "ok"
      BY <3>2 DEF Status
    <3>4. port = r => srv[r] = "shut"
      <4>1. defers[r] = Bare
        BY <3>1, <3>2 DEF IInv, StackMatches, Settled
      <4>2. srv[r] \notin {"starting", "serving"} /\ (port = r => srv[r] # "none")
        BY <3>1, <4>1, StacksDiffer DEF IInv, ServerMatches
      <4> QED BY <3>1, <4>2 DEF IInv, Typed
    <3>5. st = "success" /\ call[r].op = "run" /\ env.traceOutput
             /\ (\A s \in Runs \ {r} : pc[s] \in BeforeSave \/ call[s].op # "run")
           => traceFile = {r}
      BY <3>1, <3>3 DEF Audit, Saved, SavedBy, Alone
    <3>6. /\ answer[r] = "ok" => outcome[r] = "ok"
          /\ answer[r] = "error" /\ outcome[r] = "ok" => call[r].host = "cli" /\ r \in failed
      BY <3>1 DEF Audit, Reported
    <3> QED BY <3>2, <3>3, <3>4, <3>5, <3>6 DEF Settled
  <2> QED BY <2>2, <2>3 DEF AuditMatchesRun, rows
<1> QED BY <1>1, AuditInvariance, PTL

(* The environment and the calls are fixed. *)
LEMMA Flags == Spec => [](env \in Settings /\ call \in Calls /\ overran \in BOOLEAN)
<1> DEFINE F == env \in Settings /\ call \in Calls /\ overran \in BOOLEAN
<1>1. Init => F
  BY DEF Init
<1>2. F /\ [Next]_vars => F'
  <2> SUFFICES ASSUME F, [Next]_vars PROVE F'
    OBVIOUS
  <2>1. env' = env /\ call' = call
    BY Monotone DEF Kept
  <2>2. overran' \in BOOLEAN
    <3> USE Zenon
    <3>1. CASE \E n \in Namespaces : LeaseExpires(n)
      BY <3>1 DEF LeaseExpires
    <3>2. ASSUME NEW r \in Runs, Start(r) \/ SeizeLease(r) \/ LeaseError(r) \/ Serve(r)
         PROVE  overran' = overran
      BY <3>2 DEF Start, SeizeLease, LeaseError, Serve
    <3>3. ASSUME NEW r \in Runs, Crash(r) PROVE overran' = overran
      BY <3>3 DEF Crash, Dies
    <3>4. CASE Exit
      BY <3>4 DEF Exit, Dies
    <3>5. ASSUME NEW r \in Runs, Step(r) PROVE overran' = overran
      BY <3>5 DEF Step, ValidateManifest, ReplayTrace, Load, AcquireLease, SetupOTelFromEnv,
         StartMetrics, RunPlan, OpenTrace, WriteTrace, ExportAstraGraphAudit, StopServer,
         ReleaseLease, WriteAudit, Deferred, Answer
    <3>6. CASE UNCHANGED vars
      BY <3>6 DEF vars
    <3> QED BY <3>1, <3>2, <3>3, <3>4, <3>5, <3>6 DEF Next
  <2> QED BY <2>1, <2>2
<1> HIDE DEF F
<1>3. Spec => []F
  BY <1>1, <1>2, PTL DEF Spec
<1> QED BY <1>3 DEF F

(* Commands never defer a call twice, never hold a Redis lease two at a time *)
(* and never write a malformed line: TypeOK of RunManifest, for any number   *)
(* of commands and processes.                                                *)
THEOREM CommandsTypeCorrect == Spec => []TypeOK
<1>1. IInv /\ Audit /\ (env \in Settings /\ call \in Calls /\ overran \in BOOLEAN) => TypeOK
  <2> SUFFICES ASSUME IInv, Audit, env \in Settings, call \in Calls, overran \in BOOLEAN PROVE TypeOK
    OBVIOUS
  <2>1. \A r \in Runs : defers[r] \in Seq({"audit", "release", "stop"}) /\ Len(defers[r]) <= 3
    <3>1. \A d \in {Bare, Audited, Leased, Metered, Full} : d \in Seq(Calls3) /\ Len(d) <= 3
      <4>1. /\ Bare \in Seq(Calls3) /\ Audited \in Seq(Calls3) /\ Leased \in Seq(Calls3)
            /\ Metered \in Seq(Calls3) /\ Full \in Seq(Calls3)
        BY Stacks, Zenon
      <4>2. Len(Bare) <= 3 /\ Len(Audited) <= 3 /\ Len(Leased) <= 3 /\ Len(Metered) <= 3 /\ Len(Full) <= 3
        BY Stacks
      <4> QED BY <4>1, <4>2, Zenon
    <3>2. \A r \in Runs : defers[r] \in {Bare, Audited, Leased, Metered, Full}
      BY DEF IInv, Typed
    <3> QED BY <3>1, <3>2, Zenon DEF Calls3
  <2>2. ASSUME NEW n \in Namespaces
        PROVE  holders[n] \subseteq Runs /\ (env.mode = "redis" => Cardinality(holders[n]) <= 1)
    <3>1. holders[n] \subseteq Runs /\ (env.mode = "redis" => \A r, s \in holders[n] : r = s)
      BY DEF IInv, Typed, LeaseMatches
    <3>2. CASE holders[n] = {}
      BY <3>1, <3>2, FS_EmptySet
    <3>3. CASE holders[n] # {} /\ env.mode = "redis"
      <4>1. PICK r : holders[n] = {r}
        BY <3>1, <3>3
      <4>2. Cardinality({r}) = 1
        BY FS_Singleton, Zenon
      <4>3. Cardinality(holders[n]) = 1
        BY <4>1, <4>2, Zenon
      <4> QED BY <3>1, <4>3
    <3> QED BY <3>1, <3>2, <3>3
  <2>3. /\ pc \in [Runs -> States] /\ port \in Runs \cup {NoRun}
        /\ srv \in [Runs -> {"none", "starting", "serving", "shut"}]
        /\ outcome \in [Runs -> {"none", "ok", "error"}]
        /\ failed \subseteq Runs /\ answer \in [Runs -> {"none", "ok", "error", "lost"}]
        /\ traceFile \subseteq Runs \cup {Torn} /\ log \in Seq(LogLine)
    BY DEF IInv, Typed, Audit, Reported, Logged
  <2> QED BY <2>1, <2>2, <2>3, Zenon DEF TypeOK, States, LogLine
<1> QED BY <1>1, AuditInvariance, Flags, PTL
=============================================================================
