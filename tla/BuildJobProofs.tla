----------------------------- MODULE BuildJobProofs -----------------------------
(***************************************************************************)
(* Proofs about BuildJob, for any number of jobs and plans, any number of  *)
(* lines, any retention, and whether or not jobs are pruned as they run.   *)
(***************************************************************************)
EXTENDS BuildJob, SequenceTheorems, TLAPS

----------------------------------------------------------------------------
(* The inductive invariant                                                 *)

BeforePopen == {"absent", "start", "thread", "popen"}
AfterChild == {"timedout", "detach", "decide", "cancel", "interpret", "succeed"}
AfterDetach == {"decide", "cancel", "interpret", "succeed"}

(* What the status of a job says of the place of its runner. *)
StatusOK(j) ==
    /\ status[j] \in Live => pc[j] \notin {"absent", "start", "ended"}
    /\ status[j] \in Final => pc[j] = "ended"

(* The process starts in Popen and is over wherever the runner leaves the  *)
(* read loop, unless an exception took it from there to the failed report. *)
ChildOK(j) ==
    /\ pc[j] \in BeforePopen => child[j] = "none"
    /\ pc[j] \in AfterChild => child[j] # "running"
    /\ pc[j] \in {"fail", "ended"} /\ child[j] = "running" => j \in raised
    /\ pc[j] = "ended" /\ child[j] = "running" => status[j] \in {"failed", "none"}

(* A process is attached only after Popen and not after the detach, so a   *)
(* cancel that will signal it was marked before the runner decides.        *)
CancelOK(j) ==
    /\ j \in procs => pc[j] \notin BeforePopen \cup AfterDetach
    /\ j \in signalling \cup signalled =>
           /\ j \in cancelled
           /\ pc[j] \notin {"interpret", "succeed"}
           /\ status[j] # "done"

(* Success is found only on an exit 0 with a row of this build, and the    *)
(* metadata name a job only then.                                          *)
SuccessOK(j) ==
    /\ pc[j] = "succeed" \/ status[j] = "done" =>
           child[j] = "exit0" /\ j \in wrote
    /\ j \in lastBuild =>
           /\ pc[j] = "succeed" \/ (pc[j] = "ended" /\ status[j] \in {"done", "none"})
           /\ child[j] # "running"

(* A row is stored only by the process of its build. *)
RowsOK == \A p \in Plans : \A i \in DOMAIN results[p] : results[p][i] \in wrote

JobOK(j) == StatusOK(j) /\ ChildOK(j) /\ CancelOK(j) /\ SuccessOK(j)

IInv == TypeOK /\ RowsOK /\ \A j \in Jobs : JobOK(j)

----------------------------------------------------------------------------
(* Type correctness                                                        *)

(* Storing a row keeps the plan's rows a sequence of jobs within the       *)
(* retention, and adds no job but the one stored.                          *)
LEMMA StoredRows ==
    ASSUME NEW s \in Seq(Jobs), Len(s) <= Retention, NEW j \in Jobs
    PROVE  LET rows == Append(s, j)
               kept == IF Len(rows) > Retention THEN Tail(rows) ELSE rows
           IN  /\ kept \in Seq(Jobs)
               /\ Len(kept) <= Retention
               /\ \A i \in DOMAIN kept :
                      kept[i] = j \/ \E k \in DOMAIN s : kept[i] = s[k]
<1> DEFINE rows == Append(s, j)
           kept == IF Len(rows) > Retention THEN Tail(rows) ELSE rows
<1>1. Retention \in Nat \ {0} /\ Len(s) \in Nat
    BY JobAssumption
<1>2. /\ rows \in Seq(Jobs) /\ Len(rows) = Len(s) + 1
      /\ \A i \in 1..Len(rows) : rows[i] = IF i <= Len(s) THEN s[i] ELSE j
    BY AppendProperties
<1>3. CASE Len(rows) > Retention
    <2>1. rows # <<>>
        BY <1>2
    <2>2. /\ Tail(rows) \in Seq(Jobs) /\ Len(Tail(rows)) = Len(rows) - 1
          /\ \A i \in 1..Len(Tail(rows)) : Tail(rows)[i] = rows[i + 1]
        BY <2>1, <1>2, HeadTailProperties
    <2>3. \A i \in DOMAIN Tail(rows) :
             Tail(rows)[i] = j \/ \E k \in DOMAIN s : Tail(rows)[i] = s[k]
        BY <2>2, <1>2, <1>1
    <2> QED
        BY <1>3, <1>1, <1>2, <2>2, <2>3
<1>4. CASE ~ (Len(rows) > Retention)
    <2>1. \A i \in DOMAIN rows : rows[i] = j \/ \E k \in DOMAIN s : rows[i] = s[k]
        BY <1>2, <1>1
    <2> QED
        BY <1>4, <1>1, <1>2, <2>1
<1> QED
    BY <1>3, <1>4

(* The initial registry is well typed. *)
LEMMA InitType == Init => TypeOK
<1> SUFFICES ASSUME Init PROVE TypeOK
    OBVIOUS
<1>1. <<>> \in Seq(Jobs) /\ Len(<<>>) = 0
    BY EmptySeq
<1>2. /\ results \in [Plans -> Seq(Jobs)]
      /\ \A p \in Plans : Len(results[p]) <= Retention
    BY <1>1, JobAssumption DEF Init
<1> QED
    BY <1>2, JobAssumption DEF Init, TypeOK, RunnerAt

(* Every step keeps the types. *)
LEMMA NextType == TypeOK /\ [Next]_vars => TypeOK'
<1> SUFFICES ASSUME TypeOK, [Next]_vars PROVE TypeOK'
    OBVIOUS
<1> USE JobAssumption DEF TypeOK, Live, Final, RunnerAt, Goto, Update, Stop,
            registryVars, childVars, planVars
<1>1. ASSUME NEW j \in Jobs, PinPlan(j) PROVE TypeOK'
    BY <1>1 DEF PinPlan
<1>2. ASSUME NEW j \in Jobs, StartBuild(j) PROVE TypeOK'
    <2>1. results' = [results EXCEPT ![active] = <<>>]
        BY <1>2 DEF StartBuild
    <2>2. <<>> \in Seq(Jobs) /\ Len(<<>>) = 0
        BY EmptySeq
    <2>3. /\ results' \in [Plans -> Seq(Jobs)]
          /\ \A p \in Plans : Len(results'[p]) <= Retention
        BY <2>1, <2>2
    <2> QED
        BY <1>2, <2>3 DEF StartBuild
<1>3. ASSUME NEW j \in Jobs, Launch(j) PROVE TypeOK'
    BY <1>3 DEF Launch
<1>4. ASSUME NEW j \in Jobs, Popen(j) PROVE TypeOK'
    <2>1. CASE pc[j] = "popen" /\ child' = [child EXCEPT ![j] = "running"]
                 /\ pc' = [pc EXCEPT ![j] = "attach"]
        BY <1>4, <2>1 DEF Popen
    <2>2. CASE pc[j] = "popen" /\ child' = child /\ pc' = [pc EXCEPT ![j] = "fail"]
        BY <1>4, <2>2 DEF Popen
    <2> QED
        BY <1>4, <2>1, <2>2 DEF Popen
<1>5. ASSUME NEW j \in Jobs, AttachProcess(j) PROVE TypeOK'
    BY <1>5 DEF AttachProcess
<1>6. ASSUME NEW j \in Jobs, CheckEarlyCancel(j) PROVE TypeOK'
    BY <1>6 DEF CheckEarlyCancel
<1>7. ASSUME NEW j \in Jobs, CheckTimeout(j) PROVE TypeOK'
    BY <1>7 DEF CheckTimeout
<1>8. ASSUME NEW j \in Jobs, ReadEnd(j) PROVE TypeOK'
    BY <1>8 DEF ReadEnd
<1>9. ASSUME NEW j \in Jobs, TimedOut(j) PROVE TypeOK'
    BY <1>9 DEF TimedOut
<1>10. ASSUME NEW j \in Jobs, DetachProcess(j) PROVE TypeOK'
    BY <1>10 DEF DetachProcess
<1>11. ASSUME NEW j \in Jobs, DecideCancelled(j) PROVE TypeOK'
    BY <1>11 DEF DecideCancelled
<1>12. ASSUME NEW j \in Jobs, ReportCancelled(j) PROVE TypeOK'
    BY <1>12 DEF ReportCancelled
<1>13. ASSUME NEW j \in Jobs, InterpretBuildResult(j) PROVE TypeOK'
    <2>1. \/ pc' = [pc EXCEPT ![j] = "succeed"] /\ lastBuild' = lastBuild \cup {j}
          \/ pc' = [pc EXCEPT ![j] = "fail"] /\ lastBuild' = lastBuild
        BY <1>13, Zenon DEF InterpretBuildResult
    <2>2. UNCHANGED <<registryVars, overdue, lines, childVars, signalling, planOf,
                      active, results, stream, raised>>
        BY <1>13, Zenon DEF InterpretBuildResult
    <2>3. CASE pc' = [pc EXCEPT ![j] = "succeed"] /\ lastBuild' = lastBuild \cup {j}
        BY <2>2, <2>3
    <2>4. CASE pc' = [pc EXCEPT ![j] = "fail"] /\ lastBuild' = lastBuild
        BY <2>2, <2>4
    <2> QED
        BY <2>1, <2>3, <2>4
<1>14. ASSUME NEW j \in Jobs, Report(j) PROVE TypeOK'
    <2>1. CASE /\ pc' = [pc EXCEPT ![j] = "ended"]
               /\ status' = [status EXCEPT ![j] = "done"]
        BY <1>14, <2>1 DEF Report
    <2>2. CASE /\ pc' = [pc EXCEPT ![j] = "ended"]
               /\ status' = [status EXCEPT ![j] = "failed"]
        BY <1>14, <2>2 DEF Report
    <2> QED
        BY <1>14, <2>1, <2>2 DEF Report
<1>15. ASSUME NEW j \in Jobs, ReadLine(j) PROVE TypeOK'
    BY <1>15 DEF ReadLine
<1>16. ASSUME NEW j \in Jobs, TimePasses(j) PROVE TypeOK'
    BY <1>16 DEF TimePasses
<1>17. ASSUME NEW j \in Jobs, StoreResults(j) PROVE TypeOK'
    <2>1. planOf[j] \in Plans /\ results[planOf[j]] \in Seq(Jobs)
            /\ Len(results[planOf[j]]) <= Retention
        OBVIOUS
    <2> DEFINE rows == Append(results[planOf[j]], j)
               kept == IF Len(rows) > Retention THEN Tail(rows) ELSE rows
    <2>2. kept \in Seq(Jobs) /\ Len(kept) <= Retention
        BY <2>1, StoredRows
    <2>3. results' = [results EXCEPT ![planOf[j]] = kept]
        BY <1>17 DEF StoreResults
    <2> HIDE DEF kept
    <2>4. /\ results' \in [Plans -> Seq(Jobs)]
          /\ \A p \in Plans : Len(results'[p]) <= Retention
        BY <2>2, <2>3
    <2> QED
        BY <1>17, <2>4 DEF StoreResults
<1>18. ASSUME NEW j \in Jobs, ChildExits(j) PROVE TypeOK'
    BY <1>18 DEF ChildExits
<1>19. ASSUME NEW j \in Jobs, RequestCancel(j) PROVE TypeOK'
    BY <1>19 DEF RequestCancel
<1>20. ASSUME NEW j \in Jobs, SignalProcess(j) PROVE TypeOK'
    BY <1>20 DEF SignalProcess
<1>21. ASSUME NEW j \in Jobs, PruneJob(j) PROVE TypeOK'
    BY <1>21 DEF PruneJob
<1>22. ASSUME NEW j \in Jobs, OpenStream(j) PROVE TypeOK'
    BY <1>22 DEF OpenStream
<1>23. ASSUME NEW j \in Jobs, StreamPoll(j) PROVE TypeOK'
    BY <1>23 DEF StreamPoll
<1>24. ASSUME NEW p \in Plans, SwitchPlan(p) PROVE TypeOK'
    BY <1>24 DEF SwitchPlan
<1>25. CASE UNCHANGED vars
    BY <1>25 DEF vars
<1>26. ASSUME NEW j \in Jobs, RunnerRaises(j) PROVE TypeOK'
    BY <1>26 DEF RunnerRaises
<1> QED
    BY <1>1, <1>2, <1>3, <1>4, <1>5, <1>6, <1>7, <1>8, <1>9, <1>10, <1>11, <1>12,
       <1>13, <1>14, <1>15, <1>16, <1>17, <1>18, <1>19, <1>20, <1>21, <1>22, <1>23,
       <1>24, <1>25, <1>26 DEF Next, RunnerStep

----------------------------------------------------------------------------
(* The rest of the invariant                                               *)

(* The registry starts with no job at all. *)
LEMMA InitIInv == Init => IInv
<1> SUFFICES ASSUME Init PROVE IInv
    OBVIOUS
<1>1. TypeOK
    BY InitType
<1>2. RowsOK
    BY DEF Init, RowsOK
<1>3. \A j \in Jobs : JobOK(j)
    BY DEF Init, JobOK, StatusOK, ChildOK, CancelOK, SuccessOK, Live, Final,
           AfterChild, AfterDetach, BeforePopen
<1> QED
    BY <1>1, <1>2, <1>3 DEF IInv

(* Only a build's own process puts its row in a plan. *)
LEMMA NextRows == TypeOK /\ RowsOK /\ [Next]_vars => RowsOK'
<1> SUFFICES ASSUME TypeOK, RowsOK, [Next]_vars PROVE RowsOK'
    OBVIOUS
<1> USE DEF RowsOK, registryVars, childVars, planVars
<1>1. ASSUME NEW j \in Jobs, StartBuild(j) PROVE RowsOK'
    <2>1. active \in Plans /\ results \in [Plans -> Seq(Jobs)]
        BY DEF TypeOK
    <2>2. results' = [results EXCEPT ![active] = <<>>] /\ wrote' = wrote
        BY <1>1 DEF StartBuild
    <2> QED
        BY <2>1, <2>2
<1>2. ASSUME NEW j \in Jobs, StoreResults(j) PROVE RowsOK'
    <2>1. planOf[j] \in Plans /\ results \in [Plans -> Seq(Jobs)]
            /\ Len(results[planOf[j]]) <= Retention
        BY DEF TypeOK
    <2> DEFINE rows == Append(results[planOf[j]], j)
               kept == IF Len(rows) > Retention THEN Tail(rows) ELSE rows
    <2>2. \A i \in DOMAIN kept :
             \/ kept[i] = j
             \/ \E k \in DOMAIN results[planOf[j]] : kept[i] = results[planOf[j]][k]
        BY <2>1, StoredRows
    <2>3. results' = [results EXCEPT ![planOf[j]] = kept] /\ wrote' = wrote \cup {j}
        BY <1>2 DEF StoreResults
    <2> HIDE DEF kept
    <2> QED
        BY <2>1, <2>2, <2>3
<1>3. CASE UNCHANGED <<results, wrote>>
    BY <1>3
<1>4. ASSUME NEW j \in Jobs,
             \/ PinPlan(j) \/ ReadLine(j) \/ TimePasses(j) \/ ChildExits(j)
             \/ RequestCancel(j) \/ SignalProcess(j) \/ PruneJob(j)
             \/ OpenStream(j) \/ StreamPoll(j) \/ RunnerStep(j) \/ RunnerRaises(j)
      PROVE  UNCHANGED <<results, wrote>>
    BY <1>4, Zenon
       DEF PinPlan, RunnerStep, Launch, Popen, AttachProcess, CheckEarlyCancel,
           CheckTimeout, ReadEnd, TimedOut, DetachProcess, DecideCancelled,
           ReportCancelled, InterpretBuildResult, Report, ReadLine, TimePasses,
           ChildExits, RequestCancel, SignalProcess, PruneJob, OpenStream, StreamPoll,
           RunnerRaises
<1>5. ASSUME NEW p \in Plans, SwitchPlan(p) PROVE UNCHANGED <<results, wrote>>
    BY <1>5 DEF SwitchPlan
<1>6. CASE UNCHANGED vars
    BY <1>6 DEF vars
<1> QED
    BY <1>1, <1>2, <1>3, <1>4, <1>5, <1>6 DEF Next

(* Every step keeps what the invariant says of each job. *)
LEMMA NextJob ==
    ASSUME IInv, [Next]_vars, NEW k \in Jobs
    PROVE  JobOK(k)'
<1> USE DEF TypeOK, Live, Final, RunnerAt, Goto, Update, Stop, registryVars,
            childVars, planVars, JobOK, StatusOK, ChildOK, CancelOK, SuccessOK, AfterChild,
            AfterDetach, BeforePopen
<1>0. TypeOK /\ JobOK(k)
    BY DEF IInv
<1>1. ASSUME NEW j \in Jobs, PinPlan(j) PROVE JobOK(k)'
    BY <1>0, <1>1 DEF PinPlan
<1>2. ASSUME NEW j \in Jobs, StartBuild(j) PROVE JobOK(k)'
    BY <1>0, <1>2 DEF StartBuild
<1>3. ASSUME NEW j \in Jobs, Launch(j) PROVE JobOK(k)'
    BY <1>0, <1>3 DEF Launch
<1>4. ASSUME NEW j \in Jobs, Popen(j) PROVE JobOK(k)'
    BY <1>0, <1>4 DEF Popen
<1>5. ASSUME NEW j \in Jobs, AttachProcess(j) PROVE JobOK(k)'
    BY <1>0, <1>5 DEF AttachProcess
<1>6. ASSUME NEW j \in Jobs, CheckEarlyCancel(j) PROVE JobOK(k)'
    BY <1>0, <1>6 DEF CheckEarlyCancel
<1>7. ASSUME NEW j \in Jobs, CheckTimeout(j) PROVE JobOK(k)'
    BY <1>0, <1>7 DEF CheckTimeout
<1>8. ASSUME NEW j \in Jobs, ReadEnd(j) PROVE JobOK(k)'
    BY <1>0, <1>8 DEF ReadEnd
<1>9. ASSUME NEW j \in Jobs, TimedOut(j) PROVE JobOK(k)'
    BY <1>0, <1>9 DEF TimedOut
<1>10. ASSUME NEW j \in Jobs, DetachProcess(j) PROVE JobOK(k)'
    BY <1>0, <1>10 DEF DetachProcess
<1>11. ASSUME NEW j \in Jobs, DecideCancelled(j) PROVE JobOK(k)'
    BY <1>0, <1>11 DEF DecideCancelled
<1>12. ASSUME NEW j \in Jobs, ReportCancelled(j) PROVE JobOK(k)'
    BY <1>0, <1>12 DEF ReportCancelled
<1>13. ASSUME NEW j \in Jobs, InterpretBuildResult(j) PROVE JobOK(k)'
    <2>1. InRows(j, results[active]) => j \in wrote
        BY DEF IInv, RowsOK, InRows
    <2>2. /\ pc[j] = "interpret"
          /\ \/ /\ pc' = [pc EXCEPT ![j] = "succeed"]
                /\ lastBuild' = lastBuild \cup {j}
                /\ child[j] = "exit0" /\ InRows(j, results[active])
             \/ pc' = [pc EXCEPT ![j] = "fail"] /\ lastBuild' = lastBuild
        BY <1>13, Zenon DEF InterpretBuildResult
    <2>3. UNCHANGED <<registryVars, childVars, signalling, raised>>
        BY <1>13, Zenon DEF InterpretBuildResult
    <2>4. CASE /\ pc' = [pc EXCEPT ![j] = "succeed"]
               /\ lastBuild' = lastBuild \cup {j}
               /\ child[j] = "exit0" /\ InRows(j, results[active])
        BY <1>0, <2>1, <2>2, <2>3, <2>4
    <2>5. CASE pc' = [pc EXCEPT ![j] = "fail"] /\ lastBuild' = lastBuild
        BY <1>0, <2>2, <2>3, <2>5
    <2> QED
        BY <2>2, <2>4, <2>5
<1>14. ASSUME NEW j \in Jobs, Report(j) PROVE JobOK(k)'
    BY <1>0, <1>14 DEF Report
<1>15. ASSUME NEW j \in Jobs, ReadLine(j) PROVE JobOK(k)'
    BY <1>0, <1>15 DEF ReadLine
<1>16. ASSUME NEW j \in Jobs, TimePasses(j) PROVE JobOK(k)'
    BY <1>0, <1>16 DEF TimePasses
<1>17. ASSUME NEW j \in Jobs, StoreResults(j) PROVE JobOK(k)'
    BY <1>0, <1>17 DEF StoreResults
<1>18. ASSUME NEW j \in Jobs, ChildExits(j) PROVE JobOK(k)'
    BY <1>0, <1>18 DEF ChildExits
<1>19. ASSUME NEW j \in Jobs, RequestCancel(j) PROVE JobOK(k)'
    BY <1>0, <1>19 DEF RequestCancel
<1>20. ASSUME NEW j \in Jobs, SignalProcess(j) PROVE JobOK(k)'
    BY <1>0, <1>20 DEF SignalProcess
<1>21. ASSUME NEW j \in Jobs, PruneJob(j) PROVE JobOK(k)'
    BY <1>0, <1>21 DEF PruneJob
<1>22. ASSUME NEW j \in Jobs, OpenStream(j) PROVE JobOK(k)'
    BY <1>0, <1>22 DEF OpenStream
<1>23. ASSUME NEW j \in Jobs, StreamPoll(j) PROVE JobOK(k)'
    BY <1>0, <1>23 DEF StreamPoll
<1>24. ASSUME NEW p \in Plans, SwitchPlan(p) PROVE JobOK(k)'
    BY <1>0, <1>24 DEF SwitchPlan
<1>25. CASE UNCHANGED vars
    BY <1>0, <1>25 DEF vars
<1>26. ASSUME NEW j \in Jobs, RunnerRaises(j) PROVE JobOK(k)'
    BY <1>0, <1>26 DEF RunnerRaises
<1> QED
    BY <1>1, <1>2, <1>3, <1>4, <1>5, <1>6, <1>7, <1>8, <1>9, <1>10, <1>11, <1>12,
       <1>13, <1>14, <1>15, <1>16, <1>17, <1>18, <1>19, <1>20, <1>21, <1>22, <1>23,
       <1>24, <1>25, <1>26 DEF Next, RunnerStep

----------------------------------------------------------------------------
(* The theorems                                                            *)

(* The invariant is inductive, so it holds in every reachable state. *)
THEOREM Invariance == Spec => []IInv
<1>1. Init => IInv
    BY InitIInv
<1>2. IInv /\ [Next]_vars => IInv'
    <2> SUFFICES ASSUME IInv, [Next]_vars PROVE IInv'
        OBVIOUS
    <2>1. TypeOK'
        BY NextType DEF IInv
    <2>2. RowsOK'
        BY NextRows DEF IInv
    <2>3. \A j \in Jobs : JobOK(j)'
        BY NextJob
    <2> QED
        BY <2>1, <2>2, <2>3 DEF IInv
<1> QED
    BY <1>1, <1>2, PTL DEF Spec

(* The registry's tables and the runners' places keep their types, and no  *)
(* plan ever holds more results than BuildResultsRepo.put retains.         *)
THEOREM Typed == Spec => []TypeOK
<1>1. IInv => TypeOK
    BY DEF IInv
<1> QED
    BY <1>1, Invariance, PTL

(* However many builds overlap and whatever plans the user switches to, a  *)
(* job reported done exited 0 and stored its own results.                  *)
THEOREM DoneIsBuilt == Spec => []DoneMeansBuilt
<1>1. IInv => DoneMeansBuilt
    BY DEF IInv, JobOK, SuccessOK, DoneMeansBuilt
<1> QED
    BY <1>1, Invariance, PTL

(* A job whose process a cancel signalled is never reported done: the mark *)
(* request_cancel makes under the lock is there before the runner, which   *)
(* has still to detach the process, looks for it.                          *)
THEOREM SignalledIsNeverDone == Spec => []SignalledNeverDone
<1>1. IInv => SignalledNeverDone
    BY DEF IInv, TypeOK, JobOK, CancelOK, SignalledNeverDone
<1> QED
    BY <1>1, Invariance, PTL

(* A process outlives its job only after an exception in the runner, and   *)
(* then the job was reported failed and is not the last build; on every    *)
(* other way out of run_build_progress_job the process has ended first.    *)
THEOREM NoOrphanBuild == Spec => []NoBuildOutlivesItsJob
<1>1. ASSUME IInv, NEW j \in Jobs, pc[j] = "ended" \/ status[j] \in Final,
             child[j] = "running"
      PROVE  j \in raised \ lastBuild /\ status[j] \in {"failed", "none"}
    <2>1. JobOK(j) /\ pc[j] = "ended"
        BY <1>1 DEF IInv, JobOK, StatusOK
    <2>2. j \in raised /\ status[j] \in {"failed", "none"}
        BY <1>1, <2>1 DEF JobOK, ChildOK
    <2>3. j \notin lastBuild
        BY <1>1, <2>1, <2>2 DEF JobOK, SuccessOK
    <2> QED
        BY <2>2, <2>3
<1>2. IInv => NoBuildOutlivesItsJob
    BY <1>1 DEF NoBuildOutlivesItsJob
<1> QED
    BY <1>2, Invariance, PTL

(* write_last_build_metadata never names a build reported failed or        *)
(* cancelled.                                                              *)
THEOREM LastBuildDone == Spec => []LastBuildSucceeded
<1>1. IInv => LastBuildSucceeded
    BY DEF IInv, TypeOK, JobOK, StatusOK, SuccessOK, LastBuildSucceeded, Final
<1> QED
    BY <1>1, Invariance, PTL

(* Once the registry shows a final status, or a finished job was pruned,   *)
(* no late line, cancel or report brings another status.                   *)
THEOREM FinalStays == Spec => FinalIsFinal
<1> DEFINE Over(j) == status[j] \in Final \/ (status[j] = "none" /\ pc[j] = "ended")
<1>1. ASSUME IInv, [Next]_vars, NEW k \in Jobs, Over(k)
      PROVE  status'[k] \in {status[k], "none"}
    <2>1. /\ pc[k] = "ended" /\ status[k] \notin Live
          /\ status \in [Jobs -> Live \cup Final \cup {"none"}]
        BY <1>1 DEF IInv, JobOK, StatusOK, Live, Final, TypeOK
    <2> USE DEF Goto, Update, registryVars
    <2>2. ASSUME NEW j \in Jobs,
                 \/ PinPlan(j) \/ StartBuild(j) \/ ReadLine(j) \/ TimePasses(j)
                 \/ StoreResults(j) \/ ChildExits(j) \/ RequestCancel(j)
                 \/ SignalProcess(j) \/ OpenStream(j) \/ StreamPoll(j)
                 \/ RunnerRaises(j)
          PROVE  status'[k] = status[k]
        BY <2>1, <2>2 DEF PinPlan, StartBuild, ReadLine, TimePasses, StoreResults,
           ChildExits, RequestCancel, SignalProcess, OpenStream, StreamPoll, RunnerRaises
    <2>3. ASSUME NEW j \in Jobs, RunnerStep(j) PROVE status'[k] = status[k]
        <3>1. CASE InterpretBuildResult(j)
            BY <3>1, Zenon DEF InterpretBuildResult
        <3>2. CASE Report(j)
            BY <2>1, <3>2 DEF Report
        <3>3. CASE ~ InterpretBuildResult(j) /\ ~ Report(j)
            BY <2>1, <2>3, <3>3 DEF RunnerStep, Launch, Popen, AttachProcess,
               CheckEarlyCancel, CheckTimeout, ReadEnd, TimedOut, DetachProcess,
               DecideCancelled, ReportCancelled
        <3> QED
            BY <3>1, <3>2, <3>3
    <2>4. ASSUME NEW j \in Jobs, PruneJob(j) PROVE status'[k] \in {status[k], "none"}
        BY <2>1, <2>4 DEF PruneJob
    <2>5. ASSUME NEW p \in Plans, SwitchPlan(p) PROVE status'[k] = status[k]
        BY <2>5 DEF SwitchPlan
    <2>6. CASE UNCHANGED vars
        BY <2>6 DEF vars
    <2> QED
        BY <1>1, <2>2, <2>3, <2>4, <2>5, <2>6 DEF Next
<1>2. IInv /\ [Next]_vars
         => [\A j \in Jobs : Over(j) => status'[j] \in {status[j], "none"}]_vars
    BY <1>1
<1> QED
    BY <1>2, Invariance, PTL DEF Spec, FinalIsFinal
================================================================================
