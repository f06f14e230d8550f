-------------------------------- MODULE BuildJob --------------------------------
(***************************************************************************)
(* Workbook builds: the in-memory job registry, the runner thread of each  *)
(* job, its build process, the cancel request and the event stream         *)
(* (src/server_services/build_job_service.py, with the routes of           *)
(* src/server/workbook_routes.py and interpret_build_result of             *)
(* src/server_services/build_service.py).                                  *)
(*                                                                         *)
(* Runner threads, request handlers and build processes interleave; every  *)
(* registry call holds the registry's lock, so each is one step, and the   *)
(* runner of run_build_progress_job takes one step between any two of      *)
(* them.  Time appears as two choices: a job may be past its time limit    *)
(* (overdue), and a registry entry may be old enough to prune.             *)
(***************************************************************************)
EXTENDS FiniteSets, Sequences, Naturals

CONSTANTS
    Jobs,        \* builds asked for through /api/build/start
    Plans,       \* plan files the user may switch between
    Watched,     \* the jobs whose event stream somebody opens
    MaxLines,    \* bound on the lines a build prints
    Retention,   \* rows build_results keeps
    SilentHour   \* whether an hour may pass without a line from a build

ASSUME JobAssumption ==
    /\ Plans # {}
    /\ Watched \subseteq Jobs
    /\ MaxLines \in Nat
    /\ Retention \in Nat \ {0}
    /\ SilentHour \in BOOLEAN

VARIABLES
    status,      \* job -> the registry entry's status, "none" without an entry
    procs,       \* the jobs with a process attached (registry._procs)
    cancelled,   \* the jobs cancel was requested for (registry._cancelled)
    pc,          \* job -> where its runner thread (or its start request) is
    overdue,     \* the jobs past timeout_seconds
    lines,       \* job -> lines read from the process so far
    child,       \* job -> its build process
    wrote,       \* the jobs whose process stored its results
    signalling,  \* cancel requests that hold the process, lock released
    signalled,   \* the jobs whose process terminate() was called on
    planOf,      \* job -> the plan file its process was given
    active,      \* the active plan file
    results,     \* plan -> the build_results rows, oldest first
    lastBuild,   \* last_build metadata: the jobs it has named
    stream,      \* job -> its event stream
    raised       \* history: the jobs whose runner an exception took out of the
                 \* read loop, or out of what follows it

registryVars == <<status, procs, cancelled>>
childVars == <<child, wrote, signalled>>
planVars == <<planOf, active, results, lastBuild>>
vars == <<registryVars, pc, overdue, lines, childVars, signalling, planVars, stream,
          raised>>

Live == {"starting", "running"}
Final == {"done", "failed", "cancelled"}
RunnerAt == {"absent", "start", "thread", "popen", "attach", "check", "top",
             "readline", "timedout", "detach", "decide", "cancel", "interpret",
             "succeed", "fail", "ended"}

Init ==
    /\ status = [j \in Jobs |-> "none"]
    /\ procs = {}
    /\ cancelled = {}
    /\ pc = [j \in Jobs |-> "absent"]
    /\ overdue = {}
    /\ lines = [j \in Jobs |-> 0]
    /\ child = [j \in Jobs |-> "none"]
    /\ wrote = {}
    /\ signalling = {}
    /\ signalled = {}
    /\ active \in Plans
    /\ planOf = [j \in Jobs |-> active]
    /\ results = [p \in Plans |-> <<>>]
    /\ lastBuild = {}
    /\ stream = [j \in Jobs |-> "closed"]
    /\ raised = {}

Goto(j, from, to) == pc[j] = from /\ pc' = [pc EXCEPT ![j] = to]

\* registry.update(j, status=s, ...): an entry that was pruned comes back.
Update(j, s) ==
    /\ status' = [status EXCEPT ![j] = s]
    /\ UNCHANGED <<procs, cancelled>>

\* terminate() or kill() of j's process; an ended process is left alone.
Stop(j) ==
    child' = [child EXCEPT ![j] = IF @ = "running" THEN "stopped" ELSE @]

InRows(j, rows) == \E i \in DOMAIN rows : rows[i] = j

----------------------------------------------------------------------------
(* The start request                                                       *)

\* plan_db_env: the process will build the plan that is active now.
PinPlan(j) ==
    /\ Goto(j, "absent", "start")
    /\ planOf' = [planOf EXCEPT ![j] = active]
    /\ UNCHANGED <<registryVars, overdue, lines, childVars, signalling, active,
                   results, lastBuild, stream, raised>>

\* _clear_current_build_outputs of the plan active by now, then create().
StartBuild(j) ==
    /\ Goto(j, "start", "thread")
    /\ results' = [results EXCEPT ![active] = <<>>]
    /\ Update(j, "starting")
    /\ UNCHANGED <<overdue, lines, childVars, signalling, planOf, active,
                   lastBuild, stream, raised>>

SwitchPlan(p) ==
    /\ p # active
    /\ active' = p
    /\ UNCHANGED <<registryVars, pc, overdue, lines, childVars, signalling,
                   planOf, results, lastBuild, stream, raised>>

----------------------------------------------------------------------------
(* The runner thread: run_build_progress_job                               *)

Launch(j) ==
    /\ Goto(j, "thread", "popen")
    /\ Update(j, "running")
    /\ UNCHANGED <<overdue, lines, childVars, signalling, planVars, stream,
                   raised>>

Popen(j) ==
    /\ \/ /\ Goto(j, "popen", "attach")
          /\ child' = [child EXCEPT ![j] = "running"]
       \/ /\ Goto(j, "popen", "fail")   \* the process cannot be started
          /\ UNCHANGED child
    /\ UNCHANGED <<registryVars, overdue, lines, wrote, signalled, signalling,
                   planVars, stream, raised>>

\* Any exception after Popen: the job will be reported failed, and its process,
\* if it runs, is left running.
RunnerRaises(j) ==
    /\ pc[j] \in {"attach", "check", "top", "readline", "decide", "cancel"}
    /\ Goto(j, pc[j], "fail")
    /\ raised' = raised \cup {j}
    /\ UNCHANGED <<registryVars, overdue, lines, childVars, signalling, planVars,
                   stream>>

AttachProcess(j) ==
    /\ Goto(j, "attach", "check")
    /\ procs' = procs \cup {j}
    /\ UNCHANGED <<status, cancelled, overdue, lines, childVars, signalling,
                   planVars, stream, raised>>

\* Mutant: a cancel from before the process was attached is not looked for.
SkipEarlyCancel(j) ==
    /\ Goto(j, "check", "top")
    /\ UNCHANGED <<registryVars, overdue, lines, childVars, signalling, planVars,
                   stream, raised>>

CheckEarlyCancel(j) ==
    /\ Goto(j, "check", "top")
    /\ IF j \in cancelled
       THEN Stop(j) /\ signalled' = signalled \cup {j}
       ELSE UNCHANGED <<child, signalled>>
    /\ UNCHANGED <<registryVars, overdue, lines, wrote, signalling, planVars,
                   stream, raised>>

\* Mutant: the process of a build that is out of time is left running.
TimeoutWithoutKill(j) ==
    /\ IF j \in overdue THEN Goto(j, "top", "timedout") ELSE Goto(j, "top", "readline")
    /\ UNCHANGED <<registryVars, overdue, lines, childVars, signalling, planVars,
                   stream, raised>>

CheckTimeout(j) ==
    /\ IF j \in overdue
       THEN Goto(j, "top", "timedout") /\ Stop(j)
       ELSE Goto(j, "top", "readline") /\ UNCHANGED child
    /\ UNCHANGED <<registryVars, overdue, lines, wrote, signalled, signalling,
                   planVars, stream, raised>>

\* readline() returns a line only when the process printed one; it blocks
\* while a running process is silent.
ReadLine(j) ==
    /\ Goto(j, "readline", "top")
    /\ lines[j] < MaxLines
    /\ lines' = [lines EXCEPT ![j] = @ + 1]
    /\ Update(j, "running")
    /\ UNCHANGED <<overdue, childVars, signalling, planVars, stream, raised>>

ReadEnd(j) ==
    /\ Goto(j, "readline", "detach")
    /\ child[j] # "running"
    /\ UNCHANGED <<registryVars, overdue, lines, childVars, signalling, planVars,
                   stream, raised>>

\* TimeoutExpired: the process stays attached.
TimedOut(j) ==
    /\ Goto(j, "timedout", "ended")
    /\ Update(j, "failed")
    /\ UNCHANGED <<overdue, lines, childVars, signalling, planVars, stream,
                   raised>>

DetachProcess(j) ==
    /\ Goto(j, "detach", "decide")
    /\ procs' = procs \ {j}
    /\ UNCHANGED <<status, cancelled, overdue, lines, childVars, signalling,
                   planVars, stream, raised>>

DecideCancelled(j) ==
    /\ IF j \in cancelled
       THEN Goto(j, "decide", "cancel")
       ELSE Goto(j, "decide", "interpret")
    /\ UNCHANGED <<registryVars, overdue, lines, childVars, signalling, planVars,
                   stream, raised>>

ReportCancelled(j) ==
    /\ Goto(j, "cancel", "ended")
    /\ Update(j, "cancelled")
    /\ UNCHANGED <<overdue, lines, childVars, signalling, planVars, stream,
                   raised>>

\* Mutants: any build's results will do; the metadata names failed builds.
InterpretAnyRow(j) ==
    /\ IF child[j] = "exit0" /\ results[active] # <<>>
       THEN Goto(j, "interpret", "succeed") /\ lastBuild' = lastBuild \cup {j}
       ELSE Goto(j, "interpret", "fail") /\ UNCHANGED lastBuild
    /\ UNCHANGED <<registryVars, overdue, lines, childVars, signalling, planOf,
                   active, results, stream, raised>>
InterpretAfterMetadata(j) ==
    /\ lastBuild' = lastBuild \cup {j}
    /\ IF child[j] = "exit0" /\ InRows(j, results[active])
       THEN Goto(j, "interpret", "succeed")
       ELSE Goto(j, "interpret", "fail")
    /\ UNCHANGED <<registryVars, overdue, lines, childVars, signalling, planOf,
                   active, results, stream, raised>>

\* interpret_build_result looks the row of this build up in the plan active
\* now; reading it, or writing the metadata, may raise.
InterpretBuildResult(j) ==
    /\ \/ /\ child[j] = "exit0"
          /\ InRows(j, results[active])
          /\ Goto(j, "interpret", "succeed")
          /\ lastBuild' = lastBuild \cup {j}
       \/ /\ Goto(j, "interpret", "fail")
          /\ UNCHANGED lastBuild
    /\ UNCHANGED <<registryVars, overdue, lines, childVars, signalling, planOf,
                   active, results, stream, raised>>

Report(j) ==
    /\ \/ Goto(j, "succeed", "ended") /\ Update(j, "done")
       \/ Goto(j, "fail", "ended") /\ Update(j, "failed")
    /\ UNCHANGED <<overdue, lines, childVars, signalling, planVars, stream,
                   raised>>

\* The steps the runner takes whatever its process does.
RunnerStep(j) ==
    \/ Launch(j) \/ Popen(j) \/ AttachProcess(j) \/ CheckEarlyCancel(j)
    \/ CheckTimeout(j) \/ ReadEnd(j) \/ TimedOut(j)
    \/ DetachProcess(j) \/ DecideCancelled(j) \/ ReportCancelled(j)
    \/ InterpretBuildResult(j) \/ Report(j)

TimePasses(j) ==
    /\ j \notin overdue
    /\ pc[j] \in {"popen", "attach", "check", "top", "readline"}
    /\ overdue' = overdue \cup {j}
    /\ UNCHANGED <<registryVars, pc, lines, childVars, signalling, planVars,
                   stream, raised>>

----------------------------------------------------------------------------
(* The build process                                                       *)

\* Mutant: nothing trims the rows.
StoreResultsUntrimmed(j) ==
    /\ child[j] = "running"
    /\ j \notin wrote
    /\ wrote' = wrote \cup {j}
    /\ results' = [results EXCEPT ![planOf[j]] = Append(@, j)]
    /\ UNCHANGED <<registryVars, pc, overdue, lines, child, signalled, signalling,
                   planOf, active, lastBuild, stream, raised>>

\* The one write_build_results of a build: every part in one put, in the plan
\* the process was given, which keeps the latest Retention rows.
StoreResults(j) ==
    /\ child[j] = "running"
    /\ j \notin wrote
    /\ wrote' = wrote \cup {j}
    /\ results' = [results EXCEPT ![planOf[j]] =
           LET rows == Append(@, j)
           IN  IF Len(rows) > Retention THEN Tail(rows) ELSE rows]
    /\ UNCHANGED <<registryVars, pc, overdue, lines, child, signalled, signalling,
                   planOf, active, lastBuild, stream, raised>>

\* Exit 0 is meant to come after the results are stored, but the runner does
\* not count on it (build_error_message has a message for it).
ChildExits(j) ==
    /\ child[j] = "running"
    /\ \E code \in {"exit0", "exit1"} : child' = [child EXCEPT ![j] = code]
    /\ UNCHANGED <<registryVars, pc, overdue, lines, wrote, signalled, signalling,
                   planVars, stream, raised>>

----------------------------------------------------------------------------
(* Cancel, prune and the event stream                                      *)

\* Mutants: the request answers for the runner; it marks the job only after
\* it has let go of the lock.
RequestCancelAndReport(j) ==
    /\ status[j] \in Live
    /\ cancelled' = cancelled \cup {j}
    /\ status' = [status EXCEPT ![j] = "cancelled"]
    /\ signalling' = IF j \in procs THEN signalling \cup {j} ELSE signalling
    /\ UNCHANGED <<procs, pc, overdue, lines, childVars, planVars, stream,
                   raised>>
RequestCancelUnmarked(j) ==
    /\ status[j] \in Live
    /\ signalling' = IF j \in procs THEN signalling \cup {j} ELSE signalling
    /\ UNCHANGED <<registryVars, pc, overdue, lines, childVars, planVars, stream,
                   raised>>

\* An unknown or a finished job is answered without a change.
RequestCancel(j) ==
    /\ status[j] \in Live
    /\ cancelled' = cancelled \cup {j}
    /\ signalling' = IF j \in procs THEN signalling \cup {j} ELSE signalling
    /\ UNCHANGED <<status, procs, pc, overdue, lines, childVars, planVars, stream,
                   raised>>

\* The rest of request_cancel, outside the lock.
SignalProcess(j) ==
    /\ j \in signalling
    /\ signalling' = signalling \ {j}
    /\ Stop(j)
    /\ signalled' = signalled \cup {j}
    /\ UNCHANGED <<registryVars, pc, overdue, lines, wrote, planVars, stream,
                   raised>>

\* prune_older_than(3600): no update for an hour.
PruneJob(j) ==
    /\ status[j] \in Final \/ (SilentHour /\ status[j] = "running")
    /\ status' = [status EXCEPT ![j] = "none"]
    /\ UNCHANGED <<procs, cancelled, pc, overdue, lines, childVars, signalling,
                   planVars, stream, raised>>

OpenStream(j) ==
    /\ j \in Watched
    /\ stream[j] = "closed"
    /\ stream' = [stream EXCEPT ![j] = "open"]
    /\ UNCHANGED <<registryVars, pc, overdue, lines, childVars, signalling,
                   planVars, raised>>

\* Mutant: only a build that worked ends the stream.
StreamPollUntilDone(j) ==
    /\ stream[j] = "open"
    /\ status[j] \in {"none", "done"}
    /\ stream' = [stream EXCEPT ![j] = "ended"]
    /\ UNCHANGED <<registryVars, pc, overdue, lines, childVars, signalling,
                   planVars, raised>>

\* build_events: the poll that ends the stream; the others only send events.
StreamPoll(j) ==
    /\ stream[j] = "open"
    /\ status[j] \in {"none", "done", "failed"}
    /\ stream' = [stream EXCEPT ![j] = "ended"]
    /\ UNCHANGED <<registryVars, pc, overdue, lines, childVars, signalling,
                   planVars, raised>>

----------------------------------------------------------------------------

Next ==
    \/ \E j \in Jobs :
          \/ PinPlan(j) \/ StartBuild(j) \/ RunnerStep(j) \/ RunnerRaises(j)
          \/ ReadLine(j) \/ TimePasses(j) \/ StoreResults(j) \/ ChildExits(j)
          \/ RequestCancel(j) \/ SignalProcess(j) \/ PruneJob(j)
          \/ OpenStream(j) \/ StreamPoll(j)
    \/ \E p \in Plans : SwitchPlan(p)

\* The server's threads are scheduled: a started runner, a cancel request and
\* a stream that can take a step take it.  Nothing is assumed of the build
\* process, of the user or of the clock.
Fairness ==
    \A j \in Jobs : /\ WF_vars(RunnerStep(j))
                    /\ WF_vars(SignalProcess(j))
                    /\ WF_vars(StreamPoll(j))

Spec == Init /\ [][Next]_vars
FairSpec == Spec /\ Fairness

----------------------------------------------------------------------------
(* Properties                                                              *)

(* The types of the registry's tables and of the runners' places.          *)
TypeOK ==
    /\ status \in [Jobs -> Live \cup Final \cup {"none"}]
    /\ procs \subseteq Jobs
    /\ cancelled \subseteq Jobs
    /\ pc \in [Jobs -> RunnerAt]
    /\ overdue \subseteq Jobs
    /\ lines \in [Jobs -> 0..MaxLines]
    /\ child \in [Jobs -> {"none", "running", "stopped", "exit0", "exit1"}]
    /\ wrote \subseteq Jobs
    /\ signalling \subseteq Jobs
    /\ signalled \subseteq Jobs
    /\ planOf \in [Jobs -> Plans]
    /\ active \in Plans
    /\ results \in [Plans -> Seq(Jobs)]
    /\ \A p \in Plans : Len(results[p]) <= Retention
    /\ lastBuild \subseteq Jobs
    /\ stream \in [Jobs -> {"closed", "open", "ended"}]
    /\ raised \subseteq Jobs

(* A build reported done exited 0 and stored its own results: "an older    *)
(* build's summary is never taken for this one" (build_service.py:61-62),  *)
(* however the builds overlap and the user switches plans.                 *)
DoneMeansBuilt ==
    \A j \in Jobs : status[j] = "done" => child[j] = "exit0" /\ j \in wrote

(* Once a cancel has reached the process through the registry the job is   *)
(* never reported done, even if the process had just ended by itself       *)
(* (request_cancel marks the job in the same lock that finds the process). *)
SignalledNeverDone ==
    \A j \in signalled : status[j] # "done" /\ pc[j] # "succeed"

(* A build process outlives its job only when an exception took the runner *)
(* out of the read loop (build_job_service.py:403-405): the end of the     *)
(* output, a cancel, the time limit and a failed start all end the process *)
(* first.  What is left running is a failed build to everybody, whatever   *)
(* it stores later: it is not done and never the last build.               *)
NoBuildOutlivesItsJob ==
    \A j \in Jobs :
        (pc[j] = "ended" \/ status[j] \in Final) /\ child[j] = "running" =>
            /\ j \in raised \ lastBuild
            /\ status[j] \in {"failed", "none"}

(* A final status is the last word: no late line, cancel or report changes *)
(* it, and a finished job that was pruned stays away.                      *)
FinalIsFinal ==
    [][\A j \in Jobs :
          status[j] \in Final \/ (status[j] = "none" /\ pc[j] = "ended") =>
              status'[j] \in {status[j], "none"}]_vars

(* A build that was reported failed or cancelled is never the last build.  *)
LastBuildSucceeded ==
    \A j \in lastBuild : status[j] \notin {"failed", "cancelled"}

(* A cancel the registry accepted ends the job, also when the process was  *)
(* not attached yet and also when the process would never end by itself.   *)
CancelEndsTheBuild ==
    \A j \in Jobs : j \in cancelled ~> pc[j] = "ended"

(* Once the process of a watched build is over, or its start has failed,   *)
(* the event stream ends by itself, through the runner's report, unless    *)
(* the build was cancelled (workbook_routes.py:292 ends on done and failed *)
(* only).                                                                  *)
StreamEnds ==
    \A j \in Watched :
        stream[j] = "open" /\ (pc[j] = "fail" \/ child[j] \notin {"none", "running"})
            ~> stream[j] = "ended" \/ status[j] = "cancelled"
================================================================================
