------------------------------- MODULE Conversion -------------------------------
(***************************************************************************)
(* The one-time conversion of an old install into a plan file              *)
(* (src/legacy_conversion/workspace.py convert_workspace, with runner.py,  *)
(* backup.py, verify.py's Engine and plan_db_replace.replace_active_db),   *)
(* run by the first-launch service in a thread of the server               *)
(* (src/server_services/conversion_service.py).                            *)
(*                                                                         *)
(* One action per durable step of a run.  A run may be killed between any  *)
(* two of them, a step may fail, and requests may edit the plan meanwhile. *)
(*                                                                         *)
(* A plan file is the legacy data it holds or not, the user's edits among  *)
(* its rows, those only its pre-conversion revision holds, and the markers *)
(* of the conversion.                                                      *)
(***************************************************************************)
EXTENDS Naturals, FiniteSets

CONSTANTS
    Edits,      \* edits the user makes
    Households, \* those that enter a household
    NoPlan,     \* a missing plan file
    MaxFaults   \* bound on kills and failing steps

ASSUME ConversionAssumption ==
    Households \subseteq Edits /\ MaxFaults \in Nat

VARIABLES
    live,        \* the plan file
    keeps,       \* its rollback copies plan.rpx.pre_conversion_<ts>
    backup,      \* a verified backup of the originals exists
    staging,     \* the private copy a run converts
    app,         \* app.db: flags converted, plan registered, done key
    secrets,     \* the legacy secrets file still waits for a credential store
    midDemo,     \* an old demo is open: "seed" when plan.rpx.before_demo has the
                 \* real plan, "rows" when only legacy files have; else "no"
    legacy,      \* the legacy sources: "none", only "data", or a "plan" CSV set too
    elsewhere,   \* the workspace is not the server's (a tool converts a copy)
    pc,          \* the running conversion's next step
    run,         \* the run: its options and what it did so far
    engine,      \* the process's plan is redirected to the engine's copies
    edited,      \* the edits the user was told are saved
    raced,       \* history: those saved where a run did not look any more
    faults

files == <<live, keeps, backup, staging, app, secrets>>
install == <<midDemo, legacy, elsewhere>>
edits == <<edited, raced>>
environment == <<install, edits>>
vars == <<files, environment, pc, run, engine, faults>>

Plan == [converted : BOOLEAN, household : BOOLEAN, edits : SUBSET Edits,
         kept : SUBSET Edits, seeded : BOOLEAN, verified : BOOLEAN,
         registered : BOOLEAN, done : BOOLEAN]
EmptyPlan == [converted |-> FALSE, household |-> FALSE, edits |-> {},
              kept |-> {}, seeded |-> FALSE, verified |-> FALSE,
              registered |-> FALSE, done |-> FALSE]
HouseholdPlan == [EmptyPlan EXCEPT !.household = TRUE]

\* What _live_state tells apart: rows and datasets, not revisions and markers.
Contents == BOOLEAN \X BOOLEAN \X BOOLEAN \X SUBSET Edits

ASSUME NoPlanAssumption == NoPlan \notin Plan \cup Contents

Done(p) == p # NoPlan /\ p.done

Content(p) ==
    IF p = NoPlan THEN NoPlan ELSE <<p.converted, p.seeded, p.household, p.edits>>

\* plan_has_household.
HasHousehold(p) == p # NoPlan /\ (p.household \/ p.edits \cap Households # {})

\* plan_is_placeholder: the rows are not the user's plan.
IsPlaceholder(p) == midDemo = "rows" \/ ~HasHousehold(p)

\* Between two runs.  A run's result names the rollback copy it took; the rest of
\* the result is a report.
NoRun == [dry |-> FALSE, accept |-> FALSE, before |-> NoPlan, changed |-> FALSE,
          rollback |-> NoPlan]

Steps == {"idle", "decide", "backup", "look", "stage", "convert", "verify",
          "compare", "originals", "mark", "check", "keep", "replace", "flags",
          "secrets", "register", "registered", "done", "appdone", "finish"}

Goto(from, to) == pc = from /\ pc' = to

\* The step succeeds and the run goes on.
Step(from, to) == Goto(from, to) /\ UNCHANGED <<run, faults>>

\* The run ends here, blocked, failed or done.
Stop(from) == Goto(from, "finish") /\ UNCHANGED <<run, faults>>

\* A demo's plan file has the demo's household.
Init ==
    /\ live \in {NoPlan, EmptyPlan, HouseholdPlan}
    /\ keeps = {}
    /\ backup = FALSE
    /\ staging = NoPlan
    /\ app = [flags |-> FALSE, registered |-> FALSE, done |-> FALSE]
    /\ secrets \in BOOLEAN
    /\ midDemo \in {"no", "seed", "rows"}
    /\ midDemo # "no" => live # EmptyPlan
    /\ legacy \in {"none", "data", "plan"}
    /\ legacy = "none" => midDemo = "no" /\ ~secrets
    /\ elsewhere \in BOOLEAN
    /\ pc = "idle"
    /\ run = NoRun
    /\ engine = FALSE
    /\ edited = {}
    /\ raced = {}
    /\ faults = 0

----------------------------------------------------------------------------
(* A run                                                                   *)

\* A second start is refused while one runs (_RUN_LOCK, the service's lock).
Start(dry, accept) ==
    /\ Goto("idle", "decide")
    /\ run' = [NoRun EXCEPT !.dry = dry, !.accept = accept]
    /\ UNCHANGED <<files, environment, engine, faults>>

\* Mutant: the verified marker is taken for the done marker.
DecideByVerified ==
    /\ IF live # NoPlan /\ live.verified
       THEN Goto("decide", "idle") /\ run' = NoRun /\ UNCHANGED faults
       ELSE Step("decide", IF run.dry THEN "look" ELSE "backup")
    /\ UNCHANGED <<files, environment, engine>>

\* Needed while the plan lacks the done marker and there is a legacy source, or
\* secrets wait.  A run that does not get past this point is not recorded.
Decide ==
    LET needed == IF Done(live) THEN secrets ELSE legacy # "none"
    IN  /\ \/ /\ ~needed
              /\ Goto("decide", "idle")
              /\ run' = NoRun
              /\ UNCHANGED faults
           \/ /\ needed
              /\ Step("decide", IF run.dry \/ Done(live) THEN "look" ELSE "backup")
        /\ UNCHANGED <<files, environment, engine>>

\* Mutant: a backup that could not be verified does not stop the run.
EnsureBackupUnchecked ==
    /\ Step("backup", "look")
    /\ backup' \in {backup, TRUE}
    /\ UNCHANGED <<live, keeps, staging, app, secrets, environment, engine>>

EnsureBackup ==
    /\ Step("backup", "look")
    /\ backup' = TRUE
    /\ UNCHANGED <<live, keeps, staging, app, secrets, environment, engine>>

LookAtLive ==
    /\ Goto("look", "stage")
    /\ run' = [run EXCEPT !.before = Content(live)]
    /\ UNCHANGED <<files, environment, engine, faults>>

\* prepare_staging: a copy of the plan the demo put aside, the user's, unless an
\* earlier run's copy of it is live already; else a copy of the live plan, if any.
PrepareStaging ==
    LET seed == midDemo = "seed" /\ ~(live # NoPlan /\ live.seeded)
    IN  /\ Goto("stage", "convert")
        /\ staging' = IF seed THEN [HouseholdPlan EXCEPT !.seeded = TRUE]
                      ELSE IF live = NoPlan THEN EmptyPlan ELSE live
        /\ run' = [run EXCEPT !.changed = seed]
        /\ UNCHANGED <<live, keeps, backup, app, secrets, environment, engine, faults>>

\* Mutant: the placeholder's rows are cleared without a revision of them.
ConvertStagingUnkept ==
    /\ Goto("convert", "verify")
    /\ staging' =
           IF ~staging.converted /\ legacy = "plan" /\ IsPlaceholder(staging)
           THEN [staging EXCEPT !.converted = TRUE, !.household = TRUE, !.edits = {}]
           ELSE [staging EXCEPT !.converted = TRUE]
    /\ run' = [run EXCEPT !.changed = @ \/ ~staging.converted]
    /\ UNCHANGED <<live, keeps, backup, app, secrets, environment, engine, faults>>

\* PLAN_STEPS: each skips what its marker says is converted.  The plan CSV set
\* takes the place of a placeholder's rows, kept as a revision (_c3); a plan that
\* has a household keeps its rows.
ConvertStaging ==
    /\ Goto("convert", "verify")
    /\ staging' =
           IF ~staging.converted /\ legacy = "plan" /\ IsPlaceholder(staging)
           THEN [staging EXCEPT !.converted = TRUE, !.household = TRUE, !.edits = {},
                                !.kept = @ \cup staging.edits]
           ELSE [staging EXCEPT !.converted = TRUE]
    /\ run' = [run EXCEPT !.changed = @ \/ ~staging.converted]
    /\ UNCHANGED <<live, keeps, backup, app, secrets, environment, engine, faults>>

\* Only a run that converted something runs the engine; it points the
\* process's plan at its copies.
EnterEngine ==
    /\ Step("verify", IF run.changed THEN "compare" ELSE "originals")
    /\ engine' = run.changed
    /\ UNCHANGED <<files, environment>>

\* The engine's results may differ between the old data and the new plan, or the
\* engine may raise: that ends a run the user did not accept it for.
Compare ==
    /\ \/ ~run.accept /\ Stop("compare")
       \/ Step("compare", "originals")
    /\ engine' = FALSE
    /\ UNCHANGED <<files, environment>>

\* A run that changed nothing goes on to the install steps of the live plan.
CheckOriginals ==
    /\ \/ run.dry /\ Stop("originals")
       \/ ~run.dry /\ Step("originals",
                           IF run.changed \/ live = NoPlan THEN "mark" ELSE "flags")
    /\ UNCHANGED <<files, environment, engine>>

MarkVerified ==
    /\ Step("mark", "check")
    /\ staging' = [staging EXCEPT !.verified = TRUE]
    /\ UNCHANGED <<live, keeps, backup, app, secrets, environment, engine>>

CheckLive ==
    /\ IF Content(live) # run.before THEN Stop("check")
       ELSE Step("check", IF live = NoPlan THEN "replace" ELSE "keep")
    /\ UNCHANGED <<files, environment, engine>>

\* The rollback copy, compared with what the run began from.
KeepLive ==
    /\ keeps' = keeps \cup {live}
    /\ IF Content(live) # run.before THEN Stop("keep")
       ELSE /\ Goto("keep", "replace")
            /\ run' = [run EXCEPT !.rollback = live]
            /\ UNCHANGED faults
    /\ UNCHANGED <<live, backup, staging, app, secrets, environment, engine>>

\* Mutant: the verified copy carries the done marker before the install steps ran.
ReplaceActiveWithDone ==
    /\ Step("replace", "flags")
    /\ live' = [staging EXCEPT !.done = TRUE]
    /\ UNCHANGED <<keeps, backup, staging, app, secrets, environment, engine>>

\* replace_active_db: whatever the plan is by now is replaced, unless the copy
\* does not validate or the plan is busy.
ReplaceActive ==
    /\ Step("replace", "flags")
    /\ live' = staging
    /\ UNCHANGED <<keeps, backup, staging, app, secrets, environment, engine>>

\* INSTALL_STEPS: the flags, the secrets, the registration.
ConvertFlags ==
    /\ Step("flags", "secrets")
    /\ app' = [app EXCEPT !.flags = TRUE]
    /\ UNCHANGED <<live, keeps, backup, staging, secrets, environment, engine>>

\* Without a credential store the secrets keep waiting; that is no failure.
MoveSecrets ==
    /\ Step("secrets", "register")
    /\ secrets' \in {secrets, FALSE}
    /\ UNCHANGED <<live, keeps, backup, staging, app, environment, engine>>

\* _c6c_applies, and what c6c_register skips: a plan registered before, and one of
\* another workspace.
Registers == HasHousehold(live) /\ ~live.registered /\ ~elsewhere

\* Mutant: the registration's failure is taken for a result.
RegisterUnchecked ==
    /\ Step("register", IF Registers THEN "registered" ELSE "done")
    /\ app' \in {app, [app EXCEPT !.registered = Registers \/ @]}
    /\ UNCHANGED <<live, keeps, backup, staging, secrets, environment, engine>>

\* The registry entry in app.db, then the marker in the plan.
Register ==
    /\ IF Registers
       THEN Step("register", "registered") /\ app' = [app EXCEPT !.registered = TRUE]
       ELSE Step("register", "done") /\ UNCHANGED app
    /\ UNCHANGED <<live, keeps, backup, staging, secrets, environment, engine>>
MarkRegistered ==
    /\ Step("registered", "done")
    /\ live' = [live EXCEPT !.registered = TRUE]
    /\ UNCHANGED <<keeps, backup, staging, app, secrets, environment, engine>>

MarkDone ==
    /\ Step("done", "appdone")
    /\ live' = [live EXCEPT !.done = TRUE]
    /\ UNCHANGED <<keeps, backup, staging, app, secrets, environment, engine>>
MarkAppDone ==
    /\ Stop("appdone")
    /\ app' = [app EXCEPT !.done = TRUE]
    /\ UNCHANGED <<live, keeps, backup, staging, secrets, environment, engine>>

\* The scratch folder goes.
Finish ==
    /\ Goto("finish", "idle")
    /\ run' = NoRun
    /\ staging' = NoPlan
    /\ UNCHANGED <<live, keeps, backup, app, secrets, environment, engine, faults>>

\* A step fails or raises: the run ends there.
Fails(step) ==
    /\ faults < MaxFaults
    /\ faults' = faults + 1
    /\ IF step = "decide"
       THEN Goto(step, "idle") /\ run' = NoRun
       ELSE Goto(step, "finish") /\ UNCHANGED run
    /\ UNCHANGED <<files, environment>>

\* Mutant: a comparison that raises leaves the process on the engine's copy.
StepFailsWithoutRestoring ==
    /\ \E step \in {"convert", "compare", "replace"} : Fails(step)
    /\ UNCHANGED engine

\* Whatever the run was at, the Engine's redirection ends with it.
StepFails ==
    /\ \E step \in Steps \ {"idle", "finish"} : Fails(step)
    /\ engine' = FALSE

RunStep ==
    \/ Decide \/ EnsureBackup \/ LookAtLive \/ PrepareStaging \/ ConvertStaging
    \/ EnterEngine \/ Compare \/ CheckOriginals \/ MarkVerified \/ CheckLive
    \/ KeepLive \/ ReplaceActive \/ ConvertFlags \/ MoveSecrets \/ Register
    \/ MarkRegistered \/ MarkDone \/ MarkAppDone \/ Finish \/ StepFails

----------------------------------------------------------------------------
(* The process is killed; the user edits the plan                          *)

\* The scratch folder stays until the next run empties it.
Crash ==
    /\ pc # "idle"
    /\ faults < MaxFaults
    /\ faults' = faults + 1
    /\ pc' = "idle"
    /\ run' = NoRun
    /\ engine' = FALSE
    /\ UNCHANGED <<files, environment>>

\* A request writes to the process's plan, whether a run is under way or not:
\* while the engine runs, to the copy it points the process at.
EditPlan(e) ==
    /\ ~elsewhere
    /\ e \notin edited
    /\ edited' = edited \cup {e}
    /\ raced' = IF engine \/ pc = "replace" THEN raced \cup {e} ELSE raced
    /\ live' = IF engine THEN live
               ELSE [(IF live = NoPlan THEN EmptyPlan ELSE live)
                         EXCEPT !.edits = @ \cup {e}]
    /\ UNCHANGED <<keeps, backup, staging, app, secrets, install>>
    /\ UNCHANGED <<pc, run, engine, faults>>

Next ==
    \/ \E dry, accept \in BOOLEAN : Start(dry, accept)
    \/ RunStep
    \/ Crash
    \/ \E e \in Edits : EditPlan(e)

Spec == Init /\ [][Next]_vars

\* A started run is carried on, and a user whose plan is not converted starts
\* a real run again, in the end accepting what differs.
FairSpec ==
    /\ Spec
    /\ WF_vars(RunStep)
    /\ SF_vars(~Done(live) /\ Start(FALSE, TRUE))

----------------------------------------------------------------------------
(* Properties                                                              *)

(* The types of the plan files, app.db and the run; and the process works  *)
(* on another plan than the user's only while the engine compares.         *)
TypeOK ==
    /\ live \in Plan \cup {NoPlan}
    /\ keeps \subseteq Plan
    /\ staging \in Plan \cup {NoPlan}
    /\ {backup, secrets, elsewhere, engine} \subseteq BOOLEAN
    /\ midDemo \in {"no", "seed", "rows"}
    /\ legacy \in {"none", "data", "plan"}
    /\ app \in [flags : BOOLEAN, registered : BOOLEAN, done : BOOLEAN]
    /\ pc \in Steps
    /\ {run.dry, run.accept, run.changed} \subseteq BOOLEAN
    /\ run.rollback \in Plan \cup {NoPlan}
    /\ edited \subseteq Edits
    /\ raced \subseteq edited
    /\ faults \in 0..MaxFaults
    /\ engine => pc = "compare"

(* Whenever the process is killed, the live plan is the old one or a whole *)
(* verified one, made with a verified backup of the originals at hand      *)
(* (workspace.py:39-41), and a later run does not undo that.               *)
VerifiedOrUntouched ==
    live # NoPlan /\ live.converted => live.verified /\ backup

(* The done marker promises everything after the swap: a later start will  *)
(* not look again, so the settings must be in, and the plan registered     *)
(* when the legacy data or the plan put aside describe a household.        *)
DoneMeansInstalled ==
    Done(live) =>
        /\ live.converted /\ app.flags
        /\ (legacy = "plan" \/ midDemo = "seed") /\ ~elsewhere =>
               live.registered /\ app.registered

(* The edits a plan file still has: in its rows or in a revision.          *)
Held(p) == IF p = NoPlan THEN {} ELSE p.edits \cup p.kept

(* An edit the user was told is saved is not lost to a conversion that     *)
(* runs while requests are served (conversion_service.py:67-90), however   *)
(* often it is killed: it is in the plan or its pre-conversion revision,   *)
(* or in the kept copy of the demo it was made to.  Two windows are out:   *)
(* while the engine redirects the process (workspace.py:56-57), and        *)
(* between the run's last look at the plan and the swap.                   *)
EditsSurvive ==
    \A e \in edited \ raced :
        \/ e \in Held(live)
        \/ midDemo = "seed" /\ \E p \in keeps : ~p.seeded /\ e \in Held(p)

(* However often a run is killed or stopped by a fault, a later run        *)
(* finishes the conversion of an old install ("the next run finishes 6     *)
(* and 7", workspace.py:41).                                               *)
ConversionFinishes == legacy # "none" => <>Done(live)

\* Before the swap: the plan as the run last looked at it, none or the copy it kept.
LookedAt ==
    IF pc = "replace" /\ (run.before = NoPlan \/ run.rollback # NoPlan)
    THEN run.rollback ELSE live

Upgrade == INSTANCE AtomicUpgrade WITH
    phase <- IF Done(live) THEN "done"
             ELSE IF live # NoPlan /\ live.converted THEN "live" ELSE "old",
    content <- LookedAt,
    kept <- keeps

(* The conversion implements the atomic upgrade: whole, once, the old plan *)
(* kept as the run last looked at it, done last.                           *)
ImplementsUpgrade == Upgrade!Spec
================================================================================
