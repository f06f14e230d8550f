---------------------------- MODULE ConversionProofs ----------------------------
(***************************************************************************)
(* Proofs about Conversion, for any edits, any number of kills and faults, *)
(* and with requests served while a run is under way.                      *)
(***************************************************************************)
EXTENDS Conversion, TLAPS

-----------------------------------------------------------------------------
(* Type correctness                                                        *)

Apps == [flags : BOOLEAN, registered : BOOLEAN, done : BOOLEAN]
Runs == [dry : BOOLEAN, accept : BOOLEAN, before : {NoPlan} \cup Contents,
         changed : BOOLEAN, rollback : Plan \cup {NoPlan}]

(* The staging copy is there until the swap, and the plan from then on. *)
Staged == {"convert", "verify", "compare", "originals", "mark", "check", "keep", "replace"}
Installing == {"flags", "secrets", "register", "registered", "done"}
FilesThere ==
    /\ pc \in Staged => staging # NoPlan
    /\ pc \in Installing \cup {"keep"} => live # NoPlan
TypeInv == TypeOK /\ run \in Runs /\ FilesThere

LEMMA ContentType ==
    /\ Content(NoPlan) = NoPlan
    /\ \A p \in Plan : Content(p) \in Contents
<1>1. ASSUME NEW p \in Plan PROVE Content(p) \in Contents
    <2>1. /\ p.converted \in BOOLEAN /\ p.seeded \in BOOLEAN /\ p.household \in BOOLEAN
          /\ p.edits \in SUBSET Edits
        BY DEF Plan
    <2>2. p # NoPlan
        BY NoPlanAssumption
    <2> QED
        BY <2>1, <2>2 DEF Content, Contents
<1> QED
    BY <1>1 DEF Content

(* The plans a run or an install starts from. *)
LEMMA Empties ==
    /\ EmptyPlan \in Plan /\ HouseholdPlan \in Plan
    /\ EmptyPlan # NoPlan /\ HouseholdPlan # NoPlan
    /\ \A p \in {EmptyPlan, HouseholdPlan} :
           ~p.converted /\ ~p.seeded /\ ~p.registered /\ ~p.done
           /\ p.edits = {} /\ p.kept = {}
<1>1. EmptyPlan \in Plan
    BY DEF EmptyPlan, Plan
<1>2. HouseholdPlan = [EmptyPlan EXCEPT !.household = TRUE] /\ HouseholdPlan \in Plan
    BY <1>1 DEF HouseholdPlan, Plan
<1>3. ~EmptyPlan.converted /\ ~EmptyPlan.seeded /\ ~EmptyPlan.registered /\ ~EmptyPlan.done
      /\ EmptyPlan.edits = {} /\ EmptyPlan.kept = {}
    BY DEF EmptyPlan
<1>4. ~HouseholdPlan.converted /\ ~HouseholdPlan.seeded /\ ~HouseholdPlan.registered
      /\ ~HouseholdPlan.done /\ HouseholdPlan.edits = {} /\ HouseholdPlan.kept = {}
    BY <1>1, <1>2, <1>3 DEF Plan
<1> QED
    BY <1>1, <1>2, <1>3, <1>4, NoPlanAssumption

LEMMA Seed ==
    LET p == [HouseholdPlan EXCEPT !.seeded = TRUE]
    IN  /\ p \in Plan /\ p # NoPlan /\ p.seeded /\ p.household
        /\ ~p.converted /\ ~p.registered /\ ~p.done /\ p.edits = {}
<1> DEFINE p == [HouseholdPlan EXCEPT !.seeded = TRUE]
<1>1. p \in Plan
    BY Empties DEF Plan
<1>2. p.seeded /\ p.converted = HouseholdPlan.converted /\ p.done = HouseholdPlan.done
      /\ p.registered = HouseholdPlan.registered /\ p.household = HouseholdPlan.household
      /\ p.edits = HouseholdPlan.edits
    BY Empties DEF Plan
<1>3. HouseholdPlan.household
    BY Empties DEF HouseholdPlan, Plan
<1> QED
    BY <1>1, <1>2, <1>3, Empties, NoPlanAssumption

(* What a plan's markers and edits do to the rest of it. *)
LEMMA Edited ==
    ASSUME NEW p \in Plan, NEW e \in Edits
    PROVE  LET q == [p EXCEPT !.edits = @ \cup {e}]
           IN  /\ q \in Plan /\ q # NoPlan /\ q.edits = p.edits \cup {e} /\ q.kept = p.kept
               /\ q.converted = p.converted /\ q.household = p.household
               /\ q.seeded = p.seeded /\ q.verified = p.verified
               /\ q.registered = p.registered /\ q.done = p.done
<1> DEFINE q == [p EXCEPT !.edits = @ \cup {e}]
<1>1. q \in Plan
    BY DEF Plan
<1>2. /\ q.edits = p.edits \cup {e} /\ q.kept = p.kept
      /\ q.converted = p.converted /\ q.household = p.household
      /\ q.seeded = p.seeded /\ q.verified = p.verified
      /\ q.registered = p.registered /\ q.done = p.done
    BY DEF Plan
<1> QED
    BY <1>1, <1>2, NoPlanAssumption

LEMMA Marked ==
    ASSUME NEW p \in Plan
    PROVE  /\ LET q == [p EXCEPT !.verified = TRUE]
              IN  /\ q \in Plan /\ q # NoPlan /\ q.edits = p.edits /\ q.kept = p.kept
                  /\ q.converted = p.converted /\ q.household = p.household
                  /\ q.seeded = p.seeded /\ q.verified
                  /\ q.registered = p.registered /\ q.done = p.done
           /\ LET q == [p EXCEPT !.registered = TRUE]
              IN  /\ q \in Plan /\ q # NoPlan /\ q.edits = p.edits /\ q.kept = p.kept
                  /\ q.converted = p.converted /\ q.household = p.household
                  /\ q.seeded = p.seeded /\ q.verified = p.verified
                  /\ q.registered /\ q.done = p.done
           /\ LET q == [p EXCEPT !.done = TRUE]
              IN  /\ q \in Plan /\ q # NoPlan /\ q.edits = p.edits /\ q.kept = p.kept
                  /\ q.converted = p.converted /\ q.household = p.household
                  /\ q.seeded = p.seeded /\ q.verified = p.verified
                  /\ q.registered = p.registered /\ q.done
<1> DEFINE v == [p EXCEPT !.verified = TRUE]
           r == [p EXCEPT !.registered = TRUE]
           d == [p EXCEPT !.done = TRUE]
<1>1. v \in Plan /\ r \in Plan /\ d \in Plan
    BY DEF Plan
<1>2. v # NoPlan /\ r # NoPlan /\ d # NoPlan
    BY <1>1, NoPlanAssumption
<1>3. /\ v.edits = p.edits /\ v.kept = p.kept
      /\ v.converted = p.converted /\ v.household = p.household
      /\ v.seeded = p.seeded /\ v.verified /\ v.registered = p.registered /\ v.done = p.done
    BY DEF Plan
<1>4. /\ r.edits = p.edits /\ r.kept = p.kept
      /\ r.converted = p.converted /\ r.household = p.household
      /\ r.seeded = p.seeded /\ r.verified = p.verified /\ r.registered /\ r.done = p.done
    BY DEF Plan
<1>5. /\ d.edits = p.edits /\ d.kept = p.kept
      /\ d.converted = p.converted /\ d.household = p.household
      /\ d.seeded = p.seeded /\ d.verified = p.verified /\ d.registered = p.registered
      /\ d.done
    BY DEF Plan
<1> QED
    BY <1>1, <1>2, <1>3, <1>4, <1>5

(* What the conversion of the copy does: it keeps the edits, in the rows   *)
(* or the revision, and a plan CSV set leaves it with a household.         *)
LEMMA Converts ==
    ASSUME TypeInv, ConvertStaging
    PROVE  /\ staging' \in Plan /\ staging' # NoPlan /\ staging'.converted
           /\ staging'.seeded = staging.seeded /\ staging'.verified = staging.verified
           /\ staging'.registered = staging.registered /\ staging'.done = staging.done
           /\ staging'.edits \subseteq staging.edits
           /\ Held(staging) \subseteq Held(staging')
           /\ staging.household => staging'.household
           /\ HasHousehold(staging) => HasHousehold(staging')
           /\ ~staging.converted /\ legacy = "plan" => HasHousehold(staging')
<1>1. staging \in Plan /\ staging # NoPlan
    BY DEF ConvertStaging, Goto, TypeInv, TypeOK, FilesThere, Staged
<1> DEFINE cleared == [staging EXCEPT !.converted = TRUE, !.household = TRUE, !.edits = {},
                                      !.kept = @ \cup staging.edits]
           converted == [staging EXCEPT !.converted = TRUE]
<1>2. cleared \in Plan /\ converted \in Plan
    BY <1>1 DEF Plan
<1>3. /\ cleared.converted /\ cleared.household /\ cleared.edits = {}
      /\ cleared.kept = staging.kept \cup staging.edits
      /\ cleared.seeded = staging.seeded /\ cleared.verified = staging.verified
      /\ cleared.registered = staging.registered /\ cleared.done = staging.done
    BY <1>1 DEF Plan
<1>4. /\ converted.converted /\ converted.household = staging.household
      /\ converted.edits = staging.edits /\ converted.kept = staging.kept
      /\ converted.seeded = staging.seeded /\ converted.verified = staging.verified
      /\ converted.registered = staging.registered /\ converted.done = staging.done
    BY <1>1 DEF Plan
<1>5. cleared # NoPlan /\ converted # NoPlan
    BY <1>2, NoPlanAssumption
<1>6. staging' = IF ~staging.converted /\ legacy = "plan" /\ IsPlaceholder(staging)
                 THEN cleared ELSE converted
    BY DEF ConvertStaging
<1> HIDE DEF cleared, converted
<1>7. CASE staging' = cleared
    BY <1>1, <1>2, <1>3, <1>5, <1>7 DEF HasHousehold, Held
<1>8. CASE staging' = converted
    <2>1. ~(~staging.converted /\ legacy = "plan" /\ IsPlaceholder(staging))
          \/ converted = cleared
        BY <1>6, <1>8
    <2>2. ~staging.converted /\ legacy = "plan" => HasHousehold(staging')
        BY <1>1, <1>3, <1>4, <1>5, <1>8, <2>1 DEF HasHousehold, IsPlaceholder
    <2> QED
        BY <1>1, <1>2, <1>4, <1>5, <1>8, <2>2 DEF HasHousehold, Held
<1> QED
    BY <1>6, <1>7, <1>8

LEMMA InitType == Init => TypeInv
<1> SUFFICES ASSUME Init PROVE TypeInv
    OBVIOUS
<1>1. run \in Runs
    BY DEF Init, NoRun, Runs
<1>2. app \in Apps
    BY DEF Init, Apps
<1>3. faults \in 0..MaxFaults
    BY ConversionAssumption DEF Init
<1>4. {backup, secrets, elsewhere, engine} \subseteq BOOLEAN
      /\ midDemo \in {"no", "seed", "rows"} /\ legacy \in {"none", "data", "plan"}
    BY DEF Init
<1>5. /\ {run.dry, run.accept, run.changed} \subseteq BOOLEAN
      /\ run.rollback \in Plan \cup {NoPlan}
    BY <1>1 DEF Runs
<1>6. pc = "idle" /\ engine = FALSE /\ staging = NoPlan /\ keeps = {} /\ edited = {}
      /\ raced = {} /\ live \in {NoPlan, EmptyPlan, HouseholdPlan}
    BY DEF Init
<1> QED
    BY <1>1, <1>2, <1>3, <1>4, <1>5, <1>6, Empties
    DEF TypeInv, TypeOK, FilesThere, Steps, Staged, Installing, Apps

(* A step is correct when what it changes has its type. *)
LEMMA TypeStep ==
    ASSUME TypeInv,
           live' \in Plan \cup {NoPlan}, keeps' \subseteq Plan, staging' \in Plan \cup {NoPlan},
           backup' \in BOOLEAN, secrets' \in BOOLEAN, engine' \in BOOLEAN,
           UNCHANGED install, app' \in Apps,
           pc' \in Steps, run' \in Runs, edited' \subseteq Edits, raced' \subseteq edited',
           faults' \in 0..MaxFaults, engine' => pc' = "compare", FilesThere'
    PROVE  TypeInv'
<1>1. /\ {run'.dry, run'.accept, run'.changed} \subseteq BOOLEAN
      /\ run'.rollback \in Plan \cup {NoPlan}
    BY DEF Runs
<1>2. /\ midDemo' \in {"no", "seed", "rows"} /\ legacy' \in {"none", "data", "plan"}
      /\ elsewhere' \in BOOLEAN
    BY DEF TypeInv, TypeOK, install
<1>3. app' \in [flags : BOOLEAN, registered : BOOLEAN, done : BOOLEAN]
    BY DEF Apps
<1> QED
    BY <1>1, <1>2, <1>3 DEF TypeInv, TypeOK

LEMMA NextType == TypeInv /\ [Next]_vars => TypeInv'
<1> SUFFICES ASSUME TypeInv, [Next]_vars PROVE TypeInv'
    OBVIOUS
<1>0. /\ live \in Plan \cup {NoPlan} /\ keeps \subseteq Plan /\ staging \in Plan \cup {NoPlan}
      /\ backup \in BOOLEAN /\ secrets \in BOOLEAN /\ engine \in BOOLEAN
      /\ app \in Apps /\ pc \in Steps /\ run \in Runs
      /\ edited \subseteq Edits /\ raced \subseteq edited /\ faults \in 0..MaxFaults
      /\ engine => pc = "compare"
      /\ FilesThere
    BY DEF TypeInv, TypeOK, Apps
<1>n. NoRun \in Runs
    BY DEF NoRun, Runs
<1> USE <1>0, <1>n
    DEF Steps, Step, Stop, Goto, files, environment, edits, FilesThere, Staged, Installing
<1>1. ASSUME NEW dry \in BOOLEAN, NEW accept \in BOOLEAN, Start(dry, accept) PROVE TypeInv'
    <2>1. run' \in Runs
        BY <1>1 DEF Start, Runs
    <2> QED
        BY <1>1, <2>1, TypeStep DEF Start
<1>2. CASE Decide
    <2>1. pc' \in {"idle", "look", "backup"} /\ run' \in Runs
          /\ UNCHANGED <<files, environment, engine, faults>> /\ pc = "decide"
        BY <1>2 DEF Decide
    <2> QED
        BY <2>1, TypeStep
<1>3. CASE EnsureBackup
    BY <1>3, TypeStep DEF EnsureBackup
<1>4. CASE LookAtLive
    <2>1. run' \in Runs
        BY <1>4, ContentType DEF LookAtLive, Runs
    <2> QED
        BY <1>4, <2>1, TypeStep DEF LookAtLive
<1>5. CASE PrepareStaging
    <2>1. staging' \in Plan
        BY <1>5, Seed, Empties DEF PrepareStaging
    <2>2. run' \in Runs
        <3> DEFINE seed == midDemo = "seed" /\ ~(live # NoPlan /\ live.seeded)
        <3>1. seed \in BOOLEAN /\ run' = [run EXCEPT !.changed = seed]
            BY <1>5 DEF PrepareStaging
        <3> HIDE DEF seed
        <3> QED
            BY <3>1 DEF Runs
    <2> QED
        BY <1>5, <2>1, <2>2, NoPlanAssumption, TypeStep DEF PrepareStaging
<1>6. CASE ConvertStaging
    <2>1. staging' \in Plan /\ staging' # NoPlan
        BY <1>6, Converts
    <2>2. run' \in Runs
        BY <1>6 DEF ConvertStaging, Runs
    <2> QED
        BY <1>6, <2>1, <2>2, TypeStep DEF ConvertStaging
<1>7. CASE EnterEngine
    <2>1. run.changed \in BOOLEAN
        BY DEF Runs
    <2> QED
        BY <1>7, <2>1, TypeStep DEF EnterEngine
<1>8. CASE Compare
    <2>1. (~run.accept /\ Stop("compare")) \/ Step("compare", "originals")
        BY <1>8, Zenon DEF Compare
    <2>2. pc = "compare" /\ pc' \in {"finish", "originals"} /\ UNCHANGED <<run, faults>>
        BY <2>1
    <2>3. engine' = FALSE /\ UNCHANGED <<files, environment>>
        BY <1>8 DEF Compare
    <2> QED
        BY <2>2, <2>3, TypeStep
<1>9. CASE CheckOriginals
    <2>1. \/ Stop("originals")
          \/ Step("originals", IF run.changed \/ live = NoPlan THEN "mark" ELSE "flags")
        BY <1>9, Zenon DEF CheckOriginals
    <2>2. /\ pc = "originals"
          /\ pc' \in {"finish", "mark", "flags"}
          /\ pc' = "flags" => live # NoPlan
          /\ UNCHANGED <<run, faults>>
        BY <2>1
    <2>3. UNCHANGED <<files, environment, engine>>
        BY <1>9 DEF CheckOriginals
    <2> QED
        BY <2>2, <2>3, TypeStep
<1>10. CASE MarkVerified
    <2>1. staging' \in Plan /\ staging' # NoPlan
        BY <1>10, Marked DEF MarkVerified
    <2> QED
        BY <1>10, <2>1, TypeStep DEF MarkVerified
<1>11. CASE CheckLive
    <2>1. /\ pc = "check" /\ pc' \in {"finish", "replace", "keep"}
          /\ pc' = "keep" => live # NoPlan
          /\ UNCHANGED <<run, faults, files, environment, engine>>
        BY <1>11 DEF CheckLive
    <2> QED
        BY <2>1, TypeStep
<1>12. CASE KeepLive
    <2>1. pc = "keep" /\ live \in Plan /\ live # NoPlan
        BY <1>12 DEF KeepLive
    <2>2. /\ keeps' = keeps \cup {live}
          /\ pc' \in {"finish", "replace"} /\ UNCHANGED faults
          /\ UNCHANGED <<live, backup, staging, app, secrets, environment, engine>>
        BY <1>12 DEF KeepLive
    <2>3. run' \in Runs
        BY <1>12, <2>1 DEF KeepLive, Runs
    <2> QED
        BY <2>1, <2>2, <2>3, TypeStep
<1>13. CASE ReplaceActive
    BY <1>13, TypeStep DEF ReplaceActive
<1>14. CASE ConvertFlags
    <2>1. app' \in Apps
        BY <1>14 DEF ConvertFlags, Apps
    <2> QED
        BY <1>14, <2>1, TypeStep DEF ConvertFlags
<1>15. CASE MoveSecrets
    BY <1>15, TypeStep DEF MoveSecrets
<1>16. CASE Register
    <2>1. app' \in Apps /\ pc = "register" /\ pc' \in {"registered", "done"}
          /\ UNCHANGED <<run, faults>>
        BY <1>16 DEF Register, Apps
    <2>2. UNCHANGED <<live, keeps, backup, staging, secrets, environment, engine>>
        BY <1>16 DEF Register
    <2> QED
        BY <2>1, <2>2, TypeStep
<1>17. CASE MarkRegistered
    <2>1. live' \in Plan /\ live' # NoPlan
        BY <1>17, Marked DEF MarkRegistered
    <2> QED
        BY <1>17, <2>1, TypeStep DEF MarkRegistered
<1>18. CASE MarkDone
    <2>1. live' \in Plan /\ live' # NoPlan
        BY <1>18, Marked DEF MarkDone
    <2> QED
        BY <1>18, <2>1, TypeStep DEF MarkDone
<1>19. CASE MarkAppDone
    <2>1. app' \in Apps
        BY <1>19 DEF MarkAppDone, Apps
    <2> QED
        BY <1>19, <2>1, TypeStep DEF MarkAppDone
<1>20. CASE Finish
    BY <1>20, TypeStep DEF Finish
<1>21. CASE StepFails
    <2>1. (\E step \in Steps \ {"idle", "finish"} : Fails(step)) /\ engine' = FALSE
        BY <1>21, Zenon DEF StepFails
    <2>2. PICK step \in Steps \ {"idle", "finish"} : Fails(step)
        BY <2>1
    <2>3. /\ pc' \in {"idle", "finish"} /\ faults' \in 0..MaxFaults /\ run' \in Runs
          /\ UNCHANGED <<files, environment>>
        BY <2>2, ConversionAssumption DEF Fails
    <2> QED
        BY <2>1, <2>3, TypeStep
<1>22. CASE Crash
    <2>1. faults' \in 0..MaxFaults
        BY <1>22, ConversionAssumption DEF Crash
    <2> QED
        BY <1>22, <2>1, TypeStep DEF Crash
<1>23. ASSUME NEW e \in Edits, EditPlan(e) PROVE TypeInv'
    <2>1. live' = live \/ (live' \in Plan /\ live' # NoPlan)
        <3>1. live # NoPlan => live \in Plan
            OBVIOUS
        <3> QED
            BY <1>23, <3>1, Empties, Edited DEF EditPlan
    <2>2. /\ edited' \subseteq Edits /\ raced' \subseteq edited'
          /\ UNCHANGED <<keeps, backup, staging, app, secrets, install, pc, run, engine,
                         faults>>
        BY <1>23 DEF EditPlan
    <2> QED
        BY <2>1, <2>2, TypeStep
<1>24. CASE UNCHANGED vars
    BY <1>24, TypeStep DEF vars
<1> QED
    BY <1>1, <1>2, <1>3, <1>4, <1>5, <1>6, <1>7, <1>8, <1>9, <1>10, <1>11, <1>12,
       <1>13, <1>14, <1>15, <1>16, <1>17, <1>18, <1>19, <1>20, <1>21, <1>22, <1>23,
       <1>24 DEF Next, RunStep

(* The files, app.db and the run keep their types, and the process works   *)
(* on another plan than the user's only while the engine compares.         *)
THEOREM Typed == Spec => []TypeOK
<1>1. Init => TypeInv
    BY InitType
<1>2. TypeInv /\ [Next]_vars => TypeInv'
    BY NextType
<1>3. TypeInv => TypeOK
    BY DEF TypeInv
<1> QED
    BY <1>1, <1>2, <1>3, PTL DEF Spec

-----------------------------------------------------------------------------
(* Whole and verified, done last                                           *)

Converted(p) == p # NoPlan /\ p.converted

(* The install is to be registered once it is converted. *)
Owned == (legacy = "plan" \/ midDemo = "seed") /\ ~elsewhere

(* What the marks of a plan stand for, in whatever file it is: a copy of   *)
(* the plan a demo put aside, a household, a registration, an install.     *)
Sound(p) ==
    p # NoPlan =>
        /\ p.seeded => midDemo = "seed" /\ p.household
        /\ p.converted /\ midDemo = "seed" => p.seeded
        /\ p.converted /\ legacy = "plan" => HasHousehold(p)
        /\ p.registered => app.registered
        /\ p.done => p.converted /\ app.flags /\ (Owned => p.registered)

(* A copy on its way to the swap is converted, then verified, with a       *)
(* backup at hand; a dry run never comes near.  With a demo open it starts *)
(* from the plan put aside.                                                *)
StagingOK ==
    /\ pc \in Staged \ {"convert"} => staging.converted
    /\ pc \in {"check", "keep", "replace"} => staging.verified
    /\ pc \in {"mark", "check", "keep", "replace"} \cup Installing => ~run.dry
    /\ pc \in {"look", "stage"} \cup Staged /\ ~run.dry => backup
    /\ pc = "convert" /\ midDemo = "seed" => staging.seeded

(* A run that has something to convert works on a plan not converted yet;  *)
(* one that found nothing, on a converted plan.                            *)
OnceOK ==
    /\ pc = "convert" /\ ~staging.converted => ~Converted(live)
    /\ pc = "convert" /\ run.changed => ~Converted(live)
    /\ pc = "convert" /\ ~run.changed /\ staging.converted => Converted(live)
    /\ pc \in {"verify", "compare", "originals"} => run.changed = ~Converted(live)
    /\ pc \in {"mark", "check", "keep", "replace"} => ~Converted(live)
    /\ pc \in Staged /\ staging.done => Done(live)

(* The install steps work on the converted plan, one after the other. *)
InstallOK ==
    /\ pc \in Installing => Converted(live)
    /\ pc \in {"secrets", "register", "registered", "done"} => app.flags
    /\ pc = "registered" => app.registered
    /\ pc = "done" /\ Owned => live.registered

SafeInv ==
    /\ Sound(live) /\ Sound(staging) /\ VerifiedOrUntouched
    /\ StagingOK /\ OnceOK /\ InstallOK

(* A step that leaves the files keeps what is true of them. *)
LEMMA SameFiles ==
    ASSUME SafeInv, UNCHANGED <<files, install>>
    PROVE  /\ Sound(live)' /\ Sound(staging)' /\ VerifiedOrUntouched'
           /\ pc' \in {"idle", "finish", "decide"} => SafeInv'
<1>1. Sound(live)' /\ Sound(staging)' /\ VerifiedOrUntouched'
    BY DEF SafeInv, Sound, Owned, HasHousehold, VerifiedOrUntouched, files, install
<1>2. pc' \in {"idle", "finish", "decide"} => StagingOK' /\ OnceOK' /\ InstallOK'
    BY DEF StagingOK, OnceOK, InstallOK, Staged, Installing
<1> QED
    BY <1>1, <1>2 DEF SafeInv

(* So does an install step that adds to app.db. *)
LEMMA SoundStays ==
    ASSUME Sound(live), Sound(staging), UNCHANGED install,
           app.flags => app'.flags, app.registered => app'.registered
    PROVE  /\ live' = live => Sound(live)'
           /\ live' = staging => Sound(live)'
           /\ staging' \in {staging, NoPlan} => Sound(staging)'
           /\ staging' = live => Sound(staging)'
BY DEF Sound, Owned, HasHousehold, install

(* And a user's edit: the marks stay, a household stays. *)
LEMMA EditSafe ==
    ASSUME TypeInv, SafeInv, NEW e \in Edits, EditPlan(e)
    PROVE  /\ UNCHANGED <<staging, backup, app, install, pc, run>>
           /\ Converted(live') = Converted(live) /\ Done(live') = Done(live)
           /\ live # NoPlan => live' # NoPlan /\ live'.registered = live.registered
           /\ Sound(live)' /\ VerifiedOrUntouched'
<1>1. UNCHANGED <<staging, backup, app, install, pc, run>>
    BY DEF EditPlan
<1>2. CASE engine
    <2>1. live' = live
        BY <1>2 DEF EditPlan
    <2> QED
        BY <1>1, <2>1, SoundStays DEF SafeInv, VerifiedOrUntouched
<1>3. CASE ~engine /\ live = NoPlan
    <2>1. live' = [EmptyPlan EXCEPT !.edits = @ \cup {e}]
        BY <1>3 DEF EditPlan
    <2>2. /\ live' # NoPlan /\ ~live'.converted /\ ~live'.seeded /\ ~live'.registered
          /\ ~live'.done
        BY <2>1, Empties, Edited
    <2> QED
        BY <1>1, <1>3, <2>2 DEF Converted, Done, Sound, VerifiedOrUntouched
<1>4. CASE ~engine /\ live # NoPlan
    <2>1. live' = [live EXCEPT !.edits = @ \cup {e}] /\ live \in Plan
        BY <1>4 DEF EditPlan, TypeInv, TypeOK
    <2>2. /\ live' # NoPlan /\ live'.edits = live.edits \cup {e}
          /\ live'.converted = live.converted /\ live'.household = live.household
          /\ live'.seeded = live.seeded /\ live'.verified = live.verified
          /\ live'.registered = live.registered /\ live'.done = live.done
        BY <2>1, Edited
    <2>3. Sound(live)'
        BY <1>1, <1>4, <2>2 DEF SafeInv, Sound, Owned, HasHousehold, install
    <2>4. VerifiedOrUntouched'
        BY <1>1, <1>4, <2>2 DEF SafeInv, VerifiedOrUntouched
    <2> QED
        BY <1>1, <1>4, <2>2, <2>3, <2>4 DEF Converted, Done
<1> QED
    BY <1>2, <1>3, <1>4

LEMMA SafeStep == TypeInv /\ SafeInv /\ [Next]_vars => SafeInv'
<1> SUFFICES ASSUME TypeInv, SafeInv, [Next]_vars PROVE SafeInv'
    OBVIOUS
<1>0. /\ live \in Plan \cup {NoPlan} /\ staging \in Plan \cup {NoPlan}
      /\ app \in Apps /\ run \in Runs /\ FilesThere
    BY DEF TypeInv, TypeOK, Apps
<1>a. Sound(live) /\ Sound(staging) /\ VerifiedOrUntouched /\ StagingOK /\ OnceOK /\ InstallOK
    BY DEF SafeInv
<1>f. run.changed \in BOOLEAN /\ run.dry \in BOOLEAN
    BY <1>0 DEF Runs
<1> DEFINE Files == Sound(live)' /\ Sound(staging)' /\ VerifiedOrUntouched'
           Goal == StagingOK' /\ OnceOK' /\ InstallOK'
<1>g. Files /\ Goal => SafeInv'
    BY DEF SafeInv
<1>s. UNCHANGED <<files, install>> => Files
    BY SameFiles
<1>v. UNCHANGED <<live, backup>> => VerifiedOrUntouched'
    BY <1>a DEF VerifiedOrUntouched
<1> HIDE DEF Goal, Files
<1> USE <1>a, <1>f
    DEF Step, Stop, Goto, environment, StagingOK, OnceOK, InstallOK, Converted, Done,
        Staged, Installing
<1>1. ASSUME NEW dry \in BOOLEAN, NEW accept \in BOOLEAN, Start(dry, accept) PROVE SafeInv'
    BY <1>1, SameFiles DEF Start
<1>2. CASE Decide
    <2>1. UNCHANGED <<files, install>>
        BY <1>2 DEF Decide
    <2>2. CASE pc' = "idle"
        BY <2>1, <2>2, SameFiles
    <2>3. CASE pc' # "idle"
        <3>1. /\ pc' = (IF run.dry \/ Done(live) THEN "look" ELSE "backup")
              /\ UNCHANGED run
            BY <1>2, <2>3 DEF Decide
        <3>2. Done(live) => backup
            BY DEF Sound, VerifiedOrUntouched
        <3>3. Goal
            BY <2>1, <3>1, <3>2 DEF Goal, files
        <3> QED
            BY <2>1, <3>3, <1>g, <1>s
    <2> QED
        BY <2>2, <2>3
<1>3. CASE EnsureBackup
    <2>1. UNCHANGED <<live, staging, app, install, run>> /\ pc' = "look" /\ backup'
        BY <1>3 DEF EnsureBackup
    <2>2. Files
        BY <2>1, SoundStays DEF Files, VerifiedOrUntouched
    <2>3. Goal
        BY <2>1 DEF Goal
    <2> QED
        BY <2>2, <2>3, <1>g
<1>4. CASE LookAtLive
    <2>1. /\ pc' = "stage" /\ run'.dry = run.dry /\ pc = "look"
          /\ UNCHANGED <<files, install>>
        BY <1>4, <1>0 DEF LookAtLive, Runs
    <2>2. Goal
        BY <2>1 DEF Goal, files
    <2> QED
        BY <2>1, <2>2, <1>g, <1>s
<1>5. CASE PrepareStaging
    <2> DEFINE seed == midDemo = "seed" /\ ~(live # NoPlan /\ live.seeded)
    <2>1. /\ pc' = "convert" /\ pc = "stage"
          /\ UNCHANGED <<live, backup, app, install>>
          /\ run'.dry = run.dry /\ run'.changed = seed
        BY <1>5, <1>0 DEF PrepareStaging, Runs
    <2>2. staging' = IF seed THEN [HouseholdPlan EXCEPT !.seeded = TRUE]
                     ELSE IF live = NoPlan THEN EmptyPlan ELSE live
        BY <1>5 DEF PrepareStaging
    <2>3. seed => ~Converted(live)
        BY DEF Sound
    <2>4. midDemo' = midDemo
        BY <2>1 DEF install
    <2>5. Sound(live)' /\ VerifiedOrUntouched'
        BY <2>1, SoundStays, <1>v
    <2>6. CASE seed
        <3>1. /\ staging' # NoPlan /\ staging'.seeded /\ staging'.household
              /\ ~staging'.converted /\ ~staging'.registered /\ ~staging'.done
            BY <2>2, <2>6, Seed
        <3>2. Sound(staging)'
            BY <2>4, <2>6, <3>1 DEF Sound
        <3>3. Goal
            BY <2>1, <2>3, <2>6, <3>1 DEF Goal
        <3> QED
            BY <2>5, <3>2, <3>3, <1>g DEF Files
    <2>7. CASE ~seed /\ live = NoPlan
        <3>1. /\ staging' # NoPlan /\ ~staging'.seeded
              /\ ~staging'.converted /\ ~staging'.registered /\ ~staging'.done
            BY <2>2, <2>7, Empties
        <3>2. Sound(staging)'
            BY <3>1 DEF Sound
        <3>3. Goal
            BY <2>1, <2>4, <2>7, <3>1 DEF Goal
        <3> QED
            BY <2>5, <3>2, <3>3, <1>g DEF Files
    <2>8. CASE ~seed /\ live # NoPlan
        <3>1. staging' = live
            BY <2>2, <2>8
        <3>2. Sound(staging)'
            BY <2>1, <3>1, SoundStays
        <3>3. Goal
            BY <2>1, <2>4, <2>8, <3>1 DEF Goal
        <3> QED
            BY <2>5, <3>2, <3>3, <1>g DEF Files
    <2> QED
        BY <2>6, <2>7, <2>8
<1>6. CASE ConvertStaging
    <2>1. /\ pc = "convert" /\ pc' = "verify"
          /\ UNCHANGED <<live, backup, app, install>>
          /\ run'.dry = run.dry
          /\ run'.changed = (run.changed \/ ~staging.converted)
        BY <1>6, <1>0 DEF ConvertStaging, Runs
    <2>2. /\ staging' # NoPlan /\ staging'.converted
          /\ staging'.seeded = staging.seeded /\ staging'.done = staging.done
          /\ staging'.registered = staging.registered
          /\ staging.household => staging'.household
          /\ HasHousehold(staging) => HasHousehold(staging')
          /\ ~staging.converted /\ legacy = "plan" => HasHousehold(staging')
        BY <1>6, Converts
    <2>3. staging # NoPlan
        BY <1>0, <2>1 DEF FilesThere
    <2>4. UNCHANGED <<midDemo, legacy, elsewhere>>
        BY <2>1 DEF install
    <2>5. HasHousehold(staging)' = HasHousehold(staging')
        BY DEF HasHousehold
    <2>6. Sound(staging)'
        BY <2>1, <2>2, <2>3, <2>4, <2>5 DEF Sound, Owned
    <2>7. Goal
        BY <2>1, <2>2 DEF Goal
    <2> QED
        BY <2>1, <2>6, <2>7, SoundStays, <1>g, <1>v DEF Files
<1>7. CASE EnterEngine
    <2>1. /\ pc = "verify" /\ pc' \in {"compare", "originals"}
          /\ UNCHANGED <<files, install, run>>
        BY <1>7 DEF EnterEngine
    <2>2. Goal
        BY <2>1 DEF Goal, files
    <2> QED
        BY <2>1, <2>2, <1>g, <1>s
<1>8. CASE Compare
    <2>1. Stop("compare") \/ Step("compare", "originals")
        BY <1>8, Zenon DEF Compare
    <2>2. /\ pc = "compare" /\ pc' \in {"finish", "originals"}
          /\ UNCHANGED <<files, install, run>>
        BY <1>8, <2>1 DEF Compare
    <2>3. pc' = "originals" => Goal
        BY <2>2 DEF Goal, files
    <2> QED
        BY <2>2, <2>3, <1>g, <1>s, SameFiles
<1>9. CASE CheckOriginals
    <2>1. \/ run.dry /\ Stop("originals")
          \/ ~run.dry
             /\ Step("originals", IF run.changed \/ live = NoPlan THEN "mark" ELSE "flags")
        BY <1>9, Zenon DEF CheckOriginals
    <2>2. UNCHANGED <<files, install>>
        BY <1>9 DEF CheckOriginals
    <2>3. CASE pc' = "finish"
        BY <2>2, <2>3, SameFiles
    <2>4. CASE pc' # "finish"
        <3>1. /\ pc = "originals" /\ ~run.dry /\ UNCHANGED run
              /\ pc' = IF run.changed \/ live = NoPlan THEN "mark" ELSE "flags"
            BY <2>1, <2>4
        <3>2. Goal
            BY <2>2, <3>1 DEF Goal, files
        <3> QED
            BY <2>2, <3>2, <1>g, <1>s
    <2> QED
        BY <2>3, <2>4
<1>10. CASE MarkVerified
    <2>1. /\ pc = "mark" /\ pc' = "check" /\ UNCHANGED <<live, backup, app, install, run>>
          /\ staging' = [staging EXCEPT !.verified = TRUE]
        BY <1>10 DEF MarkVerified
    <2>2. staging \in Plan
        BY <1>0, <2>1 DEF FilesThere
    <2>3. /\ staging' # NoPlan /\ staging'.verified
          /\ staging'.converted = staging.converted /\ staging'.seeded = staging.seeded
          /\ staging'.household = staging.household /\ staging'.edits = staging.edits
          /\ staging'.registered = staging.registered /\ staging'.done = staging.done
        BY <2>1, <2>2, Marked
    <2>4. Sound(staging)'
        BY <2>1, <2>2, <2>3, NoPlanAssumption DEF Sound, Owned, HasHousehold, install
    <2>5. Goal
        BY <2>1, <2>3 DEF Goal
    <2> QED
        BY <2>1, <2>4, <2>5, SoundStays, <1>g, <1>v DEF Files
<1>11. CASE CheckLive
    <2>1. /\ pc = "check" /\ UNCHANGED <<files, install, run>>
          /\ pc' \in {"finish", "replace", "keep"}
        BY <1>11 DEF CheckLive
    <2>2. pc' # "finish" => Goal
        BY <2>1 DEF Goal, files
    <2> QED
        BY <2>1, <2>2, <1>g, <1>s, SameFiles
<1>12. CASE KeepLive
    <2>1. /\ pc = "keep" /\ UNCHANGED <<live, staging, app, backup, install>>
          /\ pc' \in {"finish", "replace"} /\ run'.dry = run.dry
        BY <1>12, <1>0 DEF KeepLive, Runs
    <2>2. Files
        BY <2>1, SoundStays, <1>v DEF Files
    <2>3. Goal
        BY <2>1 DEF Goal
    <2> QED
        BY <2>2, <2>3, <1>g
<1>13. CASE ReplaceActive
    <2>1. /\ pc = "replace" /\ pc' = "flags" /\ live' = staging
          /\ UNCHANGED <<staging, app, backup, install, run>>
        BY <1>13 DEF ReplaceActive
    <2>2. staging # NoPlan
        BY <1>0, <2>1 DEF FilesThere
    <2>3. Files
        BY <2>1, SoundStays DEF Files, VerifiedOrUntouched
    <2>4. Goal
        BY <2>1, <2>2 DEF Goal
    <2> QED
        BY <2>3, <2>4, <1>g
<1>14. CASE ConvertFlags
    <2>1. /\ pc = "flags" /\ pc' = "secrets" /\ app'.flags /\ app'.registered = app.registered
          /\ UNCHANGED <<live, staging, backup, install, run>>
        BY <1>14, <1>0 DEF ConvertFlags, Apps
    <2>2. Files
        BY <2>1, SoundStays, <1>v DEF Files
    <2>3. Goal
        BY <2>1 DEF Goal
    <2> QED
        BY <2>2, <2>3, <1>g
<1>15. CASE MoveSecrets
    <2>1. /\ pc = "secrets" /\ pc' = "register"
          /\ UNCHANGED <<live, staging, app, backup, install, run>>
        BY <1>15 DEF MoveSecrets
    <2>2. Files
        BY <2>1, SoundStays, <1>v DEF Files
    <2>3. Goal
        BY <2>1 DEF Goal
    <2> QED
        BY <2>2, <2>3, <1>g
<1>16. CASE Register
    <2>1. /\ pc = "register" /\ app'.flags = app.flags
          /\ app.registered => app'.registered
          /\ Registers => pc' = "registered" /\ app'.registered
          /\ ~Registers => pc' = "done"
          /\ UNCHANGED <<live, staging, backup, install, run>>
        BY <1>16, <1>0 DEF Register, Apps
    <2>2. Files
        BY <2>1, SoundStays, <1>v DEF Files
    <2>3. ~Registers /\ Owned => live.registered
        BY <2>1 DEF Sound, Owned, Registers, HasHousehold
    <2>4. Owned' = Owned
        BY <2>1 DEF Owned, install
    <2>5. Goal
        BY <2>1, <2>3, <2>4 DEF Goal
    <2> QED
        BY <2>2, <2>5, <1>g
<1>17. CASE MarkRegistered
    <2>1. /\ pc = "registered" /\ pc' = "done" /\ live \in Plan
          /\ UNCHANGED <<staging, app, backup, install, run>>
          /\ live' = [live EXCEPT !.registered = TRUE]
        BY <1>17, <1>0 DEF MarkRegistered, FilesThere
    <2>2. /\ live' # NoPlan /\ live'.registered /\ live'.edits = live.edits
          /\ live'.converted = live.converted /\ live'.verified = live.verified
          /\ live'.seeded = live.seeded /\ live'.household = live.household
          /\ live'.done = live.done
        BY <2>1, Marked
    <2>3. Sound(live)'
        BY <2>1, <2>2, NoPlanAssumption DEF Sound, Owned, HasHousehold, install
    <2>4. Files
        BY <2>1, <2>2, <2>3, SoundStays, NoPlanAssumption DEF Files, VerifiedOrUntouched
    <2>5. Goal
        BY <2>1, <2>2 DEF Goal
    <2> QED
        BY <2>4, <2>5, <1>g
<1>18. CASE MarkDone
    <2>1. /\ pc = "done" /\ pc' = "appdone" /\ live \in Plan
          /\ UNCHANGED <<staging, app, backup, install, run>>
          /\ live' = [live EXCEPT !.done = TRUE]
        BY <1>18, <1>0 DEF MarkDone, FilesThere
    <2>2. /\ live' # NoPlan /\ live'.registered = live.registered /\ live'.edits = live.edits
          /\ live'.converted = live.converted /\ live'.verified = live.verified
          /\ live'.seeded = live.seeded /\ live'.household = live.household
        BY <2>1, Marked
    <2>3. Sound(live)'
        BY <2>1, <2>2, NoPlanAssumption DEF Sound, Owned, HasHousehold, install
    <2>4. Files
        BY <2>1, <2>2, <2>3, SoundStays, NoPlanAssumption DEF Files, VerifiedOrUntouched
    <2>5. Goal
        BY <2>1 DEF Goal
    <2> QED
        BY <2>4, <2>5, <1>g
<1>19. CASE MarkAppDone
    <2>1. /\ pc' = "finish" /\ app'.flags = app.flags /\ app'.registered = app.registered
          /\ UNCHANGED <<live, staging, backup, install>>
        BY <1>19, <1>0 DEF MarkAppDone, Apps
    <2>2. Files
        BY <2>1, SoundStays, <1>v DEF Files
    <2>3. Goal
        BY <2>1 DEF Goal
    <2> QED
        BY <2>2, <2>3, <1>g
<1>20. CASE Finish
    <2>1. pc' = "idle" /\ staging' = NoPlan /\ UNCHANGED <<live, app, backup, install>>
        BY <1>20 DEF Finish
    <2>2. Files
        BY <2>1, SoundStays, <1>v DEF Files
    <2>3. Goal
        BY <2>1 DEF Goal
    <2> QED
        BY <2>2, <2>3, <1>g
<1>21. CASE StepFails
    <2>1. \E step : Fails(step)
        BY <1>21, Zenon DEF StepFails
    <2>2. pc' \in {"idle", "finish"} /\ UNCHANGED <<files, install>>
        BY <2>1 DEF Fails
    <2> QED
        BY <2>2, SameFiles
<1>22. CASE Crash
    BY <1>22, SameFiles DEF Crash
<1>23. ASSUME NEW e \in Edits, EditPlan(e) PROVE SafeInv'
    <2>1. /\ UNCHANGED <<staging, backup, app, install, pc, run>>
          /\ Converted(live') = Converted(live) /\ Done(live') = Done(live)
          /\ live # NoPlan => live' # NoPlan /\ live'.registered = live.registered
          /\ Sound(live)' /\ VerifiedOrUntouched'
        BY <1>23, EditSafe
    <2>2. Files
        BY <2>1, SoundStays DEF Files
    <2>3. UNCHANGED <<midDemo, Owned>>
        BY <2>1 DEF install, Owned
    <2>4. StagingOK'
        BY <2>1, <2>3
    <2>5. OnceOK' /\ InstallOK'
        BY <2>1, <2>3
    <2> QED
        BY <2>2, <2>4, <2>5, <1>g DEF Goal
<1>24. CASE UNCHANGED vars
    <2>1. UNCHANGED <<files, install, pc, run>>
        BY <1>24 DEF vars
    <2>2. Goal
        BY <2>1 DEF Goal, files, install, Owned
    <2> QED
        BY <2>1, <2>2, <1>g, <1>s
<1> QED
    BY <1>1, <1>2, <1>3, <1>4, <1>5, <1>6, <1>7, <1>8, <1>9, <1>10, <1>11, <1>12,
       <1>13, <1>14, <1>15, <1>16, <1>17, <1>18, <1>19, <1>20, <1>21, <1>22, <1>23,
       <1>24 DEF Next, RunStep

LEMMA InitSafe == Init => SafeInv
BY Empties DEF Init, SafeInv, Sound, StagingOK, OnceOK, InstallOK, VerifiedOrUntouched,
               Staged, Installing

LEMMA Safe == Spec => [](TypeInv /\ SafeInv)
<1>1. Init => TypeInv /\ SafeInv
    BY InitType, InitSafe
<1>2. TypeInv /\ SafeInv /\ [Next]_vars => TypeInv' /\ SafeInv'
    BY NextType, SafeStep
<1> QED
    BY <1>1, <1>2, PTL DEF Spec

(* Wherever a run is killed or fails, the live plan is the old one or a    *)
(* whole verified one with a backup at hand (workspace.py:39-41), also     *)
(* while requests are served.                                              *)
THEOREM Verified == Spec => []VerifiedOrUntouched
<1>1. SafeInv => VerifiedOrUntouched
    BY DEF SafeInv
<1> QED
    BY <1>1, Safe, PTL

(* The done marker promises the settings and the registration of a         *)
(* household, whether the legacy data hold it or the plan a demo put aside *)
(* (workspace.py:340).                                                     *)
THEOREM DoneInstalled == Spec => []DoneMeansInstalled
<1>1. SafeInv => DoneMeansInstalled
    BY DEF SafeInv, Sound, Owned, Done, DoneMeansInstalled
<1> QED
    BY <1>1, Safe, PTL

-----------------------------------------------------------------------------
(* The user's edits                                                        *)

(* An edit made to the demo is in a kept copy of the demo. *)
DemoKept(e) == midDemo = "seed" /\ \E p \in keeps : ~p.seeded /\ e \in Held(p)

(* Nothing is in a plan or in what a run looked at before the user made it; *)
(* so a plan that still looks the same has no edit since.                  *)
LookOK ==
    /\ live # NoPlan => live.edits \subseteq edited
    /\ staging # NoPlan => staging.edits \subseteq edited
    /\ \A p \in Plan : run.before = Content(p) => p.edits \subseteq edited

(* While the plan looks the same, its copy holds its edits; the copy of    *)
(* the plan put aside does not hold those of the demo.                     *)
CopyOK ==
    pc \in Staged /\ live # NoPlan /\ Content(live) = run.before
    /\ (staging.seeded => live.seeded) =>
        Held(live) \subseteq Held(staging)

(* At the swap the edits are in the copy or in the kept demo, and what the *)
(* run last looked at is kept. *)
SwapOK ==
    /\ pc = "replace" => \A e \in edited \ raced : e \in Held(staging) \/ DemoKept(e)
    /\ run.rollback \in keeps \cup {NoPlan}
    /\ pc = "replace" => run.before = NoPlan \/ run.rollback # NoPlan

KeptInv == EditsSurvive /\ LookOK /\ CopyOK /\ SwapOK

LEMMA SurviveDef ==
    EditsSurvive <=> \A e \in edited \ raced : e \in Held(live) \/ DemoKept(e)
BY DEF EditsSurvive, DemoKept

(* A step that leaves the plan, its copy and the kept copies keeps what is *)
(* true of the edits, if it begins no swap.                                *)
LEMMA SameEdits ==
    ASSUME KeptInv, UNCHANGED <<live, keeps, install, edits>>,
           staging' \in {staging, NoPlan}, pc' # "replace",
           run'.before \in {run.before, NoPlan}, run'.rollback \in {run.rollback, NoPlan},
           pc' \in Staged => pc \in Staged /\ UNCHANGED <<staging, run>>
    PROVE  KeptInv'
<1>1. EditsSurvive'
    BY DEF KeptInv, EditsSurvive, install, edits
<1>2. LookOK'
    <2>1. \A p \in Plan : Content(p) # NoPlan
        BY ContentType, NoPlanAssumption
    <2> QED
        BY <2>1 DEF KeptInv, LookOK, edits
<1>3. CopyOK'
    <2>1. CASE pc' \in Staged
        BY <2>1 DEF KeptInv, CopyOK
    <2>2. CASE pc' \notin Staged
        BY <2>2 DEF CopyOK
    <2> QED
        BY <2>1, <2>2
<1>4. SwapOK'
    BY DEF KeptInv, SwapOK
<1> QED
    BY <1>1, <1>2, <1>3, <1>4 DEF KeptInv

(* So does an install step that only marks the plan. *)
LEMMA MarkKeeps ==
    ASSUME KeptInv, live # NoPlan, live' # NoPlan,
           live'.edits = live.edits, live'.kept = live.kept,
           UNCHANGED <<staging, keeps, install, edits, run>>, pc' \notin Staged
    PROVE  KeptInv'
<1>1. EditsSurvive'
    BY DEF KeptInv, EditsSurvive, Held, install, edits
<1>2. LookOK'
    BY DEF KeptInv, LookOK, edits
<1>3. CopyOK'
    BY DEF CopyOK
<1>4. SwapOK'
    BY DEF KeptInv, SwapOK, Staged
<1> QED
    BY <1>1, <1>2, <1>3, <1>4 DEF KeptInv

(* A user's edit is in the plan, or the run does not look any more.        *)
LEMMA EditKeeps ==
    ASSUME TypeInv, SafeInv, KeptInv, NEW e \in Edits, EditPlan(e)
    PROVE  KeptInv'
<1>0. live \in Plan \cup {NoPlan}
    BY DEF TypeInv, TypeOK
<1>1. /\ UNCHANGED <<staging, keeps, install, pc, run>>
      /\ edited' = edited \cup {e} /\ e \notin edited
      /\ raced' = IF engine \/ pc = "replace" THEN raced \cup {e} ELSE raced
    BY DEF EditPlan
<1>2. \A f : DemoKept(f)' <=> DemoKept(f)
    BY <1>1 DEF DemoKept, install
<1>3. SwapOK'
    <2>1. pc = "replace" => edited' \ raced' = edited \ raced
        BY <1>1 DEF KeptInv, TypeInv, TypeOK
    <2> QED
        BY <1>1, <1>2, <2>1 DEF KeptInv, SwapOK
<1>4. CASE engine
    <2>1. live' = live /\ edited' \ raced' = edited \ raced
        BY <1>1, <1>4 DEF EditPlan, TypeInv, TypeOK
    <2>2. EditsSurvive'
        BY <1>1, <1>2, <2>1, SurviveDef DEF KeptInv, EditsSurvive, install
    <2>3. LookOK'
        BY <1>1, <2>1 DEF KeptInv, LookOK
    <2>4. CopyOK'
        BY <1>1, <2>1 DEF KeptInv, CopyOK
    <2> QED
        BY <1>3, <2>2, <2>3, <2>4 DEF KeptInv
<1>5. CASE ~engine
    <2> DEFINE p == IF live = NoPlan THEN EmptyPlan ELSE live
    <2>1. p \in Plan /\ live' = [p EXCEPT !.edits = @ \cup {e}]
        BY <1>0, <1>5, Empties DEF EditPlan
    <2>2. p.edits = {} \/ (p = live /\ live # NoPlan)
        BY Empties
    <2>3. Held(live) \subseteq p.edits \cup p.kept
        BY DEF Held
    <2> HIDE DEF p
    <2>4. live' \in Plan /\ live' # NoPlan /\ live'.edits = p.edits \cup {e}
          /\ live'.kept = p.kept
        BY <2>1, Edited
    <2>5. Held(live) \cup {e} \subseteq Held(live')
        BY <2>3, <2>4 DEF Held
    <2>6. EditsSurvive'
        <3>1. \A f \in edited' \ raced' : f \in (edited \ raced) \cup {e}
            BY <1>1
        <3>2. \A f \in edited \ raced : f \in Held(live) \/ DemoKept(f)
            BY SurviveDef DEF KeptInv
        <3>3. \A f \in edited' \ raced' : f \in Held(live') \/ DemoKept(f)
            BY <2>5, <3>1, <3>2
        <3>4. \A f \in edited' \ raced' :
                  \/ f \in Held(live')
                  \/ midDemo' = "seed" /\ \E q \in keeps' : ~q.seeded /\ f \in Held(q)
            BY <1>1, <3>3 DEF DemoKept, install
        <3> QED
            BY <3>4 DEF EditsSurvive, Held
    <2>7. LookOK'
        <3>1. live'.edits \subseteq edited'
            BY <1>1, <2>2, <2>4 DEF KeptInv, LookOK
        <3> QED
            BY <1>1, <3>1 DEF KeptInv, LookOK
    <2>8. Content(live') # run.before
        BY <1>1, <2>4 DEF KeptInv, LookOK
    <2>9. CopyOK'
        <3>1. Content(live)' = Content(live')
            BY DEF Content
        <3> QED
            BY <1>1, <2>8, <3>1 DEF CopyOK
    <2> QED
        BY <1>3, <2>6, <2>7, <2>9 DEF KeptInv
<1> QED
    BY <1>4, <1>5

LEMMA KeptStep == TypeInv /\ SafeInv /\ KeptInv /\ [Next]_vars => KeptInv'
<1> SUFFICES ASSUME TypeInv, SafeInv, KeptInv, [Next]_vars PROVE KeptInv'
    OBVIOUS
<1>0. /\ live \in Plan \cup {NoPlan} /\ staging \in Plan \cup {NoPlan} /\ keeps \subseteq Plan
      /\ run \in Runs /\ FilesThere
    BY DEF TypeInv, TypeOK
<1>a. EditsSurvive /\ LookOK /\ CopyOK /\ SwapOK
    BY DEF KeptInv
<1>g. EditsSurvive' /\ LookOK' /\ CopyOK' /\ SwapOK' => KeptInv'
    BY DEF KeptInv
<1>n. NoRun.before = NoPlan /\ NoRun.rollback = NoPlan
    BY DEF NoRun
<1>e. UNCHANGED <<live, keeps, install, edits>> => EditsSurvive'
    BY <1>a DEF EditsSurvive, install, edits
<1> USE DEF Step, Stop, Goto, files, environment
<1>1. ASSUME NEW dry \in BOOLEAN, NEW accept \in BOOLEAN, Start(dry, accept) PROVE KeptInv'
    <2>1. run'.before = NoPlan /\ run'.rollback = NoPlan
        BY <1>1, <1>n DEF Start, NoRun
    <2> QED
        BY <1>1, <2>1, SameEdits DEF Start, Staged
<1>2. CASE Decide
    <2>1. /\ UNCHANGED <<files, install, edits>> /\ run' \in {run, NoRun}
          /\ pc' \in {"idle", "look", "backup"}
        BY <1>2 DEF Decide
    <2> QED
        BY <2>1, <1>n, SameEdits DEF Staged
<1>3. CASE EnsureBackup
    BY <1>3, SameEdits DEF EnsureBackup, Staged
<1>4. CASE LookAtLive
    <2>1. /\ pc' = "stage" /\ UNCHANGED <<files, install, edits>>
          /\ run'.before = Content(live) /\ run'.rollback = run.rollback
        BY <1>4, <1>0 DEF LookAtLive, Runs
    <2>2. ASSUME NEW p \in Plan, Content(live) = Content(p) PROVE p.edits \subseteq edited
        <3>1. Content(p) # NoPlan /\ p # NoPlan
            BY ContentType, NoPlanAssumption
        <3>2. live # NoPlan
            BY <2>2, <3>1, ContentType
        <3>3. p.edits = live.edits
            BY <2>2, <3>1, <3>2 DEF Content
        <3> QED
            BY <1>a, <3>2, <3>3 DEF LookOK
    <2>3. LookOK'
        BY <1>a, <2>1, <2>2 DEF LookOK, edits
    <2>4. CopyOK' /\ SwapOK'
        BY <1>a, <2>1 DEF CopyOK, SwapOK, Staged
    <2> QED
        BY <1>e, <1>g, <2>1, <2>3, <2>4
<1>5. CASE PrepareStaging
    <2> DEFINE seed == midDemo = "seed" /\ ~(live # NoPlan /\ live.seeded)
    <2>1. /\ pc' = "convert" /\ UNCHANGED <<live, keeps, install, edits>>
          /\ run'.before = run.before /\ run'.rollback = run.rollback
          /\ staging' = IF seed THEN [HouseholdPlan EXCEPT !.seeded = TRUE]
                        ELSE IF live = NoPlan THEN EmptyPlan ELSE live
        BY <1>5, <1>0 DEF PrepareStaging, Runs
    <2>2. staging'.edits = {} \/ (staging' = live /\ live # NoPlan)
        BY <2>1, Seed, Empties
    <2>3. LookOK'
        BY <1>a, <2>1, <2>2 DEF LookOK, edits
    <2>4. live # NoPlan /\ (staging'.seeded => live.seeded) => staging' = live
        BY <2>1, Seed
    <2>5. CopyOK'
        BY <2>1, <2>4 DEF CopyOK, Held
    <2>6. SwapOK'
        BY <1>a, <2>1 DEF SwapOK
    <2> QED
        BY <1>e, <1>g, <2>1, <2>3, <2>5, <2>6
<1>6. CASE ConvertStaging
    <2>1. /\ pc = "convert" /\ pc' = "verify" /\ UNCHANGED <<live, keeps, install, edits>>
          /\ run'.before = run.before /\ run'.rollback = run.rollback
        BY <1>6, <1>0 DEF ConvertStaging, Runs
    <2>2. /\ staging # NoPlan /\ staging' # NoPlan
          /\ staging'.edits \subseteq staging.edits /\ staging'.seeded = staging.seeded
          /\ Held(staging) \subseteq Held(staging')
        BY <1>0, <1>6, <2>1, Converts DEF FilesThere, Staged
    <2>3. LookOK'
        BY <1>a, <2>1, <2>2 DEF LookOK, edits
    <2>4. CopyOK'
        <3>1. Content(live)' = Content(live) /\ Held(live)' = Held(live)
              /\ Held(staging)' = Held(staging')
            BY <2>1 DEF Content, Held
        <3> QED
            BY <1>a, <2>1, <2>2, <3>1 DEF CopyOK, Staged
    <2>5. SwapOK'
        BY <1>a, <2>1 DEF SwapOK
    <2> QED
        BY <1>e, <1>g, <2>1, <2>3, <2>4, <2>5
<1>7. CASE EnterEngine
    BY <1>7, SameEdits DEF EnterEngine, Staged
<1>8. CASE Compare
    <2>1. Stop("compare") \/ Step("compare", "originals")
        BY <1>8, Zenon DEF Compare
    <2>2. UNCHANGED <<files, install, edits>>
        BY <1>8 DEF Compare
    <2> QED
        BY <2>1, <2>2, SameEdits DEF Staged
<1>9. CASE CheckOriginals
    <2>1. \/ Stop("originals")
          \/ Step("originals", IF run.changed \/ live = NoPlan THEN "mark" ELSE "flags")
        BY <1>9, Zenon DEF CheckOriginals
    <2>2. UNCHANGED <<files, install, edits>>
        BY <1>9 DEF CheckOriginals
    <2>3. pc = "originals" /\ pc' \in {"finish", "mark", "flags"} /\ UNCHANGED run
        BY <2>1
    <2> QED
        BY <2>2, <2>3, SameEdits DEF Staged
<1>10. CASE MarkVerified
    <2>1. /\ pc = "mark" /\ pc' = "check" /\ UNCHANGED <<live, keeps, install, edits, run>>
          /\ staging' = [staging EXCEPT !.verified = TRUE]
        BY <1>10 DEF MarkVerified
    <2>2. staging \in Plan /\ staging # NoPlan
        BY <1>0, <2>1 DEF FilesThere, Staged
    <2>3. /\ staging' # NoPlan /\ staging'.edits = staging.edits
          /\ staging'.kept = staging.kept /\ staging'.seeded = staging.seeded
        BY <2>1, <2>2, Marked
    <2>4. LookOK'
        BY <1>a, <2>1, <2>2, <2>3 DEF LookOK, edits
    <2>5. Content(live)' = Content(live) /\ Held(live)' = Held(live)
          /\ Held(staging)' = Held(staging)
        BY <2>1, <2>2, <2>3 DEF Content, Held
    <2>6. CopyOK'
        BY <1>a, <2>1, <2>3, <2>5 DEF CopyOK, Staged
    <2>7. SwapOK'
        BY <1>a, <2>1 DEF SwapOK
    <2> QED
        BY <1>e, <1>g, <2>1, <2>4, <2>6, <2>7
<1>11. CASE CheckLive
    <2>1. /\ pc = "check" /\ UNCHANGED <<files, install, edits, run>>
          /\ pc' \in {"finish", "replace", "keep"}
          /\ pc' = "replace" => live = NoPlan /\ run.before = Content(live)
        BY <1>11 DEF CheckLive
    <2>2. CASE pc' # "replace"
        BY <2>1, <2>2, SameEdits DEF Staged
    <2>3. CASE pc' = "replace"
        <3>1. run'.before = NoPlan
            BY <2>1, <2>3, ContentType
        <3>2. \A e \in edited \ raced : DemoKept(e)
            BY <1>a, <2>1, <2>3, SurviveDef DEF Held
        <3>3. \A e \in edited' \ raced' : DemoKept(e)'
            BY <2>1, <3>2 DEF DemoKept, install, edits
        <3>4. SwapOK'
            BY <1>a, <2>1, <3>1, <3>3 DEF SwapOK
        <3>5. LookOK'
            BY <1>a, <2>1 DEF LookOK, edits
        <3>6. CopyOK'
            BY <2>1, <2>3 DEF CopyOK
        <3> QED
            BY <1>e, <1>g, <2>1, <3>4, <3>5, <3>6
    <2> QED
        BY <2>2, <2>3
<1>12. CASE KeepLive
    <2>1. /\ pc = "keep" /\ UNCHANGED <<live, staging, install, edits>>
          /\ keeps' = keeps \cup {live} /\ live # NoPlan /\ live \in Plan
          /\ pc' \in {"finish", "replace"} /\ run'.before = run.before
        BY <1>0, <1>12 DEF KeepLive, FilesThere, Runs
    <2>2. /\ run'.rollback \in {run.rollback, live}
          /\ pc' = "replace" => run'.rollback = live /\ Content(live) = run.before
        BY <1>0, <1>12 DEF KeepLive, Runs
    <2>3. \A e : DemoKept(e) => DemoKept(e)'
        BY <2>1 DEF DemoKept, install
    <2>4. \A e \in edited \ raced : e \in Held(live) \/ DemoKept(e)
        BY <1>a, SurviveDef
    <2>5. EditsSurvive'
        <3>1. \A e \in edited' \ raced' :
                  \/ e \in Held(live')
                  \/ midDemo' = "seed" /\ \E p \in keeps' : ~p.seeded /\ e \in Held(p)
            BY <2>1, <2>3, <2>4 DEF DemoKept, edits, install
        <3> QED
            BY <3>1 DEF EditsSurvive, Held
    <2>6. LookOK'
        BY <1>a, <2>1 DEF LookOK, edits
    <2>7. CopyOK'
        BY <1>a, <2>1 DEF CopyOK, Content, Held, Staged
    <2>8. ASSUME pc' = "replace", NEW e \in edited' \ raced'
          PROVE  e \in Held(staging)' \/ DemoKept(e)'
        <3>1. e \in Held(live) \/ DemoKept(e)
            BY <2>1, <2>4, <2>8 DEF edits
        <3>2. CASE staging.seeded => live.seeded
            <4>1. Held(live) \subseteq Held(staging)
                BY <1>a, <2>1, <2>2, <2>8, <3>2 DEF CopyOK, Staged
            <4>2. Held(staging)' = Held(staging)
                BY <2>1 DEF Held
            <4> QED
                BY <2>3, <3>1, <4>1, <4>2
        <3>3. CASE staging.seeded /\ ~live.seeded
            <4>1. midDemo = "seed"
                BY <1>0, <2>1, <3>3 DEF SafeInv, Sound, FilesThere, Staged
            <4> QED
                BY <2>1, <2>3, <3>1, <3>3, <4>1 DEF DemoKept, install
        <3> QED
            BY <3>2, <3>3
    <2>9. SwapOK'
        BY <1>a, <2>1, <2>2, <2>8 DEF SwapOK
    <2> QED
        BY <1>g, <2>5, <2>6, <2>7, <2>9
<1>13. CASE ReplaceActive
    <2>1. /\ pc = "replace" /\ pc' = "flags" /\ live' = staging
          /\ UNCHANGED <<staging, keeps, install, edits, run>>
        BY <1>13 DEF ReplaceActive
    <2>2. EditsSurvive'
        <3>1. \A e \in edited' \ raced' :
                  \/ e \in Held(live')
                  \/ midDemo' = "seed" /\ \E p \in keeps' : ~p.seeded /\ e \in Held(p)
            BY <1>a, <2>1 DEF SwapOK, DemoKept, edits, install
        <3> QED
            BY <3>1 DEF EditsSurvive, Held
    <2>3. LookOK'
        BY <1>a, <2>1 DEF LookOK, edits
    <2>4. CopyOK' /\ SwapOK'
        BY <1>a, <2>1 DEF CopyOK, SwapOK, Staged
    <2> QED
        BY <1>g, <2>2, <2>3, <2>4
<1>14. CASE ConvertFlags \/ MoveSecrets \/ MarkAppDone
    BY <1>14, SameEdits DEF ConvertFlags, MoveSecrets, MarkAppDone, Staged
<1>15. CASE Register
    <2>1. /\ pc' \in {"registered", "done"}
          /\ UNCHANGED <<live, keeps, staging, install, edits, run>>
        BY <1>15 DEF Register
    <2> QED
        BY <2>1, SameEdits DEF Staged
<1>16. CASE Finish
    BY <1>16, <1>n, SameEdits DEF Finish, Staged
<1>17. CASE MarkRegistered
    <2>1. /\ pc' = "done" /\ live \in Plan /\ live # NoPlan
          /\ live' = [live EXCEPT !.registered = TRUE]
          /\ UNCHANGED <<staging, keeps, install, edits, run>>
        BY <1>0, <1>17 DEF MarkRegistered, FilesThere, Installing
    <2>2. live' # NoPlan /\ live'.edits = live.edits /\ live'.kept = live.kept
        BY <2>1, Marked
    <2> QED
        BY <2>1, <2>2, MarkKeeps DEF Staged
<1>18. CASE MarkDone
    <2>1. /\ pc' = "appdone" /\ live \in Plan /\ live # NoPlan
          /\ live' = [live EXCEPT !.done = TRUE]
          /\ UNCHANGED <<staging, keeps, install, edits, run>>
        BY <1>0, <1>18 DEF MarkDone, FilesThere, Installing
    <2>2. live' # NoPlan /\ live'.edits = live.edits /\ live'.kept = live.kept
        BY <2>1, Marked
    <2> QED
        BY <2>1, <2>2, MarkKeeps DEF Staged
<1>19. CASE StepFails
    <2>1. \E step : Fails(step)
        BY <1>19, Zenon DEF StepFails
    <2>2. /\ pc' \in {"idle", "finish"} /\ run' \in {run, NoRun}
          /\ UNCHANGED <<files, install, edits>>
        BY <2>1 DEF Fails
    <2> QED
        BY <2>2, <1>n, SameEdits DEF Staged
<1>20. CASE Crash
    BY <1>20, <1>n, SameEdits DEF Crash, Staged
<1>21. ASSUME NEW e \in Edits, EditPlan(e) PROVE KeptInv'
    BY <1>21, EditKeeps
<1>22. CASE UNCHANGED vars
    <2>1. UNCHANGED <<live, keeps, install, edits, staging, pc, run>>
        BY <1>22 DEF vars
    <2>2. LookOK' /\ CopyOK'
        BY <1>a, <2>1 DEF LookOK, CopyOK, Content, Held, edits
    <2>3. SwapOK'
        BY <1>a, <2>1 DEF SwapOK, DemoKept, Held, edits, install
    <2> QED
        BY <1>e, <1>g, <2>1, <2>2, <2>3
<1> QED
    BY <1>1, <1>2, <1>3, <1>4, <1>5, <1>6, <1>7, <1>8, <1>9, <1>10, <1>11, <1>12,
       <1>13, <1>14, <1>15, <1>16, <1>17, <1>18, <1>19, <1>20, <1>21, <1>22
    DEF Next, RunStep

LEMMA InitKept == Init => KeptInv
<1> SUFFICES ASSUME Init PROVE KeptInv
    OBVIOUS
<1>1. /\ live \in {NoPlan, EmptyPlan, HouseholdPlan} /\ keeps = {} /\ staging = NoPlan
      /\ edited = {} /\ raced = {} /\ pc = "idle" /\ run = NoRun
    BY DEF Init
<1>2. run.before = NoPlan /\ run.rollback = NoPlan
    BY <1>1 DEF NoRun
<1>3. \A p \in Plan : Content(p) # NoPlan
    BY ContentType, NoPlanAssumption
<1>4. LookOK
    BY <1>1, <1>2, <1>3, Empties DEF LookOK
<1> QED
    BY <1>1, <1>2, <1>4 DEF KeptInv, EditsSurvive, CopyOK, SwapOK, Staged

LEMMA Kept == Spec => [](TypeInv /\ SafeInv /\ KeptInv)
<1>1. Init => TypeInv /\ SafeInv /\ KeptInv
    BY InitType, InitSafe, InitKept
<1>2. TypeInv /\ SafeInv /\ KeptInv /\ [Next]_vars => TypeInv' /\ SafeInv' /\ KeptInv'
    BY NextType, SafeStep, KeptStep
<1> QED
    BY <1>1, <1>2, PTL DEF Spec

(* An edit the user was told is saved survives a conversion that runs      *)
(* while requests are served (conversion_service.py:67-90), however often  *)
(* it is killed, but for those saved while the engine redirects the        *)
(* process or between the run's last look and the swap.                    *)
THEOREM EditsKept == Spec => []EditsSurvive
<1>1. KeptInv => EditsSurvive
    BY DEF KeptInv
<1> QED
    BY <1>1, Kept, PTL

-----------------------------------------------------------------------------
(* The atomic upgrade                                                      *)

Phase == IF Done(live) THEN "done"
         ELSE IF live # NoPlan /\ live.converted THEN "live" ELSE "old"

LEMMA SamePhase ==
    ASSUME \/ live' = live
           \/ Converted(live') = Converted(live) /\ Done(live') = Done(live)
    PROVE  Phase' = Phase
BY DEF Phase, Done, Converted

(* A step of the conversion that keeps the phase and the kept copies is    *)
(* the owner's work.                                                       *)
LEMMA OwnerWorks ==
    ASSUME Phase' = Phase, UNCHANGED keeps
    PROVE  Upgrade!Next
BY DEF Upgrade!Next, Upgrade!Work, Phase

LEMMA UpgradeStep ==
    ASSUME TypeInv, SafeInv, KeptInv, [Next]_vars
    PROVE  Upgrade!Next
<1>0. live \in Plan \cup {NoPlan} /\ staging \in Plan \cup {NoPlan} /\ run \in Runs /\ FilesThere
    BY DEF TypeInv, TypeOK
<1>1. ASSUME UNCHANGED <<live, keeps>> PROVE Upgrade!Next
    BY <1>1, SamePhase, OwnerWorks
<1>2. CASE KeepLive
    <2>1. /\ pc = "keep" /\ live' = live /\ keeps' = keeps \cup {live}
          /\ pc' = "replace" => run'.rollback = live
        BY <1>0, <1>2 DEF KeepLive, Stop, Goto, Runs
    <2>2. Phase' = Phase
        BY <2>1, SamePhase
    <2>3. LookedAt = live /\ LookedAt' = live
        BY <2>1 DEF LookedAt
    <2> QED
        BY <2>1, <2>2, <2>3 DEF Upgrade!Next, Upgrade!Keep, Phase
<1>3. CASE ReplaceActive
    <2>1. pc = "replace" /\ live' = staging /\ UNCHANGED keeps
        BY <1>3 DEF ReplaceActive, Step, Goto
    <2>2. staging # NoPlan /\ staging.converted
        BY <1>0, <2>1 DEF FilesThere, Staged, SafeInv, StagingOK
    <2>3. ~Converted(live)
        BY <2>1 DEF SafeInv, OnceOK
    <2>4. ~Done(live)
        BY <2>3 DEF SafeInv, Sound, Done, Converted
    <2>5. ~staging.done
        BY <2>1, <2>4 DEF SafeInv, OnceOK, Staged
    <2>6. Phase = "old" /\ Phase' = "live"
        BY <2>1, <2>2, <2>3, <2>4, <2>5 DEF Phase, Done, Converted
    <2>7. LookedAt \in keeps \cup {NoPlan}
        BY <2>1 DEF KeptInv, SwapOK, LookedAt
    <2> QED
        BY <2>1, <2>6, <2>7 DEF Upgrade!Next, Upgrade!Upgrade, Phase
<1>4. CASE MarkRegistered
    <2>1. /\ UNCHANGED keeps /\ live # NoPlan /\ live \in Plan
          /\ live' = [live EXCEPT !.registered = TRUE]
        BY <1>0, <1>4 DEF MarkRegistered, Step, Goto, FilesThere, Installing
    <2>2. live' # NoPlan /\ live'.done = live.done /\ live'.converted = live.converted
        BY <2>1, Marked
    <2> QED
        BY <2>1, <2>2, SamePhase, OwnerWorks DEF Converted, Done
<1>5. CASE MarkDone
    <2>1. /\ UNCHANGED keeps /\ live # NoPlan /\ live \in Plan /\ pc = "done"
          /\ live' = [live EXCEPT !.done = TRUE]
        BY <1>0, <1>5 DEF MarkDone, Step, Goto, FilesThere, Installing
    <2>2. live' # NoPlan /\ live'.done
        BY <2>1, Marked
    <2>3. live.converted
        BY <2>1 DEF SafeInv, InstallOK, Installing, Converted
    <2>4. Phase \in {"live", "done"} /\ Phase' = "done"
        BY <2>1, <2>2, <2>3 DEF Phase, Done
    <2> QED
        BY <2>1, <2>4, OwnerWorks DEF Upgrade!Next, Upgrade!Finish, Phase
<1>6. ASSUME NEW e \in Edits, EditPlan(e) PROVE Upgrade!Next
    <2>1. UNCHANGED keeps
        BY <1>6 DEF EditPlan
    <2>2. Converted(live') = Converted(live) /\ Done(live') = Done(live)
        BY <1>6, EditSafe
    <2> QED
        BY <2>1, <2>2, SamePhase, OwnerWorks
<1>7. CASE (\E dry, accept \in BOOLEAN : Start(dry, accept)) \/ Crash \/ UNCHANGED vars
    BY <1>1, <1>7 DEF Start, Crash, vars, files
<1>8. CASE Decide \/ EnsureBackup \/ LookAtLive \/ PrepareStaging \/ ConvertStaging
    BY <1>1, <1>8 DEF Decide, EnsureBackup, LookAtLive, PrepareStaging, ConvertStaging, files
<1>9. CASE EnterEngine \/ Compare \/ CheckOriginals \/ MarkVerified \/ CheckLive
    BY <1>1, <1>9 DEF EnterEngine, Compare, CheckOriginals, MarkVerified, CheckLive, files
<1>10. CASE ConvertFlags \/ MoveSecrets \/ Register \/ MarkAppDone \/ Finish
    BY <1>1, <1>10 DEF ConvertFlags, MoveSecrets, Register, MarkAppDone, Finish
<1>11. CASE StepFails
    <2>1. \E step : Fails(step)
        BY <1>11, Zenon DEF StepFails
    <2> QED
        BY <1>1, <2>1 DEF Fails, files
<1> QED
    BY <1>2, <1>3, <1>4, <1>5, <1>6, <1>7, <1>8, <1>9, <1>10, <1>11 DEF Next, RunStep

(* While requests are served the conversion is the atomic upgrade it       *)
(* promises: whole, once, the plan it last looked at kept, done last       *)
(* (workspace.py convert_workspace).                                       *)
THEOREM UpgradeImplemented == Spec => ImplementsUpgrade
<1>1. Init => Upgrade!Init
    BY Empties DEF Init, Upgrade!Init, Done
<1>2. TypeInv /\ SafeInv /\ KeptInv /\ [Next]_vars => [Upgrade!Next]_(Upgrade!vars)
    BY UpgradeStep
<1> QED
    BY <1>1, <1>2, Kept, PTL DEF ImplementsUpgrade, Upgrade!Spec, Spec
================================================================================
