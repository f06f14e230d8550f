------------------------------ MODULE PlanRegistry ------------------------------
(***************************************************************************)
(* The plan registry and the active plan (src/plan_registry.py over        *)
(* stores/app_store.py) with the requests that change them: switch,        *)
(* forget, Load Saved Plan, Save As (server_services/plan_file_service.py) *)
(* and open, exit and reset demo (demo_plan_service.py).                   *)
(*                                                                         *)
(* Threads of a process share its lock and its cached active record;       *)
(* processes share only app.db, one transaction at a time.                 *)
(* A plan's id stands for its path and kind: a file that was forgotten and *)
(* is registered again counts as the same plan.  A write of app.db changes *)
(* its stamp, after which no cached record hits: it empties every cache.   *)
(* The user may move a plan file away at any time, so a look for one may   *)
(* fail.                                                                   *)
(***************************************************************************)
EXTENDS Integers, FiniteSets

CONSTANTS
    Threads,     \* threads that serve requests
    Procs,       \* processes they may belong to
    Paths,       \* places of plan files
    Work,        \* the workspace's plan.rpx
    Demo,        \* its demo.rpx
    None

ASSUME PathAssumption == {Work, Demo} \subseteq Paths /\ Work # Demo
ASSUME NoneAssumption == None \notin Paths \cup Threads \cup (Paths \X {"user", "demo"})

VARIABLES
    plans,     \* plan_registry: the registered plans
    opened,    \* last_opened of the user plans: 1 the latest, 0 never
    active,    \* active_plan
    return,    \* the setting DEMO_RETURN_KEY
    proc,      \* the process of each thread
    lock,      \* the holder of each process's _LOCK
    cache,     \* each process's cached active record
    req,       \* what each thread is doing
    from       \* history: the plan that was left for the demo

db == <<plans, opened, active, return>>
vars == <<plans, opened, active, return, proc, lock, cache, req, from>>

Ids == Paths \X {"user", "demo"}
Kind(id) == id[2]
Steps == {"idle", "look", "stamp", "check", "note", "set", "register",
          "target", "dest"}

(* "raced" is history: the active plan changed between the read of the    *)
(* record and its stamp.                                                   *)
Cached == [rec : Ids \cup {None}, raced : BOOLEAN]
NoEntry == [rec |-> None, raced |-> FALSE]

(* A thread is at a step; "then" and "after" are the steps that follow the *)
(* look at the active record and the registration.  "plan" is the plan to  *)
(* register or activate, "seen" the active record it looked up.            *)
Requests == [at : Steps, then : Steps, after : Steps, plan : Ids \cup {None},
             seen : Ids \cup {None}]
Idle == [at |-> "idle", then |-> "idle", after |-> "idle", plan |-> None, seen |-> None]

TypeOK ==
    /\ plans \subseteq Ids
    /\ \A x, y \in plans : x[1] = y[1] => x = y
    /\ opened \in [Ids -> Nat]
    /\ active \in Ids \cup {None}
    /\ return \in Ids \cup {None}
    /\ proc \in [Threads -> Procs]
    /\ lock \in [Procs -> Threads \cup {None}]
    /\ cache \in [Procs -> Cached]
    /\ req \in [Threads -> Requests]
    /\ from \in Ids \cup {None}

-----------------------------------------------------------------------------
(* Helpers                                                                 *)

Free(t) == lock[proc[t]] \in {None, t}
Goes(t, r) == req' = [req EXCEPT ![t] = r]
Ends(t) == Goes(t, Idle)
Holds(t) == lock' = [lock EXCEPT ![proc[t]] = t]
Releases(t) == lock' = [lock EXCEPT ![proc[t]] = None]

(* Mutant: a cached record is used whatever the stamp of app.db says. *)
StampedOnce == cache
Stamped == [p \in Procs |-> NoEntry]
Writes == cache' = Stamped
(* invalidate, after a write made here *)
WritesHere(t) == cache' = [Stamped EXCEPT ![proc[t]] = NoEntry]

(* _find, register_plan: one record per path. *)
At(path) == {id \in plans : id[1] = path}
(* Mutant: the path is not looked up. *)
RegisteredAnew(path, kind) == <<path, kind>>
Registered(path, kind) ==
    IF At(path) # {} THEN CHOOSE id \in At(path) : TRUE ELSE <<path, kind>>

(* list_plans: most recently opened first, never opened last. *)
Latest(S) ==
    LET last == {id \in S : opened[id] > 0}
    IN  IF last = {} THEN CHOOSE id \in S : TRUE
        ELSE CHOOSE id \in last : \A other \in last : opened[id] <= opened[other]
Opened(id) ==
    [other \in Ids |->
        IF other = id THEN 1
        ELSE IF opened[other] > 0 /\ (opened[id] = 0 \/ opened[other] < opened[id])
             THEN opened[other] + 1
             ELSE opened[other]]
Closed(id) ==
    [other \in Ids |->
        IF other = id THEN 0
        ELSE IF opened[id] > 0 /\ opened[other] > opened[id]
             THEN opened[other] - 1
             ELSE opened[other]]

(* set_active_plan; "from" follows what it does. *)
SetActive(id) ==
    /\ opened' = IF Kind(id) = "user" THEN Opened(id) ELSE opened
    /\ active' = id
    /\ from' = IF Kind(id) = "user" THEN None
               ELSE IF active = None \/ Kind(active) = "demo" THEN from ELSE active

-----------------------------------------------------------------------------
Init ==
    /\ plans = {}
    /\ opened = [id \in Ids |-> 0]
    /\ active = None
    /\ return = None
    /\ proc \in [Threads -> Procs]
    /\ lock = [p \in Procs |-> None]
    /\ cache = [p \in Procs |-> NoEntry]
    /\ req = [t \in Threads |-> Idle]
    /\ from = None

-----------------------------------------------------------------------------
(* active_record                                                           *)

(* What follows the look: activate goes on under the lock, the others      *)
(* let it go.                                                              *)
Found(t, rec) ==
    /\ Goes(t, IF req[t].then = "idle" THEN Idle
               ELSE [req[t] EXCEPT !.at = req[t].then, !.seen = rec])
    /\ IF req[t].then = "check" THEN Holds(t) ELSE Releases(t)

(* _bootstrap *)
FirstPlan ==
    LET users == {id \in plans : opened[id] > 0}
    IN  IF users # {} THEN Latest(users) ELSE Registered(Work, "user")
Look(t) ==
    /\ req[t].at = "look" /\ Free(t)
    /\ UNCHANGED <<return, proc>>
    /\ IF cache[proc[t]].rec # None
       THEN /\ Found(t, cache[proc[t]].rec)
            /\ UNCHANGED <<plans, opened, active, from, cache>>
       ELSE /\ IF active # None
               THEN UNCHANGED <<plans, opened, active, from, cache>>
               ELSE /\ plans' = plans \cup {FirstPlan}
                    /\ SetActive(FirstPlan)
                    /\ Writes
            /\ Goes(t, [req[t] EXCEPT !.at = "stamp", !.seen = active'])
            /\ Holds(t)

(* The record read is stored with the stamp app.db has now. *)
Stamp(t) ==
    /\ req[t].at = "stamp"
    /\ cache' = [cache EXCEPT ![proc[t]] =
                    [rec |-> req[t].seen, raced |-> req[t].seen # active]]
    /\ Found(t, req[t].seen)
    /\ UNCHANGED <<db, proc, from>>

-----------------------------------------------------------------------------
(* activate: after the look, under the lock                                *)

(* Mutant: the plan to return to is noted whenever the demo is opened. *)
NotesAlways(id, current) == Kind(id) = "demo"
Notes(id, current) == Kind(id) = "demo" /\ Kind(current) # "demo"

Check(t) ==
    LET id == req[t].plan
        note == Notes(id, req[t].seen)
    IN  /\ req[t].at = "check"
        /\ \/ /\ id \in plans
              /\ Goes(t, [Idle EXCEPT !.at = IF note THEN "note" ELSE "set",
                                      !.plan = id,
                                      !.seen = IF note THEN req[t].seen ELSE None])
              /\ UNCHANGED lock
           \/ Ends(t) /\ Releases(t)
        /\ UNCHANGED <<db, proc, cache, from>>

NoteReturn(t) ==
    /\ req[t].at = "note"
    /\ return' = req[t].seen
    /\ Writes
    /\ Goes(t, [req[t] EXCEPT !.at = "set", !.seen = None])
    /\ UNCHANGED <<plans, opened, active, proc, lock, from>>

Activate(t) ==
    /\ req[t].at = "set"
    /\ IF req[t].plan \in plans
       THEN SetActive(req[t].plan) /\ WritesHere(t)
       ELSE UNCHANGED <<opened, active, cache, from>>
    /\ Ends(t) /\ Releases(t)
    /\ UNCHANGED <<plans, return, proc>>

-----------------------------------------------------------------------------
(* register_plan_file and forget                                           *)

RegisterPlanFile(t) ==
    LET id == Registered(req[t].plan[1], Kind(req[t].plan))
    IN  /\ req[t].at = "register" /\ Free(t)
        /\ plans' = plans \cup {id}
        /\ cache' = IF id \in plans THEN [cache EXCEPT ![proc[t]] = NoEntry]
                    ELSE [Stamped EXCEPT ![proc[t]] = NoEntry]
        /\ Goes(t, IF req[t].after = "idle" THEN Idle
                   ELSE [req[t] EXCEPT !.at = req[t].after, !.after = "idle", !.plan = id])
        /\ UNCHANGED <<opened, active, return, proc, lock, from>>

(* Mutant: remove_plan takes the active plan too. *)
ForgetAny(t, id) ==
    /\ req[t].at = "idle" /\ Free(t)
    /\ id \in plans
    /\ plans' = plans \ {id}
    /\ opened' = Closed(id)
    /\ return' = IF return = id THEN None ELSE return
    /\ from' = IF from = id THEN None ELSE from
    /\ WritesHere(t)
    /\ UNCHANGED <<active, proc, lock, req>>
Forget(t, id) ==
    /\ req[t].at = "idle" /\ Free(t)
    /\ id \in plans /\ id # active
    /\ plans' = plans \ {id}
    /\ opened' = Closed(id)
    /\ return' = IF return = id THEN None ELSE return
    /\ from' = IF from = id THEN None ELSE from
    /\ WritesHere(t)
    /\ UNCHANGED <<active, proc, lock, req>>

-----------------------------------------------------------------------------
(* The requests                                                            *)

Asks(t, r) ==
    /\ req[t] = Idle
    /\ Goes(t, r)
    /\ UNCHANGED <<db, proc, lock, cache, from>>
Looking == [Idle EXCEPT !.at = "look"]

(* Any request that works on the active plan. *)
UsePlan(t) == Asks(t, Looking)

Switch(t, id) ==
    /\ id \in plans
    /\ Asks(t, [Looking EXCEPT !.then = "check", !.plan = id])

Registering(id) == [Idle EXCEPT !.at = "register", !.plan = id]
Activating(id) == [Registering(id) EXCEPT !.after = "look", !.then = "check"]

(* load_file, mode "open" *)
LoadFile(t, path) == Asks(t, Activating(<<path, "user">>))
OpenDemo(t) == Asks(t, Activating(<<Demo, "demo">>))
ResetDemo(t) == Asks(t, [Registering(<<Demo, "demo">>) EXCEPT !.after = "look"])
ExitDemo(t) == Asks(t, [Looking EXCEPT !.then = "target"])

(* demo_return_plan_id *)
Target(t) ==
    LET users == {id \in plans : Kind(id) # "demo"}
        id == IF return \in users THEN return ELSE Latest(users)
    IN  /\ req[t].at = "target"
        /\ IF Kind(req[t].seen) # "demo" THEN Ends(t)
           ELSE IF users = {} THEN Goes(t, Activating(<<Work, "user">>))
           ELSE Goes(t, [Looking EXCEPT !.then = "check", !.plan = id])
        /\ UNCHANGED <<db, proc, lock, cache, from>>

(* save_as: "after" is the look of activate when the copy becomes active. *)
SaveAs(t, path, activate) ==
    Asks(t, [Looking EXCEPT !.then = "dest", !.plan = <<path, "user">>,
                            !.after = IF activate THEN "look" ELSE "idle"])

(* The file that is saved may be gone; the copy itself and a registered    *)
(* plan's path are told apart here, before the copy and the registration.  *)
Dest(t) ==
    LET id == req[t].plan
        same == id[1] = req[t].seen[1]
    IN  /\ req[t].at = "dest"
        /\ \/ Ends(t)
           \/ /\ same \/ At(id[1]) = {}
              /\ Goes(t, IF same \/ req[t].after = "idle" THEN Registering(id)
                         ELSE Activating(id))
        /\ UNCHANGED <<db, proc, lock, cache, from>>

(* Other writes of app.db: settings, prices, manifests, names of plans. *)
OtherWrite ==
    /\ Writes
    /\ UNCHANGED <<db, proc, lock, req, from>>

-----------------------------------------------------------------------------
Request(t) ==
    \/ UsePlan(t) \/ OpenDemo(t) \/ ResetDemo(t) \/ ExitDemo(t)
    \/ \E id \in Ids : Switch(t, id) \/ Forget(t, id)
    \/ \E path \in Paths : LoadFile(t, path) \/ \E a \in BOOLEAN : SaveAs(t, path, a)
Step(t) ==
    \/ Look(t) \/ Stamp(t) \/ Check(t) \/ NoteReturn(t) \/ Activate(t)
    \/ RegisterPlanFile(t) \/ Target(t) \/ Dest(t)
Next ==
    \/ \E t \in Threads : Request(t) \/ Step(t)
    \/ OtherWrite

Spec == Init /\ [][Next]_vars

-----------------------------------------------------------------------------
(* Whatever the requests and however their transactions interleave, in one *)
(* process or in several, the active plan is a registered one.  Forgetting *)
(* (remove_plan) and switching (set_active_plan) look at each other's row  *)
(* in their own transactions.                                              *)
ActiveIsRegistered == active # None => active \in plans

(* A cached record that will still be used is the active plan's, unless    *)
(* another process switched plans between the read of the record and the   *)
(* look at the stamp of app.db (active_record, plan_registry.py:148-149);  *)
(* in particular never when one process serves every request.              *)
SomeoneElse(p) == \E t \in Threads : proc[t] # p
StaleOnlyByRace ==
    \A p \in Procs :
        cache[p].rec # None =>
            \/ cache[p].rec = active
            \/ cache[p].raced /\ SomeoneElse(p)

(* While the demo is open, Exit demo leads back to the plan that was left  *)
(* for it, unless that plan was forgotten since: through reopened demos,   *)
(* plans opened and saved in between, and overlapping requests of a        *)
(* process.                                                                *)
OneProcess == \A t, u \in Threads : proc[t] = proc[u]
WayBack ==
    OneProcess /\ active # None /\ from # None =>
        (Kind(active) = "demo" => return = from /\ from \in plans)
=============================================================================
