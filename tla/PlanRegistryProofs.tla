--------------------------- MODULE PlanRegistryProofs ---------------------------
(***************************************************************************)
(* Proofs about PlanRegistry, for any number of threads and processes and  *)
(* any places of plan files.                                               *)
(***************************************************************************)
EXTENDS PlanRegistry, WellFoundedInduction, TLAPS

(* The parts of a request that are never anything else. *)
ReqOK(r) ==
    /\ r.then \in {"idle", "check", "target", "dest"}
    /\ r.after \in {"idle", "look"}
    /\ r.at \in {"register", "dest"} \/ r.then = "dest" => r.plan \in Ids
    /\ r.at = "stamp" => r.seen \in Ids
TypeInv == TypeOK /\ \A t \in Threads : ReqOK(req[t])

-----------------------------------------------------------------------------
(* The plan opened latest, and the registration of a path                  *)

OnePerPath(S) == \A x, y \in S : x[1] = y[1] => x = y

LEMMA LatestIn ==
    ASSUME opened \in [Ids -> Nat], NEW S, S \subseteq Ids, S # {}
    PROVE  Latest(S) \in S
<1> DEFINE last == {id \in S : opened[id] > 0}
           T == {opened[id] : id \in last}
<1>1. CASE last = {}
    BY <1>1 DEF Latest
<1>2. CASE last # {}
    <2>1. T \subseteq Nat /\ T # {}
        BY <1>2
    <2> HIDE DEF T
    <2>2. PICK n \in T : \A m \in T : ~(<<m, n>> \in OpToRel(<, Nat))
        BY <2>1, NatLessThanWellFounded, WFMin, Zenon
    <2>3. \A m \in T : n <= m
        <3>1. OpToRel(<, Nat) = {pair \in Nat \X Nat : pair[1] < pair[2]}
            BY Zenon DEF OpToRel
        <3>2. ASSUME NEW m \in T, m < n PROVE FALSE
            <4>1. <<m, n>> \in {pair \in Nat \X Nat : pair[1] < pair[2]}
                BY <2>1, <3>2
            <4> QED
                BY <2>2, <3>1, <4>1, Zenon
        <3> QED
            BY <2>1, <3>2
    <2>4. PICK id \in last : n = opened[id]
        BY <2>2 DEF T
    <2>5. \A other \in last : opened[other] \in T
        BY DEF T
    <2>6. \A other \in last : opened[id] <= opened[other]
        BY <2>3, <2>4, <2>5
    <2> QED
        BY <1>2, <2>6 DEF Latest
<1> QED
    BY <1>1, <1>2

LEMMA RegisteredOK ==
    ASSUME plans \subseteq Ids, OnePerPath(plans),
           NEW path \in Paths, NEW kind \in {"user", "demo"}
    PROVE  /\ Registered(path, kind) \in Ids
           /\ OnePerPath(plans \cup {Registered(path, kind)})
<1>1. CASE At(path) # {}
    <2>1. Registered(path, kind) \in At(path)
        BY <1>1 DEF Registered
    <2> QED
        BY <2>1 DEF At, OnePerPath
<1>2. CASE At(path) = {}
    <2>1. Registered(path, kind) = <<path, kind>>
        BY <1>2 DEF Registered
    <2>2. \A x \in plans : x[1] # path
        BY <1>2 DEF At
    <2> QED
        BY <2>1, <2>2 DEF Ids, OnePerPath
<1> QED
    BY <1>1, <1>2

LEMMA FirstPlanOK ==
    ASSUME plans \subseteq Ids, OnePerPath(plans), opened \in [Ids -> Nat]
    PROVE  FirstPlan \in Ids /\ OnePerPath(plans \cup {FirstPlan})
<1> DEFINE users == {id \in plans : opened[id] > 0}
<1>1. CASE users # {}
    <2>1. Latest(users) \in users
        BY <1>1, LatestIn
    <2> QED
        BY <1>1, <2>1 DEF FirstPlan, OnePerPath
<1>2. CASE users = {}
    BY <1>2, RegisteredOK, PathAssumption DEF FirstPlan
<1> QED
    BY <1>1, <1>2

LEMMA OpenedType ==
    ASSUME opened \in [Ids -> Nat], NEW id \in Ids
    PROVE  Opened(id) \in [Ids -> Nat] /\ Closed(id) \in [Ids -> Nat]
BY DEF Opened, Closed

(* What a switch does to the variables it changes. *)
LEMMA SetActiveType ==
    ASSUME TypeOK, NEW id \in Ids, SetActive(id)
    PROVE  opened' \in [Ids -> Nat] /\ active' = id /\ from' \in Ids \cup {None}
BY OpenedType DEF SetActive, TypeOK

-----------------------------------------------------------------------------
(* Type correctness                                                        *)

LEMMA ReqType ==
    ASSUME TypeInv, NEW t \in Threads, NEW r \in Requests, ReqOK(r), Goes(t, r)
    PROVE  /\ req' \in [Threads -> Requests]
           /\ \A u \in Threads : ReqOK(req'[u])
BY DEF TypeInv, TypeOK, Goes

LEMMA IdleType == Idle \in Requests /\ ReqOK(Idle)
BY DEF Idle, Requests, Steps, ReqOK

LEMMA EndsType ==
    ASSUME TypeInv, NEW t \in Threads, Ends(t)
    PROVE  /\ req' \in [Threads -> Requests]
           /\ \A u \in Threads : ReqOK(req'[u])
BY IdleType, ReqType DEF Ends

LEMMA FoundType ==
    ASSUME TypeInv, NEW t \in Threads, NEW rec \in Ids, Found(t, rec), req[t].at # "idle"
    PROVE  /\ req' \in [Threads -> Requests]
           /\ \A u \in Threads : ReqOK(req'[u])
           /\ lock' \in [Procs -> Threads \cup {None}]
<1> DEFINE r == [req[t] EXCEPT !.at = req[t].then, !.seen = rec]
<1>1. r \in Requests /\ ReqOK(r)
    BY DEF TypeInv, TypeOK, Requests, ReqOK, Steps
<1>2. Goes(t, IF req[t].then = "idle" THEN Idle ELSE r)
    BY DEF Found
<1>3. lock' \in [Procs -> Threads \cup {None}]
    BY DEF Found, Holds, Releases, TypeInv, TypeOK
<1> QED
    BY <1>1, <1>2, <1>3, ReqType, IdleType

LEMMA InitType == Init => TypeInv
BY IdleType DEF Init, TypeInv, TypeOK, NoEntry, Cached

LEMMA AskType ==
    ASSUME TypeInv, NEW t \in Threads, NEW r \in Requests, ReqOK(r), Asks(t, r)
    PROVE  TypeInv'
<1>1. req' \in [Threads -> Requests] /\ \A u \in Threads : ReqOK(req'[u])
    BY ReqType DEF Asks
<1> QED
    BY <1>1 DEF Asks, TypeInv, TypeOK, db

(* What the requests begin with. *)
LEMMA StartsType ==
    ASSUME NEW id \in Ids
    PROVE  /\ Looking \in Requests /\ ReqOK(Looking)
           /\ \A after \in {"idle", "look"} :
               LET r == [Looking EXCEPT !.then = "dest", !.plan = id, !.after = after]
               IN  r \in Requests /\ ReqOK(r)
           /\ LET r == [Looking EXCEPT !.then = "check", !.plan = id]
              IN  r \in Requests /\ ReqOK(r)
           /\ LET r == [Looking EXCEPT !.then = "target"]
              IN  r \in Requests /\ ReqOK(r)
           /\ Registering(id) \in Requests /\ ReqOK(Registering(id))
           /\ LET r == [Registering(id) EXCEPT !.after = "look"]
              IN  r \in Requests /\ ReqOK(r)
           /\ Activating(id) \in Requests /\ ReqOK(Activating(id))
BY DEF Looking, Registering, Activating, Idle, Requests, Steps, ReqOK

LEMMA RequestType ==
    ASSUME TypeInv, NEW t \in Threads, Request(t)
    PROVE  TypeInv'
<1> USE DEF Ids
<1>1. <<Demo, "demo">> \in Ids /\ \A path \in Paths : <<path, "user">> \in Ids
    BY PathAssumption
<1>2. CASE UsePlan(t) \/ ExitDemo(t)
    BY <1>1, <1>2, AskType, StartsType DEF UsePlan, ExitDemo
<1>3. CASE OpenDemo(t) \/ ResetDemo(t)
    BY <1>1, <1>3, AskType, StartsType DEF OpenDemo, ResetDemo
<1>4. ASSUME NEW id \in Ids, Switch(t, id) PROVE TypeInv'
    BY <1>4, AskType, StartsType DEF Switch
<1>5. ASSUME NEW path \in Paths, LoadFile(t, path) PROVE TypeInv'
    BY <1>1, <1>5, AskType, StartsType DEF LoadFile
<1>6. ASSUME NEW path \in Paths, NEW a \in BOOLEAN, SaveAs(t, path, a) PROVE TypeInv'
    <2> DEFINE after == IF a THEN "look" ELSE "idle"
    <2>1. after \in {"idle", "look"}
        OBVIOUS
    <2>2. Asks(t, [Looking EXCEPT !.then = "dest", !.plan = <<path, "user">>, !.after = after])
        BY <1>6 DEF SaveAs
    <2> HIDE DEF after
    <2> QED
        BY <1>1, <2>1, <2>2, AskType, StartsType
<1>7. ASSUME NEW id \in Ids, Forget(t, id) PROVE TypeInv'
    <2>1. /\ plans' \subseteq plans /\ opened' \in [Ids -> Nat]
          /\ return' \in Ids \cup {None} /\ from' \in Ids \cup {None}
          /\ cache' \in [Procs -> Cached]
          /\ UNCHANGED <<active, proc, lock, req>>
        BY <1>7, OpenedType DEF Forget, TypeInv, TypeOK, WritesHere, Stamped, NoEntry, Cached
    <2> QED
        BY <2>1 DEF TypeInv, TypeOK
<1> QED
    BY <1>2, <1>3, <1>4, <1>5, <1>6, <1>7 DEF Request

LEMMA CacheType ==
    /\ Stamped \in [Procs -> Cached]
    /\ \A p : [Stamped EXCEPT ![p] = NoEntry] \in [Procs -> Cached]
BY DEF Stamped, Cached, NoEntry

LEMMA StepType ==
    ASSUME TypeInv, NEW t \in Threads, Step(t)
    PROVE  TypeInv'
<1> USE DEF Ids
<1>0. TypeOK /\ OnePerPath(plans) /\ ReqOK(req[t]) /\ req[t] \in Requests /\ proc[t] \in Procs
    BY DEF TypeInv, TypeOK, OnePerPath
<1>1. CASE Look(t)
    <2>1. CASE cache[proc[t]].rec # None
        <3>1. cache[proc[t]].rec \in Ids
            BY <1>0, <2>1 DEF TypeOK, Cached
        <3>2. Found(t, cache[proc[t]].rec) /\ UNCHANGED <<plans, opened, active, from, cache, return, proc>>
            BY <1>1, <2>1 DEF Look
        <3> QED
            BY <1>1, <3>1, <3>2, FoundType DEF TypeInv, TypeOK, Look
    <2>2. CASE cache[proc[t]].rec = None
        <3>1. /\ UNCHANGED <<return, proc>>
              /\ Goes(t, [req[t] EXCEPT !.at = "stamp", !.seen = active'])
              /\ Holds(t)
              /\ \/ active # None /\ UNCHANGED <<plans, opened, active, from, cache>>
                 \/ plans' = plans \cup {FirstPlan} /\ SetActive(FirstPlan) /\ Writes
            BY <1>1, <2>2 DEF Look
        <3>2. /\ plans' \subseteq Ids /\ OnePerPath(plans')
              /\ opened' \in [Ids -> Nat]
              /\ active' \in Ids /\ from' \in Ids \cup {None}
              /\ cache' \in [Procs -> Cached]
            <4>1. CASE active # None /\ UNCHANGED <<plans, opened, active, from, cache>>
                BY <1>0, <4>1 DEF TypeOK
            <4>2. CASE plans' = plans \cup {FirstPlan} /\ SetActive(FirstPlan) /\ Writes
                <5>1. FirstPlan \in Ids /\ OnePerPath(plans \cup {FirstPlan})
                    BY <1>0, FirstPlanOK DEF TypeOK
                <5> QED
                    BY <1>0, <4>2, <5>1, SetActiveType, CacheType DEF TypeOK, Writes
            <4> QED
                BY <3>1, <4>1, <4>2
        <3>3. /\ [req[t] EXCEPT !.at = "stamp", !.seen = active'] \in Requests
              /\ ReqOK([req[t] EXCEPT !.at = "stamp", !.seen = active'])
            BY <1>0, <3>2 DEF Requests, ReqOK, Steps
        <3>4. req' \in [Threads -> Requests] /\ \A u \in Threads : ReqOK(req'[u])
            BY <3>1, <3>3, ReqType
        <3> QED
            BY <1>0, <3>1, <3>2, <3>4 DEF TypeInv, TypeOK, OnePerPath, Holds
    <2> QED
        BY <2>1, <2>2
<1>2. CASE Stamp(t)
    <2>1. /\ Found(t, req[t].seen) /\ req[t].at = "stamp"
          /\ UNCHANGED <<db, proc, from>>
          /\ cache' = [cache EXCEPT ![proc[t]] =
                          [rec |-> req[t].seen, raced |-> req[t].seen # active]]
        BY <1>2 DEF Stamp
    <2>2. req[t].seen \in Ids
        BY <1>0, <2>1 DEF ReqOK
    <2>3. cache' \in [Procs -> Cached]
        BY <1>0, <2>1, <2>2 DEF TypeOK, Cached
    <2> QED
        BY <2>1, <2>2, <2>3, FoundType DEF TypeInv, TypeOK, db
<1>3. CASE Check(t)
    <2>1. UNCHANGED <<db, proc, cache, from>> /\ lock' \in [Procs -> Threads \cup {None}]
        BY <1>0, <1>3 DEF Check, Releases, TypeOK
    <2>2. CASE Ends(t)
        BY <1>0, <2>1, <2>2, EndsType DEF TypeInv, TypeOK, db
    <2>3. CASE ~Ends(t)
        <3> DEFINE id == req[t].plan
                   note == Notes(id, req[t].seen)
                   r == [Idle EXCEPT !.at = IF note THEN "note" ELSE "set",
                                     !.plan = id,
                                     !.seen = IF note THEN req[t].seen ELSE None]
        <3>1. id \in plans /\ Goes(t, r)
            BY <1>3, <2>3 DEF Check
        <3>2. req[t].seen \in Ids \cup {None} /\ id \in Ids
            BY <1>0, <3>1 DEF Requests, TypeOK
        <3>3. r \in Requests /\ ReqOK(r)
            <4> HIDE DEF note, id
            <4> QED
                BY <3>2 DEF Idle, Requests, Steps, ReqOK, id
        <3> HIDE DEF r
        <3>4. req' \in [Threads -> Requests] /\ \A u \in Threads : ReqOK(req'[u])
            BY <3>1, <3>3, ReqType
        <3> QED
            BY <1>0, <2>1, <3>4 DEF TypeInv, TypeOK, db
    <2> QED
        BY <2>2, <2>3
<1>4. CASE NoteReturn(t)
    <2>1. [req[t] EXCEPT !.at = "set", !.seen = None] \in Requests
        BY <1>0 DEF Requests, Steps
    <2>2. ReqOK([req[t] EXCEPT !.at = "set", !.seen = None])
        BY <1>0 DEF Requests, ReqOK
    <2>3. req' \in [Threads -> Requests] /\ \A u \in Threads : ReqOK(req'[u])
        BY <1>4, <2>1, <2>2, ReqType DEF NoteReturn
    <2>4. return' \in Ids \cup {None} /\ cache' \in [Procs -> Cached]
        BY <1>0, <1>4, CacheType DEF NoteReturn, Requests, Writes
    <2> QED
        BY <1>0, <1>4, <2>3, <2>4 DEF NoteReturn, TypeInv, TypeOK
<1>5. CASE Activate(t)
    <2>1. /\ req' \in [Threads -> Requests] /\ \A u \in Threads : ReqOK(req'[u])
          /\ lock' \in [Procs -> Threads \cup {None}]
          /\ UNCHANGED <<plans, return, proc>>
        BY <1>0, <1>5, EndsType DEF Activate, Releases, TypeOK
    <2>2. /\ opened' \in [Ids -> Nat]
          /\ active' \in Ids \cup {None} /\ from' \in Ids \cup {None}
          /\ cache' \in [Procs -> Cached]
        <3>1. CASE req[t].plan \in plans
            BY <1>0, <1>5, <3>1, SetActiveType, CacheType DEF Activate, WritesHere, TypeOK
        <3>2. CASE req[t].plan \notin plans
            BY <1>0, <1>5, <3>2 DEF Activate, TypeOK
        <3> QED
            BY <3>1, <3>2
    <2> QED
        BY <1>0, <2>1, <2>2 DEF TypeInv, TypeOK
<1>6. CASE RegisterPlanFile(t)
    <2> DEFINE id == Registered(req[t].plan[1], Kind(req[t].plan))
               r == [req[t] EXCEPT !.at = req[t].after, !.after = "idle", !.plan = id]
    <2>1. id \in Ids /\ OnePerPath(plans \cup {id})
        <3>1. req[t].plan[1] \in Paths /\ Kind(req[t].plan) \in {"user", "demo"}
            BY <1>0, <1>6 DEF RegisterPlanFile, ReqOK, Kind
        <3> QED
            BY <1>0, <3>1, RegisteredOK DEF TypeOK
    <2>2. /\ plans' = plans \cup {id}
          /\ cache' \in [Procs -> Cached]
          /\ Goes(t, IF req[t].after = "idle" THEN Idle ELSE r)
          /\ UNCHANGED <<opened, active, return, proc, lock, from>>
        BY <1>0, <1>6, CacheType DEF RegisterPlanFile, TypeOK, Cached, NoEntry
    <2> HIDE DEF id
    <2>3. r \in Requests
        BY <1>0, <2>1 DEF Requests, Steps, ReqOK
    <2>4. req[t].after # "idle" => ReqOK(r)
        BY <1>0, <2>1 DEF Requests, ReqOK
    <2> HIDE DEF r
    <2>5. req' \in [Threads -> Requests] /\ \A u \in Threads : ReqOK(req'[u])
        BY <2>2, <2>3, <2>4, ReqType, IdleType
    <2> QED
        BY <1>0, <2>1, <2>2, <2>5 DEF TypeInv, TypeOK, OnePerPath
<1>7. CASE Target(t)
    <2> DEFINE users == {id \in plans : Kind(id) # "demo"}
    <2>1. UNCHANGED <<db, proc, lock, cache, from>>
        BY <1>7 DEF Target
    <2>2. users # {} => Latest(users) \in Ids
        <3>1. users \subseteq Ids /\ opened \in [Ids -> Nat]
            BY <1>0 DEF TypeOK
        <3> HIDE DEF users
        <3>2. ASSUME users # {} PROVE Latest(users) \in users
            BY <3>1, <3>2, LatestIn
        <3> QED
            BY <3>1, <3>2
    <2>3. users # {} =>
              (IF return \in users THEN return ELSE Latest(users)) \in Ids
        BY <1>0, <2>2 DEF TypeOK
    <2>4. <<Work, "user">> \in Ids
        BY PathAssumption
    <2>5. req' \in [Threads -> Requests] /\ \A u \in Threads : ReqOK(req'[u])
        <3> DEFINE id == IF return \in users THEN return ELSE Latest(users)
        <3>1. CASE Kind(req[t].seen) # "demo"
            BY <1>7, <3>1, EndsType DEF Target
        <3>2. CASE Kind(req[t].seen) = "demo" /\ users = {}
            <4>1. Goes(t, Activating(<<Work, "user">>))
                BY <1>7, <3>2 DEF Target
            <4> QED
                BY <2>4, <4>1, ReqType, StartsType
        <3>3. CASE Kind(req[t].seen) = "demo" /\ users # {}
            <4>1. Goes(t, [Looking EXCEPT !.then = "check", !.plan = id])
                BY <1>7, <3>3 DEF Target
            <4>2. id \in Ids
                BY <2>3, <3>3
            <4> HIDE DEF id
            <4> QED
                BY <4>1, <4>2, ReqType, StartsType
        <3> QED
            BY <3>1, <3>2, <3>3
    <2> QED
        BY <1>0, <2>1, <2>5 DEF TypeInv, TypeOK, db
<1>8. CASE Dest(t)
    <2>1. UNCHANGED <<db, proc, lock, cache, from>> /\ req[t].plan \in Ids
        BY <1>0, <1>8 DEF Dest, ReqOK
    <2>2. Ends(t) \/ Goes(t, Registering(req[t].plan)) \/ Goes(t, Activating(req[t].plan))
        BY <1>8 DEF Dest
    <2>3. req' \in [Threads -> Requests] /\ \A u \in Threads : ReqOK(req'[u])
        BY <2>1, <2>2, EndsType, ReqType, StartsType
    <2> QED
        BY <1>0, <2>1, <2>3 DEF TypeInv, TypeOK, db
<1> QED
    BY <1>1, <1>2, <1>3, <1>4, <1>5, <1>6, <1>7, <1>8 DEF Step

LEMMA NextType == TypeInv /\ [Next]_vars => TypeInv'
<1> SUFFICES ASSUME TypeInv, [Next]_vars PROVE TypeInv'
    OBVIOUS
<1>1. CASE OtherWrite
    BY <1>1, CacheType DEF OtherWrite, Writes, TypeInv, TypeOK, db
<1>2. CASE UNCHANGED vars
    BY <1>2 DEF vars, db, TypeInv, TypeOK
<1> QED
    BY <1>1, <1>2, RequestType, StepType DEF Next

(* The registry keeps its types, and one plan per path.                    *)
THEOREM Typed == Spec => []TypeOK
<1>1. Init => TypeInv
    BY InitType
<1>2. TypeInv /\ [Next]_vars => TypeInv'
    BY NextType
<1>3. TypeInv => TypeOK
    BY DEF TypeInv
<1> QED
    BY <1>1, <1>2, <1>3, PTL DEF Spec

-----------------------------------------------------------------------------
(* The lock of a process and its cached record                             *)

(* Between the read of a record and its stamp, and from the look of a      *)
(* switch to its end, a thread holds its process's lock.                   *)
Locked == {"stamp", "check", "note", "set"}
LockInv == \A t \in Threads : req[t].at \in Locked => lock[proc[t]] = t

(* The record about to be stamped is the active plan's, unless another     *)
(* process is there to switch plans.                                       *)
SeenInv ==
    \A t \in Threads :
        req[t].at = "stamp" => req[t].seen = active \/ SomeoneElse(proc[t])

CacheInv == LockInv /\ SeenInv /\ StaleOnlyByRace

(* Where a request begins, and what it means to do. *)
LEMMA Starts ==
    /\ Looking.at = "look"
    /\ \A id :
        /\ Registering(id).at = "register"
        /\ Activating(id).at = "register"
        /\ [Looking EXCEPT !.then = "check", !.plan = id].at = "look"
        /\ \A a : [Looking EXCEPT !.then = "dest", !.plan = id, !.after = a].at = "look"
        /\ [Registering(id) EXCEPT !.after = "look"].at = "register"
    /\ [Looking EXCEPT !.then = "target"].at = "look"
BY DEF Looking, Registering, Activating, Idle

(* A request only puts its first step down. *)
LEMMA RequestStep ==
    ASSUME NEW t \in Threads, Request(t)
    PROVE  \/ \E id \in Ids : Forget(t, id)
           \/ \E r : Asks(t, r) /\ r.at \in {"look", "register"}
<1>1. CASE UsePlan(t)
    BY <1>1, Starts DEF UsePlan
<1>2. CASE OpenDemo(t)
    BY <1>2, Starts DEF OpenDemo
<1>3. CASE ResetDemo(t)
    BY <1>3, Starts DEF ResetDemo
<1>4. CASE ExitDemo(t)
    BY <1>4, Starts DEF ExitDemo
<1>5. ASSUME NEW id \in Ids, Switch(t, id)
      PROVE  \E r : Asks(t, r) /\ r.at \in {"look", "register"}
    <2>1. Asks(t, [Looking EXCEPT !.then = "check", !.plan = id])
        BY <1>5 DEF Switch
    <2> QED
        BY <2>1, Starts
<1>6. ASSUME NEW path \in Paths, LoadFile(t, path)
      PROVE  \E r : Asks(t, r) /\ r.at \in {"look", "register"}
    BY <1>6, Starts DEF LoadFile
<1>7. ASSUME NEW path \in Paths, NEW a \in BOOLEAN, SaveAs(t, path, a)
      PROVE  \E r : Asks(t, r) /\ r.at \in {"look", "register"}
    <2> DEFINE after == IF a THEN "look" ELSE "idle"
               r == [Looking EXCEPT !.then = "dest", !.plan = <<path, "user">>, !.after = after]
    <2>1. Asks(t, r)
        BY <1>7 DEF SaveAs
    <2>2. r.at = "look"
        BY Starts
    <2> HIDE DEF r
    <2> QED
        BY <2>1, <2>2
<1> QED
    BY <1>1, <1>2, <1>3, <1>4, <1>5, <1>6, <1>7 DEF Request

(* Every step of a thread is by one whose process's lock is free or its own, *)
(* if it takes or releases the lock or comes to a place that holds it.      *)
LEMMA LockStep ==
    ASSUME TypeInv, LockInv, [Next]_vars
    PROVE  LockInv'
<1> USE DEF TypeInv, TypeOK, Locked
<1>0. None \notin Threads
    BY NoneAssumption
<1>1. ASSUME NEW t \in Threads, Free(t), UNCHANGED proc,
             \A u \in Threads \ {t} : req'[u] = req[u],
             \A p \in Procs \ {proc[t]} : lock'[p] = lock[p],
             req'[t].at \in Locked => lock'[proc[t]] = t
      PROVE  LockInv'
    BY <1>0, <1>1 DEF LockInv, Free
<1>2. ASSUME NEW t \in Threads, UNCHANGED <<lock, proc>>,
             \A u \in Threads \ {t} : req'[u] = req[u],
             req'[t].at \in Locked => req[t].at \in Locked
      PROVE  LockInv'
    BY <1>2 DEF LockInv
<1>3. ASSUME NEW t \in Threads, NEW rec, Free(t), Found(t, rec), UNCHANGED proc,
             ReqOK(req[t])
      PROVE  LockInv'
    <2>1. \A u \in Threads \ {t} : req'[u] = req[u]
        BY <1>3 DEF Found, Goes
    <2>2. \A p \in Procs \ {proc[t]} : lock'[p] = lock[p]
        BY <1>3 DEF Found, Holds, Releases
    <2>3. req'[t].at \in Locked => req[t].then = "check" /\ Holds(t)
        BY <1>3 DEF Found, Goes, ReqOK, Idle, Requests
    <2>4. Holds(t) => lock'[proc[t]] = t
        BY DEF Holds
    <2> QED
        BY <1>1, <1>3, <2>1, <2>2, <2>3, <2>4
<1>4. ASSUME NEW t \in Threads, Request(t) PROVE LockInv'
    <2>1. ASSUME NEW r, Asks(t, r), r.at \in {"look", "register"} PROVE LockInv'
        BY <2>1, <1>2 DEF Asks, Goes
    <2>3. ASSUME NEW id \in Ids, Forget(t, id) PROVE LockInv'
        BY <2>3, <1>2 DEF Forget
    <2> QED
        BY <1>4, <2>1, <2>3, RequestStep
<1>5. ASSUME NEW t \in Threads, Step(t) PROVE LockInv'
    <2>1. CASE Look(t)
        <3>1. ASSUME Holds(t), Goes(t, [req[t] EXCEPT !.at = "stamp", !.seen = active'])
              PROVE  LockInv'
            BY <1>1, <2>1, <3>1 DEF Look, Holds, Goes
        <3> QED
            BY <1>3, <2>1, <3>1 DEF Look
    <2>2. CASE Stamp(t)
        <3>1. Free(t)
            BY <2>2 DEF Stamp, LockInv, Free
        <3> QED
            BY <1>3, <2>2, <3>1 DEF Stamp
    <2>3. CASE Check(t)
        <3>1. Free(t) /\ req[t].at \in Locked
            BY <2>3 DEF Check, LockInv, Free
        <3>2. CASE Ends(t) /\ Releases(t)
            BY <1>1, <2>3, <3>1, <3>2 DEF Check, Ends, Goes, Releases, Idle
        <3>3. CASE UNCHANGED lock
            BY <1>2, <2>3, <3>1, <3>3 DEF Check, Ends, Goes
        <3> QED
            BY <2>3, <3>2, <3>3 DEF Check
    <2>4. CASE NoteReturn(t)
        BY <1>2, <2>4 DEF NoteReturn, Goes
    <2>5. CASE Activate(t)
        <3>1. Free(t)
            BY <2>5 DEF Activate, LockInv, Free
        <3> QED
            BY <1>1, <2>5, <3>1 DEF Activate, Ends, Goes, Releases, Idle
    <2>6. CASE RegisterPlanFile(t)
        <3>1. req'[t].at \in {"idle", "look"} /\ \A u \in Threads \ {t} : req'[u] = req[u]
            BY <2>6 DEF RegisterPlanFile, Goes, ReqOK, Idle, Requests
        <3> QED
            BY <1>2, <2>6, <3>1 DEF RegisterPlanFile
    <2>7. CASE Target(t) \/ Dest(t)
        <3>1. req'[t].at \in {"idle", "look", "register"} /\ \A u \in Threads \ {t} : req'[u] = req[u]
            <4>1. ASSUME NEW r, Goes(t, r), r.at \in {"idle", "look", "register"}
                  PROVE  /\ req'[t].at \in {"idle", "look", "register"}
                         /\ \A u \in Threads \ {t} : req'[u] = req[u]
                BY <4>1 DEF Goes
            <4>2. Idle.at = "idle"
                BY DEF Idle
            <4>3. PICK r : Goes(t, r) /\ r.at \in {"idle", "look", "register"}
                <5>1. CASE Target(t)
                    BY <4>2, <5>1, Starts DEF Target, Ends
                <5>2. CASE Dest(t)
                    BY <4>2, <5>2, Starts DEF Dest, Ends
                <5> QED
                    BY <2>7, <5>1, <5>2
            <4> QED
                BY <4>1, <4>3
        <3> QED
            BY <1>2, <2>7, <3>1 DEF Target, Dest
    <2> QED
        BY <1>5, <2>1, <2>2, <2>3, <2>4, <2>5, <2>6, <2>7 DEF Step
<1>6. CASE OtherWrite
    BY <1>6 DEF OtherWrite, LockInv
<1>7. CASE UNCHANGED vars
    BY <1>7 DEF vars, LockInv
<1> QED
    BY <1>4, <1>5, <1>6, <1>7 DEF Next

(* What a step does to the active plan: it is left, or a thread under its  *)
(* lock changes it, which empties every cache.                             *)
LEMMA ActiveStep ==
    ASSUME TypeInv, LockInv, [Next]_vars
    PROVE  \/ UNCHANGED active
           \/ /\ \E t \in Threads :
                   /\ Free(t) /\ req[t].at \in {"look", "set"}
                   /\ \A u \in Threads \ {t} : req'[u] = req[u]
                   /\ req'[t].at = "stamp" => req'[t].seen = active'
              /\ \A p \in Procs : cache'[p].rec = None
<1> USE DEF TypeInv, TypeOK
<1> DEFINE Goal == \/ UNCHANGED active
                   \/ /\ \E t \in Threads :
                           /\ Free(t) /\ req[t].at \in {"look", "set"}
                           /\ \A u \in Threads \ {t} : req'[u] = req[u]
                           /\ req'[t].at = "stamp" => req'[t].seen = active'
                      /\ \A p \in Procs : cache'[p].rec = None
<1>1. ASSUME NEW t \in Threads, Look(t) PROVE Goal
    <2>1. CASE UNCHANGED active
        BY <2>1
    <2>2. CASE ~UNCHANGED active
        <3>1. /\ req[t].at = "look" /\ Free(t)
              /\ Goes(t, [req[t] EXCEPT !.at = "stamp", !.seen = active'])
              /\ Writes
            BY <1>1, <2>2 DEF Look
        <3>2. \A u \in Threads \ {t} : req'[u] = req[u]
            BY <3>1 DEF Goes
        <3>3. req'[t].seen = active'
            BY <3>1 DEF Goes, Requests
        <3>4. \A p \in Procs : cache'[p].rec = None
            BY <3>1 DEF Writes, Stamped, NoEntry
        <3> QED
            BY <3>1, <3>2, <3>3, <3>4
    <2> QED
        BY <2>1, <2>2
<1>2. ASSUME NEW t \in Threads, Activate(t) PROVE Goal
    <2>1. Free(t) /\ req[t].at = "set"
        BY <1>2 DEF Activate, Free, LockInv, Locked
    <2>2. /\ \A u \in Threads \ {t} : req'[u] = req[u]
          /\ req'[t].at = "idle"
        BY <1>2 DEF Activate, Ends, Goes, Idle
    <2>3. CASE req[t].plan \in plans
        <3>1. \A p \in Procs : cache'[p].rec = None
            BY <1>2, <2>3 DEF Activate, WritesHere, Stamped, NoEntry
        <3> QED
            BY <2>1, <2>2, <3>1
    <2>4. CASE req[t].plan \notin plans
        BY <1>2, <2>4 DEF Activate
    <2> QED
        BY <2>3, <2>4
<1>3. ASSUME NEW t \in Threads, Step(t), ~Look(t), ~Activate(t) PROVE Goal
    BY <1>3 DEF Step, Stamp, Check, NoteReturn, RegisterPlanFile, Target, Dest, db
<1>4. ASSUME NEW t \in Threads, Request(t) PROVE Goal
    BY <1>4, RequestStep DEF Forget, Asks, db
<1>5. CASE OtherWrite
    BY <1>5 DEF OtherWrite, db
<1>6. CASE UNCHANGED vars
    BY <1>6 DEF vars, db
<1> QED
    BY <1>1, <1>2, <1>3, <1>4, <1>5, <1>6 DEF Next

(* A thread comes to the stamp with the active plan's record. *)
LEMMA StampStep ==
    ASSUME TypeInv, [Next]_vars, NEW u \in Threads, req'[u].at = "stamp"
    PROVE  req'[u] = req[u] \/ req'[u].seen = active'
<1> USE DEF TypeInv, TypeOK
<1> DEFINE Goal == req'[u] = req[u] \/ req'[u].seen = active'
<1>1. ASSUME NEW t \in Threads, NEW r, Goes(t, r), r.at # "stamp" PROVE Goal
    BY <1>1 DEF Goes
<1>2. ASSUME NEW t \in Threads, NEW rec, Found(t, rec) PROVE Goal
    <2>1. CASE req[t].then = "idle"
        BY <1>1, <1>2, <2>1 DEF Found, Idle
    <2>2. CASE req[t].then # "idle"
        <3>1. [req[t] EXCEPT !.at = req[t].then, !.seen = rec].at # "stamp"
            BY DEF ReqOK, Requests
        <3> QED
            BY <1>1, <1>2, <2>2, <3>1 DEF Found
    <2> QED
        BY <2>1, <2>2
<1>3. ASSUME NEW t \in Threads, Look(t) PROVE Goal
    <2>1. ASSUME Goes(t, [req[t] EXCEPT !.at = "stamp", !.seen = active']) PROVE Goal
        BY <2>1 DEF Goes, Requests
    <2> QED
        BY <1>2, <1>3, <2>1 DEF Look
<1>4. ASSUME NEW t \in Threads, Request(t) PROVE Goal
    BY <1>1, <1>4, RequestStep DEF Forget, Asks
<1>5. Idle.at = "idle"
    BY DEF Idle
<1>6. ASSUME NEW t \in Threads, Step(t), ~Look(t) PROVE Goal
    <2>1. CASE Stamp(t)
        BY <1>2, <2>1 DEF Stamp
    <2>2. CASE Check(t)
        <3> DEFINE note == Notes(req[t].plan, req[t].seen)
                   r == [Idle EXCEPT !.at = IF note THEN "note" ELSE "set",
                                     !.plan = req[t].plan,
                                     !.seen = IF note THEN req[t].seen ELSE None]
        <3>1. Goes(t, Idle) \/ Goes(t, r)
            BY <2>2 DEF Check, Ends
        <3>2. r.at # "stamp"
            <4> HIDE DEF note
            <4> QED
                BY DEF Idle
        <3> HIDE DEF r
        <3> QED
            BY <1>1, <1>5, <3>1, <3>2
    <2>3. CASE NoteReturn(t)
        BY <2>3 DEF NoteReturn, Goes
    <2>4. CASE Activate(t)
        BY <1>1, <1>5, <2>4 DEF Activate, Ends
    <2>5. CASE RegisterPlanFile(t)
        BY <2>5 DEF RegisterPlanFile, Goes, ReqOK, Idle, Requests
    <2>6. CASE Target(t)
        BY <1>1, <1>5, <2>6, Starts DEF Target, Ends
    <2>7. CASE Dest(t)
        BY <1>1, <1>5, <2>7, Starts DEF Dest, Ends
    <2> QED
        BY <1>6, <2>1, <2>2, <2>3, <2>4, <2>5, <2>6, <2>7 DEF Step
<1>7. CASE OtherWrite
    BY <1>7 DEF OtherWrite
<1>8. CASE UNCHANGED vars
    BY <1>8 DEF vars
<1> QED
    BY <1>3, <1>4, <1>6, <1>7, <1>8 DEF Next

(* A cached record is emptied, kept, or comes from a thread's stamp. *)
LEMMA CacheStep ==
    ASSUME TypeInv, [Next]_vars, NEW p \in Procs, cache'[p].rec # None
    PROVE  /\ UNCHANGED active
           /\ \/ cache'[p] = cache[p]
              \/ \E t \in Threads :
                    /\ proc[t] = p /\ req[t].at = "stamp"
                    /\ cache'[p].rec = req[t].seen
                    /\ cache'[p].raced = (req[t].seen # active)
<1> USE DEF TypeInv, TypeOK
<1>1. \A q : Stamped[p].rec = None /\ [Stamped EXCEPT ![q] = NoEntry][p].rec = None
    BY DEF Stamped, NoEntry
<1>2. [cache EXCEPT ![p] = NoEntry][p].rec = None
    BY DEF NoEntry, Cached
<1> DEFINE Goal == /\ UNCHANGED active
                   /\ \/ cache'[p] = cache[p]
                      \/ \E t \in Threads :
                            /\ proc[t] = p /\ req[t].at = "stamp"
                            /\ cache'[p].rec = req[t].seen
                            /\ cache'[p].raced = (req[t].seen # active)
<1>3. ASSUME NEW t \in Threads, Look(t) PROVE Goal
    BY <1>1, <1>3 DEF Look, Writes
<1>4. ASSUME NEW t \in Threads, Stamp(t) PROVE Goal
    <2>1. /\ UNCHANGED active
          /\ cache' = [cache EXCEPT ![proc[t]] =
                          [rec |-> req[t].seen, raced |-> req[t].seen # active]]
          /\ req[t].at = "stamp"
        BY <1>4 DEF Stamp, db
    <2>2. CASE proc[t] = p
        BY <2>1, <2>2
    <2>3. CASE proc[t] # p
        BY <2>1, <2>3
    <2> QED
        BY <2>2, <2>3
<1>5. ASSUME NEW t \in Threads, Activate(t) PROVE Goal
    BY <1>1, <1>5 DEF Activate, WritesHere
<1>6. ASSUME NEW t \in Threads, RegisterPlanFile(t) PROVE Goal
    <2>1. UNCHANGED active
        BY <1>6 DEF RegisterPlanFile
    <2>2. \/ cache' = [cache EXCEPT ![proc[t]] = NoEntry]
          \/ cache' = [Stamped EXCEPT ![proc[t]] = NoEntry]
        BY <1>6 DEF RegisterPlanFile
    <2> QED
        BY <1>1, <1>2, <2>1, <2>2
<1>7. ASSUME NEW t \in Threads,
             Check(t) \/ NoteReturn(t) \/ Target(t) \/ Dest(t)
      PROVE  Goal
    BY <1>1, <1>7 DEF Check, NoteReturn, Target, Dest, db, Writes
<1>8. ASSUME NEW t \in Threads, Request(t) PROVE Goal
    <2>1. ASSUME NEW id \in Ids, Forget(t, id) PROVE Goal
        BY <1>1, <2>1 DEF Forget, WritesHere
    <2>2. ASSUME NEW r, Asks(t, r) PROVE Goal
        BY <2>2 DEF Asks, db
    <2> QED
        BY <1>8, <2>1, <2>2, RequestStep
<1>9. CASE OtherWrite
    BY <1>1, <1>9 DEF OtherWrite, Writes
<1>10. CASE UNCHANGED vars
    BY <1>10 DEF vars, db
<1> QED
    BY <1>3, <1>4, <1>5, <1>6, <1>7, <1>8, <1>9, <1>10 DEF Next, Step

LEMMA ProcStep == [Next]_vars => UNCHANGED proc
<1> SUFFICES ASSUME [Next]_vars PROVE UNCHANGED proc
    OBVIOUS
<1>1. ASSUME NEW t \in Threads, Request(t) PROVE UNCHANGED proc
    BY <1>1, RequestStep DEF Forget, Asks
<1>2. ASSUME NEW t \in Threads, Step(t) PROVE UNCHANGED proc
    BY <1>2 DEF Step, Look, Stamp, Check, NoteReturn, Activate, RegisterPlanFile, Target, Dest
<1>3. CASE OtherWrite
    BY <1>3 DEF OtherWrite
<1> QED
    BY <1>1, <1>2, <1>3 DEF Next, vars

LEMMA CacheInvStep ==
    ASSUME TypeInv, CacheInv, [Next]_vars
    PROVE  CacheInv'
<1> USE DEF TypeInv, TypeOK
<1>1. LockInv /\ SeenInv /\ StaleOnlyByRace /\ UNCHANGED proc
    BY ProcStep DEF CacheInv
<1>2. LockInv'
    BY <1>1, LockStep
<1>3. SeenInv'
    <2> SUFFICES ASSUME NEW u \in Threads, req'[u].at = "stamp"
                 PROVE  req'[u].seen = active' \/ SomeoneElse(proc[u])
        BY <1>1 DEF SeenInv, SomeoneElse
    <2>1. CASE req'[u].seen = active'
        BY <2>1
    <2>2. CASE req'[u] = req[u] /\ UNCHANGED active
        BY <1>1, <2>2 DEF SeenInv
    <2>3. CASE req'[u] = req[u] /\ ~UNCHANGED active /\ req'[u].seen # active'
        <3>1. PICK t \in Threads :
                  /\ Free(t) /\ req[t].at \in {"look", "set"}
                  /\ req'[t].at = "stamp" => req'[t].seen = active'
            BY <1>1, <2>3, ActiveStep
        <3>2. req[u].at = "stamp" /\ u # t
            BY <2>3, <3>1
        <3>3. lock[proc[u]] = u
            BY <1>1, <3>2 DEF LockInv, Locked
        <3>4. proc[t] # proc[u]
            BY <3>1, <3>2, <3>3, NoneAssumption DEF Free
        <3> QED
            BY <3>4 DEF SomeoneElse
    <2> QED
        BY <2>1, <2>2, <2>3, StampStep
<1>4. StaleOnlyByRace'
    <2> SUFFICES ASSUME NEW p \in Procs, cache'[p].rec # None
                 PROVE  cache'[p].rec = active' \/ (cache'[p].raced /\ SomeoneElse(p))
        BY <1>1 DEF StaleOnlyByRace, SomeoneElse
    <2>1. UNCHANGED active
        BY CacheStep
    <2>2. CASE cache'[p] = cache[p]
        BY <1>1, <2>1, <2>2 DEF StaleOnlyByRace
    <2>3. ASSUME NEW t \in Threads, proc[t] = p, req[t].at = "stamp",
                 cache'[p].rec = req[t].seen, cache'[p].raced = (req[t].seen # active)
          PROVE  cache'[p].rec = active' \/ (cache'[p].raced /\ SomeoneElse(p))
        BY <1>1, <2>1, <2>3 DEF SeenInv
    <2> QED
        BY <2>2, <2>3, CacheStep
<1> QED
    BY <1>2, <1>3, <1>4 DEF CacheInv

LEMMA InitCache == Init => CacheInv
BY DEF Init, CacheInv, LockInv, SeenInv, StaleOnlyByRace, Locked, Idle, NoEntry

(* A cached record that will be used again is the active plan's, but for   *)
(* the switch of another process at one place (active_record).             *)
THEOREM CacheIsFresh == Spec => []StaleOnlyByRace
<1>1. Init => CacheInv
    BY InitCache
<1>2. TypeInv /\ CacheInv /\ [Next]_vars => CacheInv'
    BY CacheInvStep
<1>3. CacheInv => StaleOnlyByRace
    BY DEF CacheInv
<1>4. Init => TypeInv
    BY InitType
<1>5. TypeInv /\ [Next]_vars => TypeInv'
    BY NextType
<1> QED
    BY <1>1, <1>2, <1>3, <1>4, <1>5, PTL DEF Spec

-----------------------------------------------------------------------------
(* The active plan is registered                                           *)

LEMMA RegisteredStep ==
    ASSUME ActiveIsRegistered, [Next]_vars
    PROVE  ActiveIsRegistered'
<1> USE DEF ActiveIsRegistered
<1>1. ASSUME NEW t \in Threads, Look(t) PROVE ActiveIsRegistered'
    <2>1. \/ UNCHANGED <<plans, active>>
          \/ plans' = plans \cup {FirstPlan} /\ SetActive(FirstPlan)
        BY <1>1 DEF Look
    <2> QED
        BY <2>1 DEF SetActive
<1>2. ASSUME NEW t \in Threads, Activate(t) PROVE ActiveIsRegistered'
    <2>1. /\ UNCHANGED plans
          /\ (UNCHANGED active \/ (req[t].plan \in plans /\ SetActive(req[t].plan)))
        BY <1>2 DEF Activate
    <2> QED
        BY <2>1 DEF SetActive
<1>3. ASSUME NEW t \in Threads, Step(t), ~Look(t), ~Activate(t) PROVE ActiveIsRegistered'
    <2>1. UNCHANGED active /\ plans \subseteq plans'
        BY <1>3 DEF Step, Stamp, Check, NoteReturn, RegisterPlanFile, Target, Dest, db
    <2> QED
        BY <2>1
<1>4. ASSUME NEW t \in Threads, NEW id \in Ids, Forget(t, id) PROVE ActiveIsRegistered'
    BY <1>4 DEF Forget
<1>5. ASSUME NEW t \in Threads, Request(t) PROVE ActiveIsRegistered'
    BY <1>4, <1>5, RequestStep DEF Asks, db
<1>6. CASE OtherWrite
    BY <1>6 DEF OtherWrite, db
<1>7. CASE UNCHANGED vars
    BY <1>7 DEF vars, db
<1> QED
    BY <1>1, <1>2, <1>3, <1>5, <1>6, <1>7 DEF Next

(* The active plan is a registered one, however requests of any processes  *)
(* interleave (remove_plan, set_active_plan).                              *)
THEOREM ActiveRegistered == Spec => []ActiveIsRegistered
<1>1. Init => ActiveIsRegistered
    BY DEF Init, ActiveIsRegistered
<1>2. ActiveIsRegistered /\ [Next]_vars => ActiveIsRegistered'
    BY RegisteredStep
<1> QED
    BY <1>1, <1>2, PTL DEF Spec

-----------------------------------------------------------------------------
(* The way back from the demo, when one process serves every request       *)

(* Only an open demo has a plan to go back to, and it is noted.            *)
BackOK ==
    /\ active = None \/ Kind(active) # "demo" => from = None
    /\ from # None => return = from /\ from \in plans

(* A thread that switches under the lock knows the active plan, and has    *)
(* noted it before it leaves it for the demo.                              *)
ThreadOK(t) ==
    /\ req[t].at = "check" => req[t].seen = active /\ active # None
    /\ req[t].at = "note" =>
           req[t].seen = active /\ active # None /\ Kind(active) # "demo"
    /\ req[t].at = "set" /\ Kind(req[t].plan) = "demo" =>
           active = None \/ Kind(active) = "demo" \/ return = active

WayInv == OneProcess => BackOK /\ \A t \in Threads : ThreadOK(t)

LEMMA OthersUnlocked ==
    ASSUME TypeInv, LockInv, OneProcess,
           NEW t \in Threads, Free(t), NEW u \in Threads, u # t
    PROVE  req[u].at \notin Locked
BY NoneAssumption DEF LockInv, OneProcess, Free

(* A thread finds the active plan's record. *)
LEMMA FoundOK ==
    ASSUME TypeInv, NEW t \in Threads, Found(t, active), active # None,
           UNCHANGED <<active, return>>
    PROVE  ThreadOK(t)'
<1> USE DEF TypeInv, TypeOK
<1>1. CASE req[t].then = "idle"
    <2>1. req'[t].at = "idle"
        BY <1>1 DEF Found, Goes, Idle
    <2> QED
        BY <2>1 DEF ThreadOK
<1>2. CASE req[t].then # "idle"
    <2>1. req'[t].at = req[t].then /\ req'[t].seen = active
        BY <1>2 DEF Found, Goes, Requests
    <2>2. req[t].then \in {"idle", "check", "target", "dest"}
        BY DEF ReqOK
    <2> QED
        BY <2>1, <2>2 DEF ThreadOK
<1> QED
    BY <1>1, <1>2

LEMMA WayInvStep ==
    ASSUME TypeInv, CacheInv, ActiveIsRegistered, WayInv, [Next]_vars
    PROVE  WayInv'
<1> SUFFICES ASSUME OneProcess
             PROVE  BackOK' /\ \A t \in Threads : ThreadOK(t)'
    BY ProcStep DEF WayInv, OneProcess
<1> USE DEF TypeInv, TypeOK
<1>1. /\ BackOK /\ \A t \in Threads : ThreadOK(t)
      /\ LockInv /\ SeenInv /\ StaleOnlyByRace
      /\ \A t \in Threads : ~SomeoneElse(proc[t])
    BY DEF WayInv, CacheInv, SomeoneElse, OneProcess
(* A step that leaves the plans, or adds to them. *)
<1>2. ASSUME NEW t \in Threads, UNCHANGED <<active, return, from>>, plans \subseteq plans',
             \A u \in Threads \ {t} : req'[u] = req[u], ThreadOK(t)'
      PROVE  BackOK' /\ \A u \in Threads : ThreadOK(u)'
    <2>1. BackOK'
        BY <1>1, <1>2 DEF BackOK
    <2>2. \A u \in Threads \ {t} : ThreadOK(u)'
        BY <1>1, <1>2 DEF ThreadOK
    <2> QED
        BY <1>2, <2>1, <2>2
<1>3. ASSUME NEW t \in Threads, NEW r, Goes(t, r), r.at \notin Locked
      PROVE  /\ \A u \in Threads \ {t} : req'[u] = req[u]
             /\ ThreadOK(t)'
    <2>1. req'[t].at \notin Locked /\ \A u \in Threads \ {t} : req'[u] = req[u]
        BY <1>3 DEF Goes
    <2> QED
        BY <2>1 DEF ThreadOK, Locked
(* A step under the lock: the other threads are at no place of a switch.   *)
<1>4. ASSUME NEW t \in Threads, Free(t), BackOK', ThreadOK(t)',
             \A u \in Threads \ {t} : req'[u] = req[u]
      PROVE  BackOK' /\ \A u \in Threads : ThreadOK(u)'
    <2>1. \A u \in Threads \ {t} : req'[u].at \notin Locked
        BY <1>1, <1>4, OthersUnlocked
    <2> QED
        BY <1>4, <2>1 DEF ThreadOK, Locked
<1>5. ASSUME NEW t \in Threads, Look(t)
      PROVE  BackOK' /\ \A u \in Threads : ThreadOK(u)'
    <2>1. CASE cache[proc[t]].rec # None
        <3>1. cache[proc[t]].rec = active
            BY <1>1, <2>1 DEF StaleOnlyByRace
        <3>2. Found(t, active) /\ UNCHANGED <<plans, active, return, from>>
            BY <1>5, <2>1, <3>1 DEF Look
        <3>3. \A u \in Threads \ {t} : req'[u] = req[u]
            BY <3>2 DEF Found, Goes
        <3> QED
            BY <1>2, <2>1, <3>1, <3>2, <3>3, FoundOK
    <2>2. CASE cache[proc[t]].rec = None
        <3>1. /\ Free(t) /\ UNCHANGED return
              /\ Goes(t, [req[t] EXCEPT !.at = "stamp", !.seen = active'])
              /\ \/ UNCHANGED <<plans, active, from>>
                 \/ active = None /\ SetActive(FirstPlan)
            BY <1>5, <2>2 DEF Look
        <3>2. /\ \A u \in Threads \ {t} : req'[u] = req[u]
              /\ req'[t].at = "stamp"
            BY <3>1 DEF Goes, Requests
        <3>3. ThreadOK(t)'
            BY <3>2 DEF ThreadOK
        <3>4. BackOK'
            BY <1>1, <3>1 DEF BackOK, SetActive
        <3> QED
            BY <1>4, <3>1, <3>2, <3>3, <3>4
    <2> QED
        BY <2>1, <2>2
<1>6. ASSUME NEW t \in Threads, Stamp(t)
      PROVE  BackOK' /\ \A u \in Threads : ThreadOK(u)'
    <2>1. /\ req[t].at = "stamp" /\ Found(t, req[t].seen)
          /\ UNCHANGED <<plans, active, return, from>>
        BY <1>6 DEF Stamp, db
    <2>2. req[t].seen = active /\ active \in Ids
        BY <1>1, <2>1 DEF SeenInv, ReqOK
    <2>3. active # None
        BY <2>2, NoneAssumption DEF Ids
    <2>4. \A u \in Threads \ {t} : req'[u] = req[u]
        BY <2>1 DEF Found, Goes
    <2> QED
        BY <1>2, <2>1, <2>2, <2>3, <2>4, FoundOK
<1>7. ASSUME NEW t \in Threads, Check(t)
      PROVE  BackOK' /\ \A u \in Threads : ThreadOK(u)'
    <2> DEFINE id == req[t].plan
               note == Notes(id, req[t].seen)
               r == [Idle EXCEPT !.at = IF note THEN "note" ELSE "set",
                                 !.plan = id,
                                 !.seen = IF note THEN req[t].seen ELSE None]
    <2>1. /\ UNCHANGED <<plans, active, return, from>>
          /\ req[t].at = "check"
          /\ Ends(t) \/ Goes(t, r)
        BY <1>7 DEF Check, db
    <2>2. req[t].seen = active /\ active # None
        BY <1>1, <2>1 DEF ThreadOK
    <2>3. CASE Ends(t)
        <3>1. Idle.at \notin Locked
            BY DEF Idle, Locked
        <3> QED
            BY <1>2, <1>3, <2>1, <2>3, <3>1 DEF Ends
    <2>4. CASE Goes(t, r)
        <3>1. req'[t] = r /\ \A u \in Threads \ {t} : req'[u] = req[u]
            BY <2>4 DEF Goes
        <3>2. /\ r.at = IF note THEN "note" ELSE "set"
              /\ r.plan = id
              /\ r.seen = IF note THEN req[t].seen ELSE None
            <4> HIDE DEF note, id
            <4> QED
                BY DEF Idle
        <3>3. note = (Kind(id) = "demo" /\ Kind(active) # "demo")
            BY <2>2 DEF Notes
        <3> HIDE DEF r, note, id
        <3>4. CASE note
            BY <1>2, <2>1, <2>2, <3>1, <3>2, <3>3, <3>4 DEF ThreadOK
        <3>5. CASE ~note
            BY <1>2, <2>1, <2>2, <3>1, <3>2, <3>3, <3>5 DEF ThreadOK
        <3> QED
            BY <3>4, <3>5
    <2> QED
        BY <2>1, <2>3, <2>4
<1>8. ASSUME NEW t \in Threads, NoteReturn(t)
      PROVE  BackOK' /\ \A u \in Threads : ThreadOK(u)'
    <2>1. /\ req[t].at = "note" /\ return' = req[t].seen
          /\ UNCHANGED <<plans, active, from>>
          /\ Goes(t, [req[t] EXCEPT !.at = "set", !.seen = None])
        BY <1>8 DEF NoteReturn
    <2>2. Free(t)
        BY <1>1, <2>1 DEF LockInv, Locked, Free
    <2>3. req[t].seen = active /\ from = None
        BY <1>1, <2>1 DEF ThreadOK, BackOK
    <2>4. req'[t].at = "set" /\ \A u \in Threads \ {t} : req'[u] = req[u]
        BY <2>1 DEF Goes, Requests
    <2>5. ThreadOK(t)' /\ BackOK'
        BY <2>1, <2>3, <2>4 DEF ThreadOK, BackOK
    <2> QED
        BY <1>4, <2>2, <2>4, <2>5
<1>9. ASSUME NEW t \in Threads, Activate(t)
      PROVE  BackOK' /\ \A u \in Threads : ThreadOK(u)'
    <2> DEFINE id == req[t].plan
    <2>1. /\ req[t].at = "set" /\ Ends(t) /\ UNCHANGED <<plans, return>>
          /\ (UNCHANGED <<active, from>> \/ (id \in plans /\ SetActive(id)))
        BY <1>9 DEF Activate
    <2>2. Free(t)
        BY <1>1, <2>1 DEF LockInv, Locked, Free
    <2>3. Idle.at \notin Locked
        BY DEF Idle, Locked
    <2>4. ThreadOK(t)' /\ \A u \in Threads \ {t} : req'[u] = req[u]
        BY <1>3, <2>1, <2>3 DEF Ends
    <2>5. BackOK'
        <3>1. CASE UNCHANGED <<active, from>>
            BY <1>1, <2>1, <3>1 DEF BackOK
        <3>2. CASE id \in plans /\ SetActive(id)
            <4>1. id \in Ids /\ id # None /\ Kind(id) \in {"user", "demo"}
                BY <3>2, NoneAssumption DEF Ids, Kind
            <4>2. CASE Kind(id) = "user"
                BY <3>2, <4>2 DEF BackOK, SetActive
            <4>3. CASE Kind(id) = "demo"
                <5>1. CASE active = None \/ Kind(active) = "demo"
                    BY <1>1, <2>1, <3>2, <4>1, <4>3, <5>1 DEF BackOK, SetActive
                <5>2. CASE active # None /\ Kind(active) # "demo"
                    <6>1. return = active /\ active \in plans
                        BY <1>1, <2>1, <4>3, <5>2 DEF ThreadOK, ActiveIsRegistered
                    <6>2. active' = id /\ from' = active
                        BY <3>2, <4>3, <5>2 DEF SetActive
                    <6> QED
                        BY <2>1, <4>1, <4>3, <6>1, <6>2 DEF BackOK
                <5> QED
                    BY <5>1, <5>2
            <4> QED
                BY <4>1, <4>2, <4>3
        <3> QED
            BY <2>1, <3>1, <3>2
    <2> QED
        BY <1>4, <2>2, <2>4, <2>5
<1>10. ASSUME NEW t \in Threads, RegisterPlanFile(t)
       PROVE  BackOK' /\ \A u \in Threads : ThreadOK(u)'
    <2>1. UNCHANGED <<active, return, from>> /\ plans \subseteq plans'
        BY <1>10 DEF RegisterPlanFile
    <2>2. req'[t].at \in {"idle", "look"} /\ \A u \in Threads \ {t} : req'[u] = req[u]
        BY <1>10 DEF RegisterPlanFile, Goes, ReqOK, Idle, Requests
    <2>3. ThreadOK(t)'
        BY <2>2 DEF ThreadOK
    <2> QED
        BY <1>2, <2>1, <2>2, <2>3
<1>11. ASSUME NEW t \in Threads, Target(t) \/ Dest(t)
       PROVE  BackOK' /\ \A u \in Threads : ThreadOK(u)'
    <2>1. UNCHANGED <<plans, active, return, from>>
        BY <1>11 DEF Target, Dest, db
    <2>2. Idle.at = "idle"
        BY DEF Idle
    <2>3. PICK r : Goes(t, r) /\ r.at \in {"idle", "look", "register"}
        <3>1. CASE Target(t)
            BY <2>2, <3>1, Starts DEF Target, Ends
        <3>2. CASE Dest(t)
            BY <2>2, <3>2, Starts DEF Dest, Ends
        <3> QED
            BY <1>11, <3>1, <3>2
    <2> QED
        BY <1>2, <1>3, <2>1, <2>3 DEF Locked
<1>12. ASSUME NEW t \in Threads, NEW id \in Ids, Forget(t, id)
       PROVE  BackOK' /\ \A u \in Threads : ThreadOK(u)'
    <2>1. /\ req[t].at = "idle" /\ Free(t) /\ UNCHANGED <<active, req>>
          /\ plans' = plans \ {id}
          /\ return' = IF return = id THEN None ELSE return
          /\ from' = IF from = id THEN None ELSE from
        BY <1>12 DEF Forget
    <2>2. BackOK'
        BY <1>1, <2>1 DEF BackOK
    <2>3. ThreadOK(t)'
        BY <2>1 DEF ThreadOK
    <2> QED
        BY <1>4, <2>1, <2>2, <2>3
<1>13. ASSUME NEW t \in Threads, Request(t)
       PROVE  BackOK' /\ \A u \in Threads : ThreadOK(u)'
    <2>1. ASSUME NEW r, Asks(t, r), r.at \in {"look", "register"}
          PROVE  BackOK' /\ \A u \in Threads : ThreadOK(u)'
        BY <1>2, <1>3, <2>1 DEF Asks, db, Locked
    <2> QED
        BY <1>12, <1>13, <2>1, RequestStep
<1>14. CASE OtherWrite \/ UNCHANGED vars
    BY <1>1, <1>14 DEF OtherWrite, vars, db, BackOK, ThreadOK
<1> QED
    BY <1>5, <1>6, <1>7, <1>8, <1>9, <1>10, <1>11, <1>13, <1>14 DEF Next, Step

(* While the demo is open, the way back leads to the plan that was left    *)
(* for it (activate, demo_return_plan_id).                                 *)
THEOREM DemoLeadsBack == Spec => []WayBack
<1>1. Init => TypeInv /\ CacheInv
    BY InitType, InitCache
<1>2. TypeInv /\ CacheInv /\ [Next]_vars => TypeInv' /\ CacheInv'
    BY NextType, CacheInvStep
<1>3. Init => WayInv
    BY DEF Init, WayInv, BackOK, ThreadOK, Idle
<1>4. TypeInv /\ CacheInv /\ ActiveIsRegistered /\ WayInv /\ [Next]_vars => WayInv'
    BY WayInvStep
<1>5. WayInv => WayBack
    BY DEF WayInv, WayBack, BackOK
<1> QED
    BY <1>1, <1>2, <1>3, <1>4, <1>5, ActiveRegistered, PTL DEF Spec
=============================================================================
