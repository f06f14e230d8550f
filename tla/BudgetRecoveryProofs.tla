-------------------------- MODULE BudgetRecoveryProofs --------------------------
(***************************************************************************)
(* Proofs about BudgetRecovery, for any keys, amounts, recovery seed and   *)
(* number of overlapping requests.                                         *)
(***************************************************************************)
EXTENDS BudgetRecovery, TLAPS

Values == Nat \cup {None}
Rows == [Keys -> Values]
Places == {"idle", "read", "current", "keep", "look", "take", "merge", "reread", "loaded"}
Work == [at : Places, op : Ops, rows : Rows, kept : {"none", "before", "after"},
         since : SUBSET {"save", "recovery"}]

TypeInv ==
    /\ budget \in Rows
    /\ copy \in {"none", "before", "after"}
    /\ work \in [Clients -> Work]
    /\ history \in [recovered : BOOLEAN, unkept : BOOLEAN]

-----------------------------------------------------------------------------
(* The merge fills the budget and is done after one time.                  *)

LEMMA MergeType == ASSUME NEW rows \in Rows PROVE Merge(rows) \in Rows
BY SeedAssumption DEF Merge, Rows, Values, Keys

LEMMA MergeTwice == ASSUME NEW rows PROVE Merge(Merge(rows)) = Merge(rows)
BY DEF Merge, Nonzero

LEMMA MergeKeeps ==
    ASSUME NEW rows, NEW k \in Keys, Nonzero(rows, k)
    PROVE  Merge(rows)[k] = rows[k]
BY DEF Merge, Nonzero

(* The seed has amounts for categories, so a merged budget does too. *)
LEMMA MergeFills == ASSUME NEW rows PROVE ~Zeroed(Merge(rows))
<1>1. PICK k \in Cats : Seed[k] \notin {0, None}
    BY SeedAssumption
<1>2. Merge(rows)[k] = IF ~Nonzero(rows, k) THEN Seed[k] ELSE rows[k]
    BY <1>1 DEF Merge, Nonzero, Keys
<1> QED
    BY <1>1, <1>2 DEF Zeroed, Nonzero

-----------------------------------------------------------------------------
(* Type correctness                                                        *)

LEMMA SeedInRows == Seed \in Rows /\ NoRows \in Rows
BY SeedAssumption DEF Rows, Values, NoRows, Keys

LEMMA PayloadsInRows == \A S : Payloads(S) \subseteq Rows
<1> SUFFICES ASSUME NEW S, NEW p \in [S -> Amounts \cup {None}]
             PROVE  [k \in Keys |-> IF k \in S THEN p[k] ELSE None] \in Rows
    BY DEF Payloads
<1> QED
    BY AmountAssumption DEF Rows, Values

LEMMA SavedInRows ==
    ASSUME NEW w \in Work, w.op \in {"cats", "lines", "add"}
    PROVE  Saved(w) \subseteq Rows
<1>1. w.rows \in Rows
    BY DEF Work
<1>2. ASSUME NEW sent \in Rows PROVE ByCategory(sent, w.rows) \in Rows
    BY <1>1 DEF ByCategory, Rows
<1>3. ASSUME NEW sent \in Rows PROVE Replacing(sent, w.rows) \in Rows
    BY <1>1 DEF Replacing, Rows
<1>4. ASSUME NEW k PROVE Added(k, w.rows) \in Rows
    BY <1>1 DEF Added, Rows, Values
<1>5. {ByCategory(sent, w.rows) : sent \in Payloads(Cats)} \subseteq Rows
    BY <1>2, PayloadsInRows
<1>6. {Replacing(sent, w.rows) : sent \in Payloads(Lines)} \subseteq Rows
    BY <1>3, PayloadsInRows
<1>7. {Added(k, w.rows) : k \in Cats} \subseteq Rows
    BY <1>4
<1> QED
    BY <1>5, <1>6, <1>7 DEF Saved

LEMMA IdleInWork == Idle \in Work
BY SeedInRows DEF Idle, Work, Places, Ops

LEMMA UnseenType ==
    ASSUME work \in [Clients -> Work], NEW c \in Clients, NEW kind \in {"save", "recovery"}
    PROVE  Unseen(c, kind) \in [Clients -> Work]
BY DEF Unseen, Work

LEMMA InitType == Init => TypeInv
<1> SUFFICES ASSUME Init PROVE TypeInv
    OBVIOUS
<1>1. budget \in Rows
    BY AmountAssumption, SeedAssumption DEF Init, Budgets, Rows, Values, Keys
<1> QED
    BY <1>1, IdleInWork DEF Init, TypeInv

LEMMA NextType == TypeInv /\ [Next]_vars => TypeInv'
<1> SUFFICES ASSUME TypeInv, [Next]_vars PROVE TypeInv'
    OBVIOUS
<1> USE DEF TypeInv
<1>b. ASSUME NEW c \in Clients, NEW at \in Places, Goes(c, at)
      PROVE  work' \in [Clients -> Work]
    BY <1>b DEF Goes, Work
<1>c. ASSUME NEW c \in Clients, NEW at \in Places, NEW rows \in Rows, GoesWith(c, at, rows)
      PROVE  work' \in [Clients -> Work]
    <2>1. [work[c] EXCEPT !.at = at, !.rows = rows] \in Work
        BY DEF Work
    <2>2. work' = [work EXCEPT ![c] = [work[c] EXCEPT !.at = at, !.rows = rows]]
        BY <1>c DEF GoesWith
    <2> QED
        BY <2>1, <2>2
<1>d. ASSUME NEW c \in Clients, Kept(c) PROVE work' \in [Clients -> Work]
    <2>1. [work[c] EXCEPT !.at = "merge", !.kept = "none"] \in Work
        BY DEF Work, Places
    <2>2. work' = [work EXCEPT ![c] = [work[c] EXCEPT !.at = "merge", !.kept = "none"]]
        BY <1>d DEF Kept
    <2> QED
        BY <2>1, <2>2
<1>1. ASSUME NEW c \in Clients, NEW op \in Ops, NEW at \in Places, Ask(c, op, at)
      PROVE  TypeInv'
    <2>1. [Idle EXCEPT !.op = op, !.at = at] \in Work
        BY IdleInWork DEF Work
    <2> QED
        BY <1>1, <2>1 DEF Ask
<1>2. ASSUME NEW c \in Clients,
             \/ Load(c) \/ Recover(c) \/ SaveByCategory(c) \/ SaveLines(c) \/ RestoreCategory(c)
      PROVE  TypeInv'
    BY <1>2, <1>1 DEF Load, Recover, SaveByCategory, SaveLines, RestoreCategory, Places, Ops
<1>4. ASSUME NEW c \in Clients, SaveUnified(c) PROVE TypeInv'
    BY <1>4, PayloadsInRows, UnseenType DEF SaveUnified
<1>5. ASSUME NEW c \in Clients, Read(c) PROVE TypeInv'
    BY <1>5, <1>c DEF Read, Places
<1>6. ASSUME NEW c \in Clients, ReadCurrent(c) PROVE TypeInv'
    <2>1. CASE work' = [work EXCEPT ![c] = IF @.op = "recover" THEN Idle
                                           ELSE [@ EXCEPT !.at = "loaded"]]
        <3>1. [work[c] EXCEPT !.at = "loaded"] \in Work
            BY DEF Work, Places
        <3> QED
            BY <2>1, <3>1, <1>6, IdleInWork DEF ReadCurrent
    <2>2. CASE work' = [work EXCEPT ![c].at = "keep", ![c].rows = budget, ![c].since = {}]
        BY <2>2, <1>6 DEF ReadCurrent, Work, Places
    <2> QED
        BY <1>6, <2>1, <2>2 DEF ReadCurrent
<1>7. ASSUME NEW c \in Clients, KeepRead(c) PROVE TypeInv'
    <2> DEFINE kept == IF history.recovered THEN "after" ELSE "before"
    <2>1. CASE work' = [work EXCEPT ![c].at = "look", ![c].kept = kept]
        <3>1. kept \in {"none", "before", "after"} /\ "look" \in Places
            BY DEF Places
        <3> HIDE DEF kept
        <3>2. work' \in [Clients -> Work]
            BY <2>1, <3>1 DEF Work
        <3> QED
            BY <1>7, <3>2 DEF KeepRead
    <2>2. CASE Goes(c, "merge")
        BY <1>7, <2>2, <1>b DEF KeepRead, Places
    <2> QED
        BY <1>7, <2>1, <2>2 DEF KeepRead
<1>8. ASSUME NEW c \in Clients, KeepLook(c) \/ KeepFails(c) PROVE TypeInv'
    BY <1>8, <1>b, <1>d DEF KeepLook, KeepFails, Places
<1>9. ASSUME NEW c \in Clients, KeepTake(c) PROVE TypeInv'
    BY <1>9, <1>d DEF KeepTake, Work
<1>10. ASSUME NEW c \in Clients, WriteMerged(c) PROVE TypeInv'
    <2> DEFINE seen == Unseen(c, "recovery")
               back == [seen[c] EXCEPT !.at = "reread", !.rows = NoRows, !.since = {}]
    <2>1. seen \in [Clients -> Work]
        BY UnseenType
    <2>2. back \in Work
        BY <2>1, SeedInRows DEF Work, Places
    <2>3. work' = [seen EXCEPT ![c] = IF seen[c].op = "recover" THEN Idle ELSE back]
        BY <1>10 DEF WriteMerged
    <2>4. Merge(work[c].rows) \in Rows
        BY MergeType DEF Work
    <2> HIDE DEF seen, back
    <2>5. work' \in [Clients -> Work]
        BY <2>1, <2>2, <2>3, IdleInWork
    <2> QED
        BY <1>10, <2>4, <2>5 DEF WriteMerged
<1>11. ASSUME NEW c \in Clients, Reread(c) PROVE TypeInv'
    BY <1>11, <1>c DEF Reread, Places
<1>12. ASSUME NEW c \in Clients, WriteSaved(c) PROVE TypeInv'
    BY <1>12, UnseenType, IdleInWork, SavedInRows DEF WriteSaved, Saving
<1>13. ASSUME NEW c \in Clients, Answer(c) PROVE TypeInv'
    BY <1>13, IdleInWork DEF Answer
<1>14. CASE UNCHANGED vars
    BY <1>14 DEF vars
<1> QED
    BY <1>2, <1>4, <1>5, <1>6, <1>7, <1>8, <1>9, <1>10, <1>11, <1>12,
       <1>13, <1>14 DEF Next, Request, Step

THEOREM Typed == Spec => []TypeInv
<1>1. Init => TypeInv
    BY InitType
<1>2. TypeInv /\ [Next]_vars => TypeInv'
    BY NextType
<1> QED
    BY <1>1, <1>2, PTL DEF Spec
-----------------------------------------------------------------------------
(* The pre-recovery copy                                                   *)

(* A copy that is being taken is of rows read after a recovery only if one *)
(* was written; and with no copy there, that one was written without.      *)
KeepInv ==
    /\ \A c \in Clients :
        /\ work[c].at \in {"look", "take"} => work[c].kept # "none"
        /\ work[c].at = "look" /\ work[c].kept = "after" => history.recovered
        /\ work[c].at = "take" /\ work[c].kept = "after" => history.unkept
    /\ history.recovered /\ copy = "none" => history.unkept
    /\ CopyIsOfBefore

LEMMA KeepStep == TypeInv /\ KeepInv /\ [Next]_vars => KeepInv'
<1> SUFFICES ASSUME TypeInv, KeepInv, [Next]_vars PROVE KeepInv'
    OBVIOUS
<1> USE DEF TypeInv, KeepInv, CopyIsOfBefore, Work, Goes, GoesWith
<1>a. ASSUME NEW c \in Clients, NEW kind
      PROVE  \A d \in Clients : /\ Unseen(c, kind)[d].at = work[d].at
                                /\ Unseen(c, kind)[d].kept = work[d].kept
    BY DEF Unseen
<1>1. ASSUME NEW c \in Clients, Request(c) PROVE KeepInv'
    <2>1. UNCHANGED <<copy, history>>
        BY <1>1 DEF Request, Load, Recover, SaveByCategory, SaveLines, RestoreCategory,
                    SaveUnified, Ask
    <2>2. \A d \in Clients : \/ work'[d].at = work[d].at /\ work'[d].kept = work[d].kept
                            \/ work'[d].at \in {"read", "current"}
        <3>1. ASSUME NEW op, NEW at \in {"read", "current"}, Ask(c, op, at)
              PROVE  \A d \in Clients : work'[d] = work[d] \/ work'[d].at = at
            BY <3>1 DEF Ask, Idle
        <3>2. CASE SaveUnified(c)
            BY <3>2, <1>a DEF SaveUnified
        <3> QED
            BY <1>1, <3>1, <3>2 DEF Request, Load, Recover, SaveByCategory, SaveLines,
                                    RestoreCategory
    <2> QED
        BY <2>1, <2>2
<1>2. ASSUME NEW c \in Clients, Read(c) \/ ReadCurrent(c) \/ Reread(c) \/ Answer(c)
      PROVE  KeepInv'
    <2>1. UNCHANGED <<copy, history>>
        BY <1>2 DEF Read, ReadCurrent, Reread, Answer
    <2>2. \A d \in Clients : work'[d] = work[d] \/ work'[d].at \notin {"look", "take"}
        BY <1>2 DEF Read, ReadCurrent, Reread, Answer, Idle
    <2> QED
        BY <2>1, <2>2
<1>3. ASSUME NEW c \in Clients, KeepRead(c) PROVE KeepInv'
    <2>1. UNCHANGED <<copy, history>>
        BY <1>3 DEF KeepRead
    <2>2. /\ \A d \in Clients \ {c} : work'[d] = work[d]
          /\ \/ work'[c].at = "merge"
             \/ /\ work'[c].at = "look" /\ work'[c].kept # "none"
                /\ work'[c].kept = "after" => history.recovered
        BY <1>3 DEF KeepRead
    <2> QED
        BY <2>1, <2>2
<1>4. ASSUME NEW c \in Clients, KeepLook(c) PROVE KeepInv'
    <2>1. UNCHANGED <<copy, history>>
        BY <1>4 DEF KeepLook
    <2>2. /\ \A d \in Clients \ {c} : work'[d] = work[d]
          /\ \/ work'[c].at = "merge"
             \/ /\ work'[c].at = "take" /\ work'[c].kept = work[c].kept
                /\ copy = "none" /\ work[c].at = "look"
        BY <1>4 DEF KeepLook, Kept
    <2> QED
        BY <2>1, <2>2
<1>5. ASSUME NEW c \in Clients, KeepTake(c) PROVE KeepInv'
    <2>1. /\ \A d \in Clients \ {c} : work'[d] = work[d]
          /\ work'[c].at = "merge"
          /\ copy' = work[c].kept /\ work[c].at = "take" /\ UNCHANGED history
        BY <1>5 DEF KeepTake, Kept
    <2> QED
        BY <2>1
<1>6. ASSUME NEW c \in Clients, KeepFails(c) PROVE KeepInv'
    BY <1>6 DEF KeepFails, Kept
<1>7. ASSUME NEW c \in Clients, WriteMerged(c) PROVE KeepInv'
    <2>1. /\ history'.recovered /\ history'.unkept = (history.unkept \/ copy = "none")
          /\ copy' = copy
        BY <1>7 DEF WriteMerged
    <2> DEFINE seen == Unseen(c, "recovery")
    <2>2. seen = [d \in Clients |-> seen[d]]
        BY DEF Unseen
    <2>3. work' = [seen EXCEPT
                    ![c] = IF seen[c].op = "recover" THEN Idle
                           ELSE [seen[c] EXCEPT !.at = "reread", !.rows = NoRows, !.since = {}]]
        BY <1>7 DEF WriteMerged
    <2>4. seen[c] \in Work
        BY UnseenType
    <2>5. \A d \in Clients : seen[d].at = work[d].at /\ seen[d].kept = work[d].kept
        BY <1>a
    <2> HIDE DEF seen
    <2>6. work'[c].at \in {"idle", "reread"}
        BY <2>2, <2>3, <2>4 DEF Idle
    <2>7. \A d \in Clients \ {c} : work'[d].at = work[d].at /\ work'[d].kept = work[d].kept
        BY <2>2, <2>3, <2>5
    <2> QED
        BY <2>1, <2>6, <2>7
<1>8. ASSUME NEW c \in Clients, WriteSaved(c) PROVE KeepInv'
    <2>1. /\ UNCHANGED <<copy, history>>
          /\ work' = [Unseen(c, "save") EXCEPT ![c] = Idle]
        BY <1>8 DEF WriteSaved
    <2>2. \A d \in Clients : \/ work'[d].at = work[d].at /\ work'[d].kept = work[d].kept
                            \/ work'[d].at = "idle"
        BY <2>1, <1>a DEF Idle, Unseen
    <2> QED
        BY <2>1, <2>2
<1>9. CASE UNCHANGED vars
    BY <1>9 DEF vars
<1> QED
    BY <1>1, <1>2, <1>3, <1>4, <1>5, <1>6, <1>7, <1>8, <1>9 DEF Next, Step

(* The pre-recovery copy is of the budget before any recovery, however     *)
(* many loads, recoveries and saves overlap (keep_pre_recovery_copy).      *)
THEOREM CopyBefore == Spec => []CopyIsOfBefore
<1>1. Init => KeepInv
    BY DEF Init, KeepInv, CopyIsOfBefore, Idle
<1>2. TypeInv /\ KeepInv /\ [Next]_vars => KeepInv'
    BY KeepStep
<1>3. KeepInv => CopyIsOfBefore
    BY DEF KeepInv
<1> QED
    BY <1>1, <1>2, <1>3, Typed, PTL DEF Spec

-----------------------------------------------------------------------------
(* Overlapping recoveries and saves                                        *)

(* Whoever is about to write a merge, and has seen every save, read the    *)
(* budget as it is, or as it was before a merge of the same rows.          *)
Recovering(c) == work[c].at \in {"keep", "look", "take", "merge"}
Fresh(c) ==
    Recovering(c) => /\ Merge(work[c].rows) # work[c].rows
                     /\ \/ "save" \in work[c].since
                        \/ budget = work[c].rows \/ budget = Merge(work[c].rows)

(* A load whose table nobody else wrote finds it zeroed when it starts to  *)
(* recover, and filled when it reads it again.                             *)
Undisturbed(c) ==
    work[c].since = {} =>
        /\ work[c].at = "current" /\ work[c].op # "recover" =>
               budget = work[c].rows /\ Zeroed(work[c].rows)
        /\ work[c].at = "reread" => ~Zeroed(budget)
RaceInv == (\A c \in Clients : Fresh(c) /\ Undisturbed(c)) /\ ZeroedOnlyByRace

(* A request that does not write changes only its own state. *)
LEMMA QuietStep ==
    ASSUME TypeInv, RaceInv, UNCHANGED budget, NEW c \in Clients,
           \A d \in Clients \ {c} : work'[d] = work[d],
           Fresh(c)' /\ Undisturbed(c)' /\ (ShowsZeroed(c) => work[c].since # {})'
    PROVE  RaceInv'
<1>1. \A d \in Clients \ {c} : Fresh(d)' /\ Undisturbed(d)'
    BY DEF RaceInv, Fresh, Undisturbed, Recovering
<1>2. \A d \in Clients \ {c} : (ShowsZeroed(d) => work[d].since # {})'
    BY DEF RaceInv, ZeroedOnlyByRace, ShowsZeroed
<1> QED
    BY <1>1, <1>2 DEF RaceInv, ZeroedOnlyByRace

LEMMA UnseenSees ==
    ASSUME work \in [Clients -> Work], NEW c \in Clients, NEW d \in Clients \ {c}, NEW kind,
           work[d].at \in Relying
    PROVE  LET w == Unseen(c, kind)[d]
           IN  /\ w.at = work[d].at /\ w.rows = work[d].rows
               /\ w.since = work[d].since \cup {kind} \cup work[c].since
<1>1. Unseen(c, kind)[d] = [work[d] EXCEPT !.since = @ \cup {kind} \cup work[c].since]
    BY DEF Unseen
<1>2. work[d] \in Work
    OBVIOUS
<1> QED
    BY <1>1, <1>2 DEF Work

(* A save: everyone who relies on older rows has not seen it. *)
LEMMA SaveStep ==
    ASSUME TypeInv, RaceInv, NEW c \in Clients, work'[c] = Idle,
           \A d \in Clients \ {c} : work'[d] = Unseen(c, "save")[d]
    PROVE  RaceInv'
<1>1. ASSUME NEW d \in Clients \ {c}
      PROVE  Fresh(d)' /\ Undisturbed(d)' /\ (ShowsZeroed(d) => work[d].since # {})'
    <2>1. CASE work[d].at \in Relying
        <3>1. /\ work'[d].at = work[d].at /\ work'[d].rows = work[d].rows
              /\ "save" \in work'[d].since
            BY <2>1, UnseenSees DEF TypeInv
        <3> QED
            BY <2>1, <3>1 DEF RaceInv, Fresh, Undisturbed, ShowsZeroed, Recovering, Relying
    <2>2. CASE work[d].at \notin Relying
        <3>1. work'[d] = work[d]
            BY <2>2 DEF Unseen
        <3> QED
            BY <2>2, <3>1 DEF RaceInv, Fresh, Undisturbed, ShowsZeroed, Recovering, Relying,
                              ZeroedOnlyByRace
    <2> QED
        BY <2>1, <2>2
<1>2. Fresh(c)' /\ Undisturbed(c)' /\ (ShowsZeroed(c) => work[c].since # {})'
    BY DEF Fresh, Undisturbed, ShowsZeroed, Recovering, Idle
<1> QED
    BY <1>1, <1>2 DEF RaceInv, ZeroedOnlyByRace

(* A recovery writes its merge: whoever recovers the same rows finds their *)
(* merge, the others have not seen the save this one has not seen.         *)
LEMMA RecoveryStep ==
    ASSUME TypeInv, RaceInv, NEW c \in Clients, WriteMerged(c)
    PROVE  RaceInv'
<1> DEFINE seen == Unseen(c, "recovery")
           back == IF seen[c].op = "recover" THEN Idle
                   ELSE [seen[c] EXCEPT !.at = "reread", !.rows = NoRows, !.since = {}]
<1>1. work' = [seen EXCEPT ![c] = back] /\ budget' = Merge(work[c].rows)
    BY DEF WriteMerged
<1>2. seen \in [Clients -> Work]
    BY UnseenType DEF TypeInv
<1>3. back.at \in {"idle", "reread"}
    BY <1>2 DEF Idle, Work
<1>4. \A d \in Clients \ {c} : work'[d] = seen[d]
    BY <1>1, <1>2
<1>5. work'[c].at \in {"idle", "reread"}
    <2> HIDE DEF seen, back
    <2> QED
        BY <1>1, <1>2, <1>3
<1>6. ASSUME NEW d \in Clients \ {c}
      PROVE  Fresh(d)' /\ Undisturbed(d)' /\ (ShowsZeroed(d) => work[d].since # {})'
    <2>1. CASE work[d].at \in Relying
        <3>1. /\ work'[d].at = work[d].at /\ work'[d].rows = work[d].rows
              /\ work'[d].since = work[d].since \cup {"recovery"} \cup work[c].since
            BY <2>1, <1>4, UnseenSees DEF TypeInv
        <3>2. Undisturbed(d)' /\ (ShowsZeroed(d) => work[d].since # {})'
            BY <3>1 DEF Undisturbed, ShowsZeroed
        <3>3. ASSUME Recovering(d), "save" \notin work'[d].since
              PROVE  budget' = work[d].rows \/ budget' = Merge(work[d].rows)
            <4>1. /\ Merge(work[d].rows) # work[d].rows
                  /\ budget = work[d].rows \/ budget = Merge(work[d].rows)
                BY <3>1, <3>3 DEF RaceInv, Fresh
            <4>2. /\ Merge(work[c].rows) # work[c].rows
                  /\ budget = work[c].rows \/ budget = Merge(work[c].rows)
                BY <3>1, <3>3 DEF RaceInv, Fresh, Recovering, WriteMerged
            <4> QED
                BY <1>1, <4>1, <4>2, MergeTwice
        <3> QED
            BY <3>1, <3>2, <3>3 DEF RaceInv, Fresh, Recovering
    <2>2. CASE work[d].at \notin Relying
        <3>1. work'[d] = work[d]
            BY <2>2, <1>4 DEF Unseen
        <3> QED
            BY <2>2, <3>1 DEF RaceInv, Fresh, Undisturbed, ShowsZeroed, Recovering, Relying,
                              ZeroedOnlyByRace
    <2> QED
        BY <2>1, <2>2
<1>7. Fresh(c)' /\ Undisturbed(c)' /\ (ShowsZeroed(c) => work[c].since # {})'
    BY <1>1, <1>5, MergeFills DEF Fresh, Undisturbed, ShowsZeroed, Recovering
<1> QED
    BY <1>6, <1>7 DEF RaceInv, ZeroedOnlyByRace

LEMMA RaceStep == TypeInv /\ RaceInv /\ [Next]_vars => RaceInv'
<1> SUFFICES ASSUME TypeInv, RaceInv, [Next]_vars PROVE RaceInv'
    OBVIOUS
<1> DEFINE Mine(c) == Fresh(c) /\ Undisturbed(c) /\ (ShowsZeroed(c) => work[c].since # {})
<1>a. \A c \in Clients : Mine(c)
    BY DEF RaceInv, ZeroedOnlyByRace
<1>1. ASSUME NEW c \in Clients, NEW op, NEW at, Ask(c, op, at),
             at = "read" \/ (at = "current" /\ op = "recover")
      PROVE  RaceInv'
    <2>1. UNCHANGED budget /\ \A d \in Clients \ {c} : work'[d] = work[d]
        BY <1>1 DEF Ask
    <2>2. work'[c].at = at /\ work'[c].op = op
        BY <1>1 DEF Ask, Idle, TypeInv
    <2>3. Mine(c)'
        BY <1>1, <2>2 DEF Fresh, Undisturbed, ShowsZeroed, Recovering
    <2> QED
        BY <2>1, <2>3, QuietStep
<1>2. ASSUME NEW c \in Clients, SaveUnified(c) \/ WriteSaved(c) PROVE RaceInv'
    <2>1. work[c].at \notin Relying
        BY <1>2 DEF SaveUnified, WriteSaved, Idle, Relying
    <2>2. work'[c] = Idle
        BY <1>2, <2>1 DEF SaveUnified, WriteSaved, Unseen
    <2>3. \A d \in Clients \ {c} : work'[d] = Unseen(c, "save")[d]
        <3>1. CASE SaveUnified(c)
            BY <3>1 DEF SaveUnified
        <3>2. CASE WriteSaved(c)
            BY <3>2 DEF WriteSaved, Unseen
        <3> QED
            BY <1>2, <3>1, <3>2
    <2> QED
        BY <2>2, <2>3, SaveStep
<1>3. ASSUME NEW c \in Clients, Request(c) PROVE RaceInv'
    BY <1>1, <1>2, <1>3 DEF Request, Load, Recover, SaveByCategory, SaveLines, RestoreCategory
<1>4. ASSUME NEW c \in Clients, Read(c) PROVE RaceInv'
    <2>1. UNCHANGED budget /\ \A d \in Clients \ {c} : work'[d] = work[d]
        BY <1>4 DEF Read, GoesWith, TypeInv
    <2>2. /\ work'[c].at = IF Zeroed(budget) THEN "current" ELSE "loaded"
          /\ work'[c].rows = budget
        BY <1>4 DEF Read, GoesWith, NeedsRecovery, TypeInv, Work
    <2>3. Mine(c)'
        BY <2>1, <2>2 DEF Fresh, Undisturbed, ShowsZeroed, Recovering
    <2> QED
        BY <2>1, <2>3, QuietStep
<1>5. ASSUME NEW c \in Clients, ReadCurrent(c) PROVE RaceInv'
    <2>1. UNCHANGED budget /\ \A d \in Clients \ {c} : work'[d] = work[d]
        BY <1>5 DEF ReadCurrent, TypeInv
    <2>2. CASE Merge(budget) = budget
        <3>1. \/ work'[c] = Idle
              \/ /\ work'[c].at = "loaded" /\ work'[c].rows = work[c].rows
                 /\ work'[c].since = work[c].since /\ work[c].op # "recover"
            BY <1>5, <2>2 DEF ReadCurrent, TypeInv, Work
        <3>2. ~Zeroed(budget)
            BY <2>2, MergeFills
        <3>3. (ShowsZeroed(c) => work[c].since # {})'
            BY <3>1, <3>2, <1>a, <1>5 DEF ShowsZeroed, Undisturbed, ReadCurrent, Idle
        <3> QED
            BY <2>1, <3>1, <3>3, QuietStep DEF Fresh, Undisturbed, Recovering, Idle
    <2>3. CASE Merge(budget) # budget
        <3>1. work'[c].at = "keep" /\ work'[c].rows = budget
            BY <1>5, <2>3 DEF ReadCurrent, TypeInv, Work
        <3> QED
            BY <2>1, <2>3, <3>1, QuietStep DEF Fresh, Undisturbed, ShowsZeroed, Recovering
    <2> QED
        BY <2>2, <2>3
<1>6. ASSUME NEW c \in Clients, KeepRead(c) \/ KeepLook(c) \/ KeepTake(c) \/ KeepFails(c)
      PROVE  RaceInv'
    <2>1. UNCHANGED budget /\ \A d \in Clients \ {c} : work'[d] = work[d]
        BY <1>6 DEF KeepRead, KeepLook, KeepTake, KeepFails, Kept, Goes, TypeInv
    <2>2. /\ Recovering(c) /\ work'[c].at \in {"look", "take", "merge"}
          /\ work'[c].rows = work[c].rows /\ work'[c].since = work[c].since
        BY <1>6 DEF KeepRead, KeepLook, KeepTake, KeepFails, Kept, Goes, Recovering, TypeInv, Work
    <2>3. Mine(c)'
        BY <1>a, <2>1, <2>2 DEF Fresh, Undisturbed, ShowsZeroed, Recovering
    <2> QED
        BY <2>1, <2>3, QuietStep
<1>7. ASSUME NEW c \in Clients, WriteMerged(c) PROVE RaceInv'
    BY <1>7, RecoveryStep
<1>8. ASSUME NEW c \in Clients, Reread(c) PROVE RaceInv'
    <2>1. UNCHANGED budget /\ \A d \in Clients \ {c} : work'[d] = work[d]
        BY <1>8 DEF Reread, GoesWith, TypeInv
    <2>2. /\ work[c].at = "reread" /\ work'[c].at = "loaded" /\ work'[c].rows = budget
          /\ work'[c].since = work[c].since
        BY <1>8 DEF Reread, GoesWith, TypeInv, Work
    <2>3. Mine(c)'
        BY <1>a, <2>2 DEF Fresh, Undisturbed, ShowsZeroed, Recovering
    <2> QED
        BY <2>1, <2>3, QuietStep
<1>9. ASSUME NEW c \in Clients, Answer(c) PROVE RaceInv'
    <2>1. UNCHANGED budget /\ \A d \in Clients \ {c} : work'[d] = work[d]
        BY <1>9 DEF Answer
    <2>2. work'[c].at = "idle"
        BY <1>9 DEF Answer, TypeInv, Idle
    <2>3. Mine(c)'
        BY <2>2 DEF Fresh, Undisturbed, ShowsZeroed, Recovering
    <2> QED
        BY <2>1, <2>3, QuietStep
<1>10. CASE UNCHANGED vars
    BY <1>10 DEF vars, RaceInv, Fresh, Undisturbed, ZeroedOnlyByRace, ShowsZeroed, Recovering
<1> QED
    BY <1>2, <1>3, <1>4, <1>5, <1>6, <1>7, <1>8, <1>9, <1>10 DEF Next, Step

LEMMA InitRace == Init => RaceInv
BY DEF Init, RaceInv, Fresh, Undisturbed, Recovering, ZeroedOnlyByRace, ShowsZeroed, Idle

(* A zeroed budget is shown only when another request wrote the table      *)
(* between two transactions of the load (load_unified_budget).             *)
THEOREM ZeroedByRace == Spec => []ZeroedOnlyByRace
<1>1. Init => RaceInv
    BY InitRace
<1>2. TypeInv /\ RaceInv /\ [Next]_vars => RaceInv'
    BY RaceStep
<1>3. RaceInv => ZeroedOnlyByRace
    BY DEF RaceInv
<1> QED
    BY <1>1, <1>2, <1>3, Typed, PTL DEF Spec

(* A recovery overwrites an amount only when a save came after the table   *)
(* was read to be filled, by it or by a recovery it overlaps: recoveries   *)
(* by themselves lose nothing (recover_spending_budget_from_seed).         *)
THEOREM OverwritesUnseen == Spec => OverwritesOnlyUnseenSaves
<1> DEFINE Only == \A c \in Clients : WriteMerged(c) /\ Overwrites => "save" \in work[c].since
<1>1. Init => RaceInv
    BY InitRace
<1>2. TypeInv /\ RaceInv /\ [Next]_vars => RaceInv'
    BY RaceStep
<1>3. RaceInv => Only
    <2> SUFFICES ASSUME RaceInv, NEW c \in Clients, WriteMerged(c), "save" \notin work[c].since,
                        NEW k \in Keys, Nonzero(budget, k)
                 PROVE  budget'[k] = budget[k]
        BY DEF Overwrites
    <2>1. budget' = Merge(work[c].rows)
        BY DEF WriteMerged
    <2>2. budget = work[c].rows \/ budget = Merge(work[c].rows)
        BY DEF RaceInv, Fresh, Recovering, WriteMerged
    <2> QED
        BY <2>1, <2>2, MergeKeeps
<1>4. TypeInv /\ RaceInv => [Only]_vars
    BY <1>3
<1> QED
    BY <1>1, <1>2, <1>4, Typed, PTL DEF Spec, OverwritesOnlyUnseenSaves
=============================================================================
