-------------------------- MODULE TaskStoreProofs --------------------------
(* Theorems about TaskStore, for any agents, any number of ids, any set of  *)
(* calls and any number of crashes: its invariants, and that it implements  *)
(* TaskBoard.                                                               *)
EXTENDS TaskStore, Lemmas

-----------------------------------------------------------------------------
(* Type correctness. *)

LEMMA AbsentType == Absent \in Task
  BY DEF Absent, Task, Status

\* A torn file says nothing.
LEMMA TornType ==
  /\ TornFile \in Task
  /\ TornFile.status = "torn" /\ TornFile.owner = NoOwner
  /\ TornFile.blocks = {} /\ TornFile.blockedBy = {} /\ TornFile.parent = NoTask
  BY DEF TornFile, Absent, Task, Status

\* Writing fields of a task file leaves a task file.
LEMMA FieldTypes ==
  ASSUME NEW r \in Task, NEW o \in Agents \union {NoOwner}, NEW s \in Status \union {"absent", "torn"},
         NEW b \in SUBSET Ids, NEW w \in SUBSET Ids, NEW p \in Ids \union {NoTask}
  PROVE  /\ [r EXCEPT !.owner = o] \in Task
         /\ [r EXCEPT !.parent = p] \in Task
         /\ [r EXCEPT !.status = s] \in Task
         /\ [r EXCEPT !.status = s, !.owner = o] \in Task
         /\ [r EXCEPT !.owner = o, !.status = s] \in Task
         /\ [r EXCEPT !.blockedBy = w] \in Task
         /\ [r EXCEPT !.blocks = b, !.blockedBy = w] \in Task
  BY DEF Task

LEMMA LinkedType ==
  ASSUME NEW f \in [Ids -> Task], NEW t \in Ids, NEW c \in Call
  PROVE  Linked(f, t, c) \in [Ids -> Task]
<1> SUFFICES ASSUME NEW i \in Ids PROVE Linked(f, t, c)[i] \in Task
  BY DEF Linked
<1> DEFINE b == f[i].blocks \union (IF i = t THEN c.addBlocks
                                    ELSE IF i \in c.addBlockedBy THEN {t} ELSE {})
           w == f[i].blockedBy \union (IF i = t THEN c.addBlockedBy
                                       ELSE IF i \in c.addBlocks THEN {t} ELSE {})
<1>1. f[i] \in Task /\ c.addBlocks \subseteq Ids /\ c.addBlockedBy \subseteq Ids
  BY DEF Call
<1>2. b \in SUBSET Ids /\ w \in SUBSET Ids
  BY <1>1 DEF Task
<1>3. Linked(f, t, c)[i] = [f[i] EXCEPT !.blocks = b, !.blockedBy = w]
  BY DEF Linked
<1> QED
  BY <1>1, <1>2, <1>3 DEF Task

LEMMA EditedType ==
  ASSUME NEW f \in [Ids -> Task], NEW t \in Ids, NEW c \in Call
  PROVE  Edited(f, t, c) \in [Ids -> Task]
<1> DEFINE o == IF c.owner = Keep THEN f[t].owner ELSE c.owner
           p == IF c.parent = NoTask THEN f[t].parent ELSE c.parent
           s == IF c.status \in Status THEN c.status ELSE f[t].status
<1>1. /\ f[t] \in Task
      /\ o \in Agents \union {NoOwner}
      /\ p \in Ids \union {NoTask}
      /\ s \in Status \union {"absent", "torn"}
  BY DEF Call, Task
<1>2. Edited(f, t, c) =
        [f EXCEPT ![t] = [f[t] EXCEPT !.owner = o, !.parent = p, !.status = s]]
  BY DEF Edited
<1>3. [f[t] EXCEPT !.owner = o, !.parent = p, !.status = s] \in Task
  BY <1>1 DEF Task
<1> QED
  BY <1>2, <1>3

\* Phase 3 of update_task builds task files again.
LEMMA AfterType ==
  ASSUME NEW f \in [Ids -> Task], NEW t \in Ids, NEW c \in Call
  PROVE  After(f, t, c) \in [Ids -> Task]
<1> DEFINE E == Edited(Linked(f, t, c), t, c)
<1>1. E \in [Ids -> Task]
  BY LinkedType, EditedType
<1> HIDE DEF E
<1>2. Unblocked(E, t) \in [Ids -> Task]
  BY <1>1 DEF Unblocked, Task
<1>3. Erased(E, t) \in [Ids -> Task]
  BY <1>1, AbsentType DEF Erased, Task
<1> QED
  BY <1>1, <1>2, <1>3 DEF After, E

\* What reset_owner_tasks makes of each file.
LEMMA GivenBackFields ==
  ASSUME NEW f \in [Ids -> Task], NEW S, NEW g, g = GivenBack(f, S)
  PROVE  /\ g \in [Ids -> Task]
         /\ \A i \in Ids \ S : g[i] = f[i]
         /\ \A i \in Ids :
              /\ g[i].blocks = f[i].blocks
              /\ g[i].blockedBy = f[i].blockedBy
              /\ g[i].parent = f[i].parent
              /\ g[i].owner = IF i \in S THEN NoOwner ELSE f[i].owner
              /\ g[i].status = IF i \in S /\ f[i].status # "completed"
                               THEN "pending" ELSE f[i].status
<1>1. ASSUME NEW i \in Ids
      PROVE  /\ g[i] \in Task
             /\ g[i].blocks = f[i].blocks
             /\ g[i].blockedBy = f[i].blockedBy
             /\ g[i].parent = f[i].parent
             /\ g[i].owner = IF i \in S THEN NoOwner ELSE f[i].owner
             /\ g[i].status = IF i \in S /\ f[i].status # "completed"
                              THEN "pending" ELSE f[i].status
  <2>1. f[i] \in Task
    OBVIOUS
  <2>2. g[i] = IF i \notin S THEN f[i]
               ELSE [f[i] EXCEPT !.owner = NoOwner,
                                 !.status = IF @ = "completed" THEN @ ELSE "pending"]
    BY DEF GivenBack
  <2> QED
    BY <2>1, <2>2 DEF Task, Status
<1>2. \A i \in Ids \ S : g[i] = f[i]
  BY DEF GivenBack
<1>3. g \in [Ids -> Task]
  <2>1. g = [i \in Ids |-> g[i]]
    BY DEF GivenBack
  <2> QED
    BY <1>1, <2>1
<1> QED
  BY <1>1, <1>2, <1>3

LEMMA LockTypes ==
  /\ Free \in Lock /\ ~Free.held /\ Free.todo = {}
  /\ \A l \in Lock : l.next # NoOwner => l.next \in Agents /\ l.task \in Ids
  BY DEF Free, Lock

LEMMA TypeInit == Init => TypeOK
  BY AbsentType, LockTypes, MaxCrashesAssumption DEF Init, TypeOK

LEMMA TypeStep == TypeOK /\ [Next]_vars => TypeOK'
<1> SUFFICES ASSUME TypeOK, [Next]_vars PROVE TypeOK'
  OBVIOUS
<1> USE DEF TypeOK
<1>0. \A i \in Ids, r \in Task : WriteOnly(i, r) =>
        disk' \in [Ids -> Task] /\ goal' = disk' /\ lock' = lock /\ crashes' \in 0..MaxCrashes
  BY TornType, MaxCrashesAssumption DEF WriteOnly
<1>1. ASSUME NEW i \in Ids, NEW p \in NewParents, Create(i, p) PROVE TypeOK'
  <2>1. [Absent EXCEPT !.status = "pending", !.parent = p] \in Task
    BY NewParentsAssumption DEF Absent, Task, Status
  <2> QED
    BY <1>0, <1>1, <2>1 DEF Create
<1>2. ASSUME NEW t \in Ids, NEW c \in Calls, Update(t, c) PROVE TypeOK'
  <2>1. c \in Call
    BY CallsAssumption
  <2>2. goal' \in [Ids -> Task]
    BY <1>2, <2>1, AfterType DEF Update
  <2>3. NextFor(disk, goal', t) \in Agents \union {NoOwner}
    BY PickupAssumption DEF NextFor
  <2>4. PICK n \in Agents \union {NoOwner}, d \in SUBSET Ids :
          lock' = [held |-> TRUE, task |-> t, todo |-> d, next |-> n]
    BY <1>2, <2>1, <2>3 DEF Update, Call
  <2>5. lock' \in Lock
    BY <2>4 DEF Lock
  <2> QED
    BY <1>2, <2>2, <2>5 DEF Update
<1>3. ASSUME NEW a \in Agents, Reset(a) PROVE TypeOK'
  <2>1. PICK S \in SUBSET Owned(disk, a) :
          /\ goal' = GivenBack(disk, S)
          /\ lock' = [held |-> TRUE, task |-> NoTask, todo |-> S, next |-> NoOwner]
    BY <1>3 DEF Reset
  <2>2. S \in SUBSET Ids
    BY DEF Owned, Legible, Files
  <2>3. goal' \in [Ids -> Task]
    BY <2>1, GivenBackFields
  <2>4. lock' \in Lock
    BY <2>1, <2>2 DEF Lock
  <2> QED
    BY <1>3, <2>3, <2>4 DEF Reset
<1>4. ASSUME NEW i \in Ids, WriteFile(i) PROVE TypeOK'
  <2>1. lock' \in Lock
    BY <1>4 DEF WriteFile, Lock
  <2> QED
    BY <1>4, <2>1 DEF WriteFile
<1>5. CASE Release
  <2>1. lock' \in Lock
    BY <1>5, LockTypes DEF Release
  <2>2. lock.next # NoOwner => lock.next \in Agents /\ lock.task \in Ids
    BY LockTypes
  <2>3. pickups' \subseteq Pickup
    BY <1>5, <2>2 DEF Release, Pickup
  <2> QED
    BY <1>5, <2>1, <2>3 DEF Release
<1>6. CASE Crash
  BY <1>6, LockTypes, TornType, MaxCrashesAssumption DEF Crash
<1>7. ASSUME NEW a \in Agents, NEW t \in Ids, Claim(a, t) PROVE TypeOK'
  <2>1. [disk[t] EXCEPT !.status = "in_progress", !.owner = a] \in Task
    <3>1. disk[t] \in Task /\ "in_progress" \in Status
      BY DEF Status
    <3> QED
      BY <3>1, FieldTypes DEF Task
  <2> QED
    BY <1>0, <1>7, <2>1 DEF Claim
<1>8. ASSUME NEW p \in pickups, AssignNext(p) \/ AssignFails(p) PROVE TypeOK'
  <2>1. \A i \in Ids : [disk[i] EXCEPT !.owner = p.agent] \in Task
    BY DEF Task, Pickup
  <2>2. Assignable(disk, p) \subseteq Ids
    BY DEF Assignable
  <2> QED
    BY <1>0, <1>8, <2>1, <2>2 DEF AssignNext, AssignFails
<1>9. CASE UNCHANGED vars
  BY <1>9 DEF vars
<1> QED
  BY <1>1, <1>2, <1>3, <1>4, <1>5, <1>6, <1>7, <1>8, <1>9 DEF Next

\* Every state of the store is well formed.
THEOREM TypeCorrect == Spec => []TypeOK
  BY TypeInit, TypeStep, PTL DEF Spec

-----------------------------------------------------------------------------
(* What phase 3 of update_task computes, field by field. *)

LEMMA EditedFields ==
  ASSUME NEW f \in [Ids -> Task], NEW t \in Ids, NEW c \in Call, NEW i \in Ids
  PROVE  LET g == Edited(Linked(f, t, c), t, c)[i] IN
         /\ g.blocks = f[i].blocks \union
              (IF i = t THEN c.addBlocks
               ELSE IF i \in c.addBlockedBy THEN {t} ELSE {})
         /\ g.blockedBy = f[i].blockedBy \union
              (IF i = t THEN c.addBlockedBy
               ELSE IF i \in c.addBlocks THEN {t} ELSE {})
         /\ g.parent = IF i = t /\ c.parent # NoTask THEN c.parent ELSE f[i].parent
         /\ g.status = IF i = t /\ c.status \in Status THEN c.status ELSE f[i].status
<1> DEFINE b == f[i].blocks \union (IF i = t THEN c.addBlocks
                                    ELSE IF i \in c.addBlockedBy THEN {t} ELSE {})
           w == f[i].blockedBy \union (IF i = t THEN c.addBlockedBy
                                       ELSE IF i \in c.addBlocks THEN {t} ELSE {})
           L == Linked(f, t, c)
           g == Edited(L, t, c)[i]
<1>1. f[i] \in Task
  OBVIOUS
<1>2. L[i] = [f[i] EXCEPT !.blocks = b, !.blockedBy = w]
  BY DEF Linked
<1>3. /\ L[i].blocks = b
      /\ L[i].blockedBy = w
      /\ L[i].parent = f[i].parent
      /\ L[i].status = f[i].status
  <2> HIDE DEF b, w, L
  <2> QED
    BY <1>1, <1>2 DEF Task
<1>4. L \in [Ids -> Task]
  BY LinkedType
<1>5. /\ g.blocks = L[i].blocks
      /\ g.blockedBy = L[i].blockedBy
      /\ g.parent = IF i = t /\ c.parent # NoTask THEN c.parent ELSE L[i].parent
      /\ g.status = IF i = t /\ c.status \in Status THEN c.status ELSE L[i].status
  <2> HIDE DEF L
  <2>1. CASE i = t
    <3> DEFINE o == IF c.owner = Keep THEN L[t].owner ELSE c.owner
               p == IF c.parent = NoTask THEN L[t].parent ELSE c.parent
               s == IF c.status \in Status THEN c.status ELSE L[t].status
    <3>1. Edited(L, t, c)[t] = [L[t] EXCEPT !.owner = o, !.parent = p, !.status = s]
      BY <1>4 DEF Edited
    <3>2. L[t] \in Task
      BY <1>4
    <3> HIDE DEF o, p, s
    <3>3. /\ g.blocks = L[t].blocks /\ g.blockedBy = L[t].blockedBy
          /\ g.parent = p /\ g.status = s
      BY <2>1, <3>1, <3>2 DEF Task
    <3> QED
      BY <2>1, <3>3 DEF p, s
  <2>2. CASE i # t
    BY <1>4, <2>2 DEF Edited
  <2> QED
    BY <2>1, <2>2
<1> QED
  BY <1>3, <1>5

\* After a deletion.
LEMMA ErasedFields ==
  ASSUME NEW f \in [Ids -> Task], NEW t \in Ids, NEW c \in Call, NEW i \in Ids,
         c.status = "deleted"
  PROVE  LET g == Edited(Linked(f, t, c), t, c)[i]
             h == After(f, t, c)[i] IN
         IF i = t THEN h = Absent
         ELSE /\ h.blocks = g.blocks \ {t}
              /\ h.blockedBy = g.blockedBy \ {t}
              /\ h.parent = IF g.parent = t THEN NoTask ELSE g.parent
              /\ h.status = g.status
<1> DEFINE E == Edited(Linked(f, t, c), t, c)
<1>1. E \in [Ids -> Task]
  BY LinkedType, EditedType
<1> HIDE DEF E
<1>2. E[i] \in Task
  BY <1>1
<1>3. After(f, t, c) = Erased(E, t)
  BY DEF After, E
<1>4. CASE i = t
  BY <1>3, <1>4 DEF Erased
<1>5. CASE i # t
  <2>1. Erased(E, t)[i] =
          [E[i] EXCEPT !.blocks = @ \ {t}, !.blockedBy = @ \ {t},
                       !.parent = IF @ = t THEN NoTask ELSE @]
    BY <1>5 DEF Erased
  <2>2. /\ Erased(E, t)[i].blocks = E[i].blocks \ {t}
        /\ Erased(E, t)[i].blockedBy = E[i].blockedBy \ {t}
        /\ Erased(E, t)[i].parent = IF E[i].parent = t THEN NoTask ELSE E[i].parent
        /\ Erased(E, t)[i].status = E[i].status
    BY <1>2, <2>1 DEF Task
  <2> QED
    BY <1>3, <1>5, <2>2 DEF E
<1> QED
  BY <1>4, <1>5

\* After any other call.
LEMMA KeptFields ==
  ASSUME NEW f \in [Ids -> Task], NEW t \in Ids, NEW c \in Call, NEW i \in Ids,
         c.status # "deleted"
  PROVE  LET g == Edited(Linked(f, t, c), t, c)[i]
             h == After(f, t, c)[i] IN
         /\ h.blocks = g.blocks
         /\ h.blockedBy = IF c.status = "completed" /\ i # t THEN g.blockedBy \ {t}
                          ELSE g.blockedBy
         /\ h.parent = g.parent
         /\ h.status = g.status
<1> DEFINE E == Edited(Linked(f, t, c), t, c)
<1>1. E \in [Ids -> Task]
  BY LinkedType, EditedType
<1> HIDE DEF E
<1>2. E[i] \in Task
  BY <1>1
<1>3. After(f, t, c) = IF c.status = "completed" THEN Unblocked(E, t) ELSE E
  BY DEF After, E
<1> QED
  BY <1>2, <1>3 DEF Unblocked, Task, E

\* Phase 3 only takes references away after it has linked and edited.
LEMMA AfterShrinks ==
  ASSUME NEW f \in [Ids -> Task], NEW t \in Ids, NEW c \in Call, NEW i \in Ids
  PROVE  LET g == Edited(Linked(f, t, c), t, c)[i]
             h == After(f, t, c)[i] IN
         /\ h.blocks \subseteq g.blocks
         /\ h.blockedBy \subseteq g.blockedBy
         /\ h.parent \in {g.parent, NoTask}
         /\ h.status \in {g.status, "absent"}
<1> DEFINE g == Edited(Linked(f, t, c), t, c)[i]
           h == After(f, t, c)[i]
<1>1. CASE c.status = "deleted"
  <2>1. IF i = t THEN h = Absent
        ELSE /\ h.blocks = g.blocks \ {t}
             /\ h.blockedBy = g.blockedBy \ {t}
             /\ h.parent = IF g.parent = t THEN NoTask ELSE g.parent
             /\ h.status = g.status
    BY <1>1, ErasedFields
  <2> HIDE DEF g, h
  <2>2. /\ h.blocks \subseteq g.blocks
        /\ h.blockedBy \subseteq g.blockedBy
        /\ h.parent \in {g.parent, NoTask}
        /\ h.status \in {g.status, "absent"}
    BY <2>1 DEF Absent
  <2> QED
    BY <2>2 DEF g, h
<1>2. CASE c.status # "deleted"
  <2>1. /\ h.blocks = g.blocks
        /\ h.blockedBy = IF c.status = "completed" /\ i # t THEN g.blockedBy \ {t}
                          ELSE g.blockedBy
        /\ h.parent = g.parent
        /\ h.status = g.status
    BY <1>2, KeptFields
  <2> HIDE DEF g, h
  <2>2. /\ h.blocks \subseteq g.blocks
        /\ h.blockedBy \subseteq g.blockedBy
        /\ h.parent \in {g.parent, NoTask}
        /\ h.status \in {g.status, "absent"}
    BY <2>1
  <2> QED
    BY <2>2 DEF g, h
<1> QED
  BY <1>1, <1>2

-----------------------------------------------------------------------------
(* What update_task does to the references, the two graphs and the statuses. *)

LEMMA UpdateFiles ==
  ASSUME NEW f \in [Ids -> Task], NEW t \in Files(f), NEW c \in Call
  PROVE  Files(After(f, t, c)) =
           IF c.status = "deleted" THEN Files(f) \ {t} ELSE Files(f)
<1>1. t \in Ids
  BY DEF Files
<1>2. SUFFICES ASSUME NEW i \in Ids
               PROVE  (After(f, t, c)[i].status # "absent") <=>
                        (f[i].status # "absent" /\ ~(c.status = "deleted" /\ i = t))
  BY DEF Files
<1> DEFINE g == Edited(Linked(f, t, c), t, c)[i]
           h == After(f, t, c)[i]
<1>3. (g.status # "absent") <=> (f[i].status # "absent")
  <2>1. g.status = IF i = t /\ c.status \in Status THEN c.status ELSE f[i].status
    BY <1>1, EditedFields
  <2>2. f[t].status # "absent"
    BY DEF Files
  <2> QED
    BY <2>1, <2>2 DEF Status
<1>4. CASE c.status = "deleted"
  <2>1. IF i = t THEN h = Absent ELSE h.status = g.status
    BY <1>1, <1>4, ErasedFields
  <2> QED
    BY <1>3, <1>4, <2>1 DEF Absent
<1>5. CASE c.status # "deleted"
  <2>1. h.status = g.status
    BY <1>1, <1>5, KeptFields
  <2> QED
    BY <1>3, <1>5, <2>1
<1> QED
  BY <1>4, <1>5

LEMMA UpdateRefs ==
  ASSUME NEW f \in [Ids -> Task], NEW t \in Files(f), NEW c \in Call, Valid(f, t, c),
         \A i \in Ids : Refs(f, i) \subseteq Files(f)
  PROVE  \A i \in Ids : Refs(After(f, t, c), i) \subseteq Files(After(f, t, c))
<1> DEFINE g == Edited(Linked(f, t, c), t, c)
           h == After(f, t, c)
<1>0. t \in Ids
  BY DEF Files
<1>1. ASSUME NEW i \in Ids
      PROVE  /\ g[i].blocks \subseteq Files(f)
             /\ g[i].blockedBy \subseteq Files(f)
             /\ {g[i].parent} \ {NoTask} \subseteq Files(f)
  <2>1. /\ f[i].blocks \subseteq Files(f) /\ f[i].blockedBy \subseteq Files(f)
        /\ {f[i].parent} \ {NoTask} \subseteq Files(f)
    BY DEF Refs, ParentEdges
  <2>2. c.addBlocks \subseteq Files(f) /\ c.addBlockedBy \subseteq Files(f)
    BY DEF Valid, Legible
  <2>3. c.parent # NoTask => c.parent \in Files(f)
    <3>1. ASSUME c.parent # NoTask PROVE c.parent \in Ids
      BY <3>1 DEF Call
    <3> QED
      BY <3>1, ReachStart DEF Valid, ParentOk, Legible
  <2> QED
    BY <1>0, <2>1, <2>2, <2>3, EditedFields
<1> SUFFICES ASSUME NEW i \in Ids PROVE Refs(h, i) \subseteq Files(h)
  OBVIOUS
<1>2. Refs(h, i) = h[i].blocks \union h[i].blockedBy \union ({h[i].parent} \ {NoTask})
  BY DEF Refs, ParentEdges
<1>3. CASE c.status = "deleted" /\ i = t
  <2>1. h[i] = Absent
    BY <1>0, <1>3, ErasedFields
  <2> QED
    BY <1>2, <2>1 DEF Absent
<1>4. CASE c.status = "deleted" /\ i # t
  <2>1. Files(h) = Files(f) \ {t}
    BY <1>4, UpdateFiles
  <2>2. /\ h[i].blocks = g[i].blocks \ {t}
        /\ h[i].blockedBy = g[i].blockedBy \ {t}
        /\ h[i].parent = IF g[i].parent = t THEN NoTask ELSE g[i].parent
    BY <1>0, <1>4, ErasedFields
  <2> QED
    BY <1>1, <1>2, <2>1, <2>2
<1>5. CASE c.status # "deleted"
  <2>1. Files(h) = Files(f)
    BY <1>5, UpdateFiles
  <2>2. /\ h[i].blocks \subseteq g[i].blocks
        /\ h[i].blockedBy \subseteq g[i].blockedBy
        /\ {h[i].parent} \ {NoTask} \subseteq {g[i].parent} \ {NoTask}
    BY <1>0, AfterShrinks
  <2> QED
    BY <1>1, <1>2, <2>1, <2>2
<1> QED
  BY <1>3, <1>4, <1>5

\* An update adds no cycle of waits, even together with what was on disk.
LEMMA UpdateWaits ==
  ASSUME NEW f \in [Ids -> Task], NEW t \in Files(f), NEW c \in Call, Valid(f, t, c),
         NoCycle(Ids, WaitEdges(f))
  PROVE  NoCycle(Ids, Both(WaitEdges(f), WaitEdges(After(f, t, c))))
<1> DEFINE d == WaitEdges(f)
           e == PendingEdges(f, t, c)
           u == Both(d, WaitEdges(After(f, t, c)))
<1>0. t \in Ids
  BY DEF Files
<1>1. \A k \in Ids : d[k] \subseteq e[k] /\ e[k] \subseteq Ids
  BY <1>0 DEF WaitEdges, PendingEdges, Task, Call
<1>2. \A x \in Ids : \A y \in e[x] \ d[x] : x \notin Reach(Ids, e, y)
  <2> SUFFICES ASSUME NEW x \in Ids, NEW y \in e[x] \ d[x]
               PROVE  x \notin Reach(Ids, e, y)
    OBVIOUS
  <2>1. (x = t /\ y \in c.addBlockedBy) \/ (x \in c.addBlocks /\ y = t)
    BY DEF PendingEdges, WaitEdges
  <2>2. ~CreatesCycle(f, t, c)
    BY DEF Valid
  <2> QED
    BY <2>1, <2>2 DEF CreatesCycle
<1>3. NoCycle(Ids, e)
  BY <1>1, <1>2, NewEdges
<1>4. ASSUME NEW k \in Ids PROVE u[k] \subseteq e[k]
  <2>1. u[k] = f[k].blockedBy \union After(f, t, c)[k].blockedBy
    BY DEF Both, WaitEdges
  <2>2. Edited(Linked(f, t, c), t, c)[k].blockedBy \subseteq e[k]
    <3>1. Edited(Linked(f, t, c), t, c)[k].blockedBy = f[k].blockedBy \union
              (IF k = t THEN c.addBlockedBy
               ELSE IF k \in c.addBlocks THEN {t} ELSE {})
      BY <1>0, EditedFields
    <3> QED
      BY <3>1 DEF PendingEdges
  <2>3. After(f, t, c)[k].blockedBy \subseteq Edited(Linked(f, t, c), t, c)[k].blockedBy
    BY <1>0, AfterShrinks
  <2>4. f[k].blockedBy \subseteq e[k]
    BY DEF PendingEdges
  <2> QED
    BY <2>1, <2>2, <2>3, <2>4
<1> HIDE DEF u, e
<1> QED
  BY <1>1, <1>3, <1>4, NoCycleMonotone DEF u

\* A parent that passes the check adds no cycle of parents.
LEMMA NewParent ==
  ASSUME NEW f \in [Ids -> Task], NEW t \in Ids, NEW p \in Ids \union {NoTask},
         ParentOk(f, t, p), NoCycle(Ids, ParentEdges(f)),
         NEW e, e = [i \in Ids |-> ParentEdges(f)[i]
                                   \union (IF i = t THEN {p} \ {NoTask} ELSE {})]
  PROVE  /\ NoCycle(Ids, e)
         /\ \A i \in Ids : e[i] \subseteq Ids
<1> DEFINE d == ParentEdges(f)
           S == Reach(Ids, d, p)
<1>1. \A k \in Ids : d[k] \subseteq e[k] /\ e[k] \subseteq Ids
  BY DEF ParentEdges, Task
<1>2. ASSUME p # NoTask PROVE t \notin Reach(Ids, e, p)
  <2>1. p \in Ids
    BY <1>2
  <2>2. t \notin S
    BY <1>2 DEF ParentOk
  <2>3. S \in SUBSET Ids /\ p \in S
    BY <2>1, ReachStart DEF Reach
  <2>4. Closed(e, S)
    <3> SUFFICES ASSUME NEW k \in S PROVE e[k] \subseteq S
      BY DEF Closed
    <3>1. e[k] = d[k]
      BY <2>2, <2>3
    <3> QED
      BY <1>1, <2>3, <3>1, ReachClosed
  <2> HIDE DEF S
  <2>5. Reach(Ids, e, p) \subseteq S
    BY <2>3, <2>4, ReachLeast
  <2> QED
    BY <2>2, <2>5
<1>3. \A x \in Ids : \A y \in e[x] \ d[x] : x \notin Reach(Ids, e, y)
  <2> SUFFICES ASSUME NEW x \in Ids, NEW y \in e[x] \ d[x]
               PROVE  x \notin Reach(Ids, e, y)
    OBVIOUS
  <2>1. x = t /\ y = p /\ p # NoTask
    OBVIOUS
  <2> QED
    BY <1>2, <2>1
<1> QED
  BY <1>1, <1>3, NewEdges

\* Nor does an update.
LEMMA UpdateParents ==
  ASSUME NEW f \in [Ids -> Task], NEW t \in Files(f), NEW c \in Call, Valid(f, t, c),
         NoCycle(Ids, ParentEdges(f))
  PROVE  NoCycle(Ids, Both(ParentEdges(f), ParentEdges(After(f, t, c))))
<1> DEFINE d == ParentEdges(f)
           e == [i \in Ids |-> d[i] \union (IF i = t THEN {c.parent} \ {NoTask} ELSE {})]
           u == Both(d, ParentEdges(After(f, t, c)))
<1>0. t \in Ids
  BY DEF Files
<1>1. NoCycle(Ids, e) /\ \A i \in Ids : e[i] \subseteq Ids
  <2>1. c.parent \in Ids \union {NoTask} /\ ParentOk(f, t, c.parent)
    BY DEF Call, Valid
  <2> QED
    BY <1>0, <2>1, NewParent
<1>2. ASSUME NEW k \in Ids PROVE u[k] \subseteq e[k]
  <2>1. u[k] = d[k] \union ({After(f, t, c)[k].parent} \ {NoTask})
    BY DEF Both, ParentEdges
  <2>2. {Edited(Linked(f, t, c), t, c)[k].parent} \ {NoTask} \subseteq e[k]
    <3>1. Edited(Linked(f, t, c), t, c)[k].parent =
             IF k = t /\ c.parent # NoTask THEN c.parent ELSE f[k].parent
      BY <1>0, EditedFields
    <3> QED
      BY <3>1 DEF ParentEdges
  <2>3. {After(f, t, c)[k].parent} \ {NoTask}
          \subseteq {Edited(Linked(f, t, c), t, c)[k].parent} \ {NoTask}
    BY <1>0, AfterShrinks
  <2> QED
    BY <2>1, <2>2, <2>3
<1> HIDE DEF u, e
<1> QED
  BY <1>1, <1>2, NoCycleMonotone DEF u

\* An update leaves a torn file alone.
LEMMA UpdateTorn ==
  ASSUME NEW f \in [Ids -> Task], NEW t \in Legible(f), NEW c \in Call,
         NEW i \in Ids, f[i].status = "torn"
  PROVE  /\ c.status # "deleted" => After(f, t, c)[i].status = "torn"
         /\ Valid(f, t, c) => c.status # "deleted"
<1>0. t \in Ids /\ t # i
  BY DEF Legible, Files, Torn
<1>1. Edited(Linked(f, t, c), t, c)[i].status = "torn"
  BY <1>0, EditedFields
<1>2. c.status # "deleted" => After(f, t, c)[i].status = "torn"
  BY <1>0, <1>1, KeptFields
<1> QED
  BY <1>2 DEF Valid, Torn

\* And a completed task stays completed or goes.
LEMMA UpdateCompleted ==
  ASSUME NEW f \in [Ids -> Task], NEW t \in Files(f), NEW c \in Call, Valid(f, t, c),
         NEW i \in Ids, f[i].status = "completed"
  PROVE  After(f, t, c)[i].status \in {"completed", "absent"}
<1>0. t \in Ids
  BY DEF Files
<1>1. i = t /\ c.status \in Status => c.status = "completed"
  BY DEF Valid, StatusOk, Status, Order
<1>2. Edited(Linked(f, t, c), t, c)[i].status = "completed"
  BY <1>0, <1>1, EditedFields
<1> QED
  BY <1>0, <1>2, AfterShrinks

-----------------------------------------------------------------------------
(* The invariant of the writes. *)

\* Writing some of the files of g over those of d leaves the union of the two
\* graphs as it was or smaller.
LEMMA WritingMakesNoCycle ==
  ASSUME NEW d \in [Ids -> Task], NEW g \in [Ids -> Task], NEW n \in [Ids -> Task],
         \A i \in Ids : n[i] \in {d[i], g[i]}
  PROVE  /\ NoCycle(Ids, Both(WaitEdges(d), WaitEdges(g)))
              => NoCycle(Ids, Both(WaitEdges(n), WaitEdges(g)))
         /\ NoCycle(Ids, Both(ParentEdges(d), ParentEdges(g)))
              => NoCycle(Ids, Both(ParentEdges(n), ParentEdges(g)))
<1>1. \A i \in Ids : /\ Both(WaitEdges(n), WaitEdges(g))[i]
                          \subseteq Both(WaitEdges(d), WaitEdges(g))[i]
                     /\ Both(WaitEdges(d), WaitEdges(g))[i] \subseteq Ids
  BY DEF Both, WaitEdges, Task
<1>2. \A i \in Ids : /\ Both(ParentEdges(n), ParentEdges(g))[i]
                          \subseteq Both(ParentEdges(d), ParentEdges(g))[i]
                     /\ Both(ParentEdges(d), ParentEdges(g))[i] \subseteq Ids
  BY DEF Both, ParentEdges, Task
<1> QED
  BY <1>1, <1>2, NoCycleMonotone

\* The union of a graph with itself, or with an operand that adds nothing.
LEMMA BothSame ==
  ASSUME NEW d \in [Ids -> Task]
  PROVE  /\ Both(WaitEdges(d), WaitEdges(d)) = WaitEdges(d)
         /\ Both(ParentEdges(d), ParentEdges(d)) = ParentEdges(d)
  BY DEF Both, WaitEdges, ParentEdges

\* While the lock is free there is nothing left to write.
LEMMA FreeGoal ==
  ASSUME StoreInv, ~lock.held PROVE goal = disk
  BY DEF StoreInv, TypeOK

\* A step that changes only owners and statuses of files, or puts a new file in
\* place, keeps the invariant: it is shown of the step's effect on disk.
LEMMA InvOfDisk ==
  ASSUME TypeOK', goal' = disk', lock'.todo = {},
         NEW e, NEW p,
         \A i \in Ids : WaitEdges(disk')[i] \subseteq e[i] /\ e[i] \subseteq Ids,
         \A i \in Ids : ParentEdges(disk')[i] \subseteq p[i] /\ p[i] \subseteq Ids,
         NoCycle(Ids, e), NoCycle(Ids, p),
         \A i \in Ids : Refs(disk', i) \subseteq Files(disk')
  PROVE  StoreInv'
<1>1. disk' \in [Ids -> Task]
  BY DEF TypeOK
<1>2. NoCycle(Ids, WaitEdges(disk')) /\ NoCycle(Ids, ParentEdges(disk'))
  BY NoCycleMonotone
<1>3. /\ NoCycle(Ids, Both(WaitEdges(disk'), WaitEdges(goal')))
      /\ NoCycle(Ids, Both(ParentEdges(disk'), ParentEdges(goal')))
  BY <1>1, <1>2, BothSame
<1> QED
  BY <1>3 DEF StoreInv

\* A write that never got to its end takes the references of its file away.
LEMMA InvOfTorn ==
  ASSUME StoreInv, TypeOK', NEW i \in Ids, disk' = [disk EXCEPT ![i] = TornFile],
         goal' = disk', lock'.todo = {}
  PROVE  StoreInv'
<1>0. disk \in [Ids -> Task] /\ goal \in [Ids -> Task]
  BY DEF StoreInv, TypeOK
<1>1. /\ \A k \in Ids \ {i} : disk'[k] = disk[k]
      /\ disk'[i] = TornFile
  BY <1>0
<1>2. \A k \in Ids : /\ disk'[k].blocks \subseteq disk[k].blocks
                     /\ disk'[k].blockedBy \subseteq disk[k].blockedBy
                     /\ {disk'[k].parent} \ {NoTask} \subseteq {disk[k].parent} \ {NoTask}
                     /\ disk[k].status # "absent" => disk'[k].status # "absent"
  BY <1>1, TornType
<1>3. Files(disk) \subseteq Files(disk')
  BY <1>2 DEF Files
<1>4. \A k \in Ids : Refs(disk', k) \subseteq Refs(disk, k)
  BY <1>2 DEF Refs, ParentEdges
<1>5. \A k \in Ids : Refs(disk', k) \subseteq Files(disk')
  BY <1>3, <1>4 DEF StoreInv
<1>6. \A k \in Ids : /\ WaitEdges(disk')[k] \subseteq Both(WaitEdges(disk), WaitEdges(goal))[k]
                     /\ Both(WaitEdges(disk), WaitEdges(goal))[k] \subseteq Ids
                     /\ ParentEdges(disk')[k] \subseteq Both(ParentEdges(disk), ParentEdges(goal))[k]
                     /\ Both(ParentEdges(disk), ParentEdges(goal))[k] \subseteq Ids
  BY <1>0, <1>2 DEF Both, WaitEdges, ParentEdges, Task
<1> QED
  BY <1>5, <1>6, InvOfDisk DEF StoreInv

LEMMA InvInit == Init => StoreInv
<1> SUFFICES ASSUME Init PROVE StoreInv
  OBVIOUS
<1>1. TypeOK
  BY TypeInit
<1>2. \A i \in Ids : /\ Refs(disk, i) = {}
                     /\ WaitEdges(disk)[i] = {}
                     /\ ParentEdges(disk)[i] = {}
                     /\ disk[i].status = "absent"
  BY DEF Init, Refs, WaitEdges, ParentEdges, Absent
<1>3. /\ NoCycle(Ids, WaitEdges(disk))
      /\ NoCycle(Ids, ParentEdges(disk))
  BY <1>2 DEF NoCycle
<1>4. goal = disk /\ disk \in [Ids -> Task] /\ lock.todo = {}
  BY <1>1, LockTypes DEF Init, TypeOK
<1> QED
  BY <1>1, <1>2, <1>3, <1>4, BothSame DEF StoreInv

\* A claim or a pickup changes the status and the owner of one file.
LEMMA InvOfOwner ==
  ASSUME StoreInv, TypeOK', ~lock.held, NEW i \in Files(disk), NEW r \in Task,
         r.blocks = disk[i].blocks, r.blockedBy = disk[i].blockedBy,
         r.parent = disk[i].parent, r.status # "absent", WriteOnly(i, r)
  PROVE  StoreInv'
<1>0. disk \in [Ids -> Task] /\ i \in Ids
  BY DEF StoreInv, TypeOK, Files
<1>a. goal' = disk' /\ lock'.todo = {}
  BY DEF WriteOnly, StoreInv
<1>b. CASE disk' = [disk EXCEPT ![i] = TornFile]
  BY <1>0, <1>a, <1>b, InvOfTorn
<1>c. disk' \in {[disk EXCEPT ![i] = r], [disk EXCEPT ![i] = TornFile]}
  BY DEF WriteOnly
<1> SUFFICES ASSUME disk' = [disk EXCEPT ![i] = r] PROVE StoreInv'
  BY <1>b, <1>c
<1>1. goal' = disk' /\ disk' = [disk EXCEPT ![i] = r]
  BY <1>a
<1>2. \A k \in Ids : /\ disk'[k].blocks = disk[k].blocks
                     /\ disk'[k].blockedBy = disk[k].blockedBy
                     /\ disk'[k].parent = disk[k].parent
  BY <1>0, <1>1
<1>3. Files(disk') = Files(disk)
  BY <1>0, <1>1 DEF Files
<1>4. /\ WaitEdges(disk') = WaitEdges(disk)
      /\ ParentEdges(disk') = ParentEdges(disk)
  BY <1>2 DEF WaitEdges, ParentEdges
<1>5. \A k \in Ids : Refs(disk', k) \subseteq Files(disk')
  BY <1>2, <1>3, <1>4 DEF StoreInv, Refs
<1>6. /\ NoCycle(Ids, WaitEdges(disk)) /\ NoCycle(Ids, ParentEdges(disk))
  BY <1>0, BothSame, FreeGoal DEF StoreInv
<1>7. \A k \in Ids : WaitEdges(disk)[k] \subseteq Ids /\ ParentEdges(disk)[k] \subseteq Ids
  BY <1>0 DEF WaitEdges, ParentEdges, Task
<1> QED
  BY <1>a, <1>1, <1>4, <1>5, <1>6, <1>7, InvOfDisk

LEMMA InvStep == StoreInv /\ [Next]_vars => StoreInv'
<1> SUFFICES ASSUME StoreInv, [Next]_vars PROVE StoreInv'
  OBVIOUS
<1>0. /\ TypeOK /\ TypeOK'
      /\ disk \in [Ids -> Task] /\ goal \in [Ids -> Task]
      /\ disk' \in [Ids -> Task] /\ goal' \in [Ids -> Task]
  <2>1. TypeOK /\ TypeOK'
    BY TypeStep DEF StoreInv
  <2> QED
    BY <2>1 DEF TypeOK
<1>1. ASSUME NEW i \in Ids, NEW p \in NewParents, Create(i, p) PROVE StoreInv'
  <2> DEFINE r == [Absent EXCEPT !.status = "pending", !.parent = p]
             e == [k \in Ids |-> ParentEdges(disk)[k]
                                 \union (IF k = i THEN {p} \ {NoTask} ELSE {})]
  <2>1. /\ r.blocks = {} /\ r.blockedBy = {} /\ r.parent = p /\ r.status = "pending"
        /\ p \in Ids \union {NoTask}
    BY NewParentsAssumption DEF Absent
  <2> HIDE DEF r
  <2>a. /\ disk' \in {[disk EXCEPT ![i] = r], [disk EXCEPT ![i] = TornFile]}
        /\ goal' = disk' /\ ~lock.held /\ lock' = lock
    BY <1>1 DEF Create, WriteOnly, r
  <2>b. lock.todo = {} /\ goal = disk
    BY <1>0, <2>a DEF StoreInv
  <2>c. CASE disk' = [disk EXCEPT ![i] = TornFile]
    BY <1>0, <2>a, <2>b, <2>c, InvOfTorn
  <2> SUFFICES ASSUME disk' = [disk EXCEPT ![i] = r] PROVE StoreInv'
    BY <2>a, <2>c
  <2>2. disk' = [disk EXCEPT ![i] = r] /\ goal' = disk' /\ goal = disk
    BY <2>a, <2>b
  <2>3. NoCycle(Ids, WaitEdges(disk)) /\ NoCycle(Ids, ParentEdges(disk))
    BY <1>0, <2>2, BothSame DEF StoreInv
  <2>4. NoCycle(Ids, e) /\ \A k \in Ids : e[k] \subseteq Ids
    BY <1>0, <1>1, <2>1, <2>3, NewParent DEF Create
  <2>5. \A k \in Ids : ParentEdges(disk')[k] \subseteq e[k]
    BY <1>0, <2>1, <2>2 DEF ParentEdges
  <2>6. \A k \in Ids : /\ WaitEdges(disk')[k] \subseteq WaitEdges(disk)[k]
                       /\ WaitEdges(disk)[k] \subseteq Ids
    BY <1>0, <2>1, <2>2 DEF WaitEdges, Task
  <2>7. \A k \in Ids : Refs(disk', k) \subseteq Files(disk')
    <3>1. Files(disk') = Files(disk) \union {i}
      BY <1>0, <2>1, <2>2 DEF Files
    <3>2. p = NoTask \/ p \in Files(disk)
      BY <1>1, <2>1, ReachStart DEF Create, ParentOk, Legible
    <3>3. \A k \in Ids : Refs(disk, k) \subseteq Files(disk)
      BY DEF StoreInv
    <3>4. ASSUME NEW k \in Ids, k # i PROVE Refs(disk', k) = Refs(disk, k)
      BY <1>0, <2>2, <3>4 DEF Refs, ParentEdges
    <3>5. Refs(disk', i) \subseteq {p} \ {NoTask}
      BY <1>0, <2>1, <2>2 DEF Refs, ParentEdges
    <3> QED
      BY <3>1, <3>2, <3>3, <3>4, <3>5
  <2> HIDE DEF e
  <2> QED
    BY <1>0, <2>a, <2>b, <2>2, <2>3, <2>4, <2>5, <2>6, <2>7, InvOfDisk
<1>2. ASSUME NEW t \in Ids, NEW c \in Calls, Update(t, c) PROVE StoreInv'
  <2> DEFINE g == After(disk, t, c)
  <2>1. /\ c \in Call /\ t \in Files(disk) /\ Valid(disk, t, c)
        /\ goal' = g /\ disk' = disk /\ lock.todo = {}
    BY <1>2, CallsAssumption DEF Update, StoreInv, Legible
  <2>2. goal = disk
    BY <1>0, <2>1 DEF StoreInv
  <2>3. lock'.held /\ \A i \in Ids \ lock'.todo : goal'[i] = disk'[i]
    BY <1>2, <2>1 DEF Update
  <2>4. NoCycle(Ids, WaitEdges(disk)) /\ NoCycle(Ids, ParentEdges(disk))
    BY <1>0, <2>2, BothSame DEF StoreInv
  <2>5. /\ NoCycle(Ids, Both(WaitEdges(disk), WaitEdges(g)))
        /\ NoCycle(Ids, Both(ParentEdges(disk), ParentEdges(g)))
    BY <1>0, <2>1, <2>4, UpdateWaits, UpdateParents
  <2>6. \A i \in Ids : Refs(disk, i) \subseteq Files(disk)
    BY DEF StoreInv
  <2>7. \A i \in Ids : Refs(g, i) \subseteq Files(g)
    BY <1>0, <2>1, <2>6, UpdateRefs
  <2>8. Files(g) \subseteq Files(disk)
    BY <1>0, <2>1, UpdateFiles
  <2>9. \A i \in Ids : disk[i].status = "completed" => g[i].status \in {"completed", "absent"}
    BY <1>0, <2>1, UpdateCompleted
  <2>10. \A i \in Ids : disk[i].status = "torn" => g[i].status = "torn"
    BY <1>0, <1>2, <2>1, UpdateTorn DEF Update
  <2> HIDE DEF g
  <2> QED
    BY <1>0, <2>1, <2>3, <2>5, <2>6, <2>7, <2>8, <2>9, <2>10 DEF StoreInv
<1>3. ASSUME NEW a \in Agents, Reset(a) PROVE StoreInv'
  <2>1. PICK S \in SUBSET Owned(disk, a) :
          /\ goal' = GivenBack(disk, S)
          /\ lock' = [held |-> TRUE, task |-> NoTask, todo |-> S, next |-> NoOwner]
    BY <1>3 DEF Reset
  <2>2. disk' = disk /\ goal = disk /\ lock'.held /\ lock'.todo = S
    BY <1>3, <2>1, FreeGoal DEF Reset
  <2>3. ASSUME NEW i \in Ids
        PROVE  /\ goal'[i].blocks = disk[i].blocks
               /\ goal'[i].blockedBy = disk[i].blockedBy
               /\ goal'[i].parent = disk[i].parent
               /\ goal'[i].status = "absent" <=> disk[i].status = "absent"
               /\ disk[i].status = "completed" => goal'[i].status = "completed"
               /\ disk[i].status = "torn" => goal'[i].status = "torn"
               /\ i \notin S => goal'[i] = disk[i]
    <3>1. i \in S => disk[i].status \notin {"absent", "torn"}
      BY DEF Owned, Legible, Files, Torn
    <3> QED
      BY <1>0, <2>1, <3>1, GivenBackFields
  <2>4. Files(goal') = Files(disk)
    BY <2>3 DEF Files
  <2>5. /\ WaitEdges(goal') = WaitEdges(disk) /\ ParentEdges(goal') = ParentEdges(disk)
    BY <2>3 DEF WaitEdges, ParentEdges
  <2>6. \A i \in Ids : Refs(goal', i) = Refs(disk, i)
    BY <2>3, <2>5 DEF Refs
  <2> QED
    BY <1>0, <2>2, <2>3, <2>4, <2>5, <2>6 DEF StoreInv
<1>4. ASSUME NEW i \in Ids, WriteFile(i) PROVE StoreInv'
  <2>1. /\ disk' = [disk EXCEPT ![i] = goal[i]] /\ goal' = goal
        /\ lock'.todo = lock.todo \ {i} /\ lock'.held = lock.held
        /\ goal[i].status = "absent" => lock.todo = {i}
        /\ lock.held
    BY <1>0, <1>4 DEF WriteFile, Writable, StoreInv, TypeOK, Lock
  <2>2. \A k \in Ids : disk'[k] \in {disk[k], goal[k]}
    BY <1>0, <2>1
  <2>3. /\ NoCycle(Ids, Both(WaitEdges(disk'), WaitEdges(goal)))
        /\ NoCycle(Ids, Both(ParentEdges(disk'), ParentEdges(goal)))
    BY <1>0, <2>2, WritingMakesNoCycle DEF StoreInv
  <2>4. \A k \in Ids : /\ disk'[k].status = "completed"
                            => goal[k].status \in {"completed", "absent"}
                       /\ disk'[k].status = "torn" => goal[k].status = "torn"
    BY <2>2 DEF StoreInv
  <2>5. /\ \A k \in Ids : Refs(disk', k) \subseteq Files(disk')
        /\ Files(goal) \subseteq Files(disk')
    <3>1. CASE goal[i].status = "absent"
      <4>1. \A k \in Ids : disk'[k] = goal[k]
        BY <1>0, <2>1, <3>1 DEF StoreInv
      <4>2. disk' = goal
        BY <1>0, <4>1
      <4> QED
        BY <4>2 DEF StoreInv
    <3>2. CASE goal[i].status # "absent"
      <4>1. Files(disk') = Files(disk)
        BY <1>0, <2>1, <3>2 DEF Files, StoreInv
      <4>2. ASSUME NEW k \in Ids PROVE Refs(disk', k) \in {Refs(disk, k), Refs(goal, k)}
        BY <2>2 DEF Refs, ParentEdges
      <4>3. /\ \A k \in Ids : Refs(disk, k) \subseteq Files(disk)
            /\ \A k \in Ids : Refs(goal, k) \subseteq Files(disk)
            /\ Files(goal) \subseteq Files(disk)
        BY DEF StoreInv
      <4> QED
        BY <4>1, <4>2, <4>3
    <3> QED
      BY <3>1, <3>2
  <2>6. \A k \in Ids \ lock'.todo : goal[k] = disk'[k]
    BY <1>0, <2>1 DEF StoreInv
  <2> QED
    BY <1>0, <2>1, <2>3, <2>4, <2>5, <2>6 DEF StoreInv
<1>5. CASE Release
  BY <1>0, <1>5, LockTypes DEF Release, StoreInv
<1>6. CASE Crash
  <2>a. goal' = disk' /\ lock'.todo = {}
    BY <1>6, LockTypes DEF Crash
  <2>b. ASSUME NEW i \in Ids, disk' = [disk EXCEPT ![i] = TornFile] PROVE StoreInv'
    BY <1>0, <2>a, <2>b, InvOfTorn
  <2>c. disk' = disk \/ \E i \in Ids : disk' = [disk EXCEPT ![i] = TornFile]
    BY <1>0, <1>6 DEF Crash, Writable, TypeOK, Lock
  <2> SUFFICES ASSUME disk' = disk PROVE StoreInv'
    BY <2>b, <2>c
  <2>1. disk' = disk /\ goal' = disk
    BY <2>a
  <2>2. \A i \in Ids : /\ WaitEdges(disk)[i] \subseteq Both(WaitEdges(disk), WaitEdges(goal))[i]
                       /\ Both(WaitEdges(disk), WaitEdges(goal))[i] \subseteq Ids
                       /\ ParentEdges(disk)[i] \subseteq Both(ParentEdges(disk), ParentEdges(goal))[i]
                       /\ Both(ParentEdges(disk), ParentEdges(goal))[i] \subseteq Ids
    BY <1>0 DEF Both, WaitEdges, ParentEdges, Task
  <2> QED
    BY <1>0, <2>a, <2>1, <2>2, InvOfDisk DEF StoreInv
<1>7. ASSUME NEW a \in Agents, NEW t \in Ids, Claim(a, t) PROVE StoreInv'
  <2> DEFINE r == [disk[t] EXCEPT !.status = "in_progress", !.owner = a]
  <2>1. /\ r.blocks = disk[t].blocks /\ r.blockedBy = disk[t].blockedBy
        /\ r.parent = disk[t].parent /\ r.status # "absent" /\ r \in Task
    <3>1. disk[t] \in Task
      BY <1>0
    <3>2. r \in Task
      BY <3>1, FieldTypes DEF Status, Task
    <3> QED
      BY <3>1, <3>2 DEF Task
  <2>2. t \in Files(disk) /\ ~lock.held /\ WriteOnly(t, r)
    BY <1>7 DEF Claim, Files
  <2> HIDE DEF r
  <2> QED
    BY <1>0, <2>1, <2>2, InvOfOwner
<1>8. ASSUME NEW p \in pickups, AssignNext(p) \/ AssignFails(p) PROVE StoreInv'
  <2>1. CASE /\ UNCHANGED <<disk, goal, lock, crashes>>
             /\ pickups' = pickups \ {p}
    BY <1>0, <2>1 DEF StoreInv
  <2>2. ASSUME ~lock.held, NEW i \in Assignable(disk, p),
               WriteOnly(i, [disk[i] EXCEPT !.owner = p.agent])
        PROVE  StoreInv'
    <3> DEFINE r == [disk[i] EXCEPT !.owner = p.agent]
    <3>1. i \in Ids /\ i \in Files(disk) /\ disk[i] \in Task /\ p.agent \in Agents
      BY <1>0 DEF Assignable, Files, TypeOK, Pickup
    <3>2. /\ r.blocks = disk[i].blocks /\ r.blockedBy = disk[i].blockedBy
          /\ r.parent = disk[i].parent /\ r.status # "absent" /\ r \in Task
      BY <3>1 DEF Task, Files
    <3>3. WriteOnly(i, r)
      BY <2>2
    <3> HIDE DEF r
    <3> QED
      BY <1>0, <2>2, <3>1, <3>2, <3>3, InvOfOwner
  <2> QED
    BY <1>8, <2>1, <2>2 DEF AssignNext, AssignFails
<1>9. CASE UNCHANGED vars
  BY <1>0, <1>9 DEF vars, StoreInv
<1> QED
  BY <1>1, <1>2, <1>3, <1>4, <1>5, <1>6, <1>7, <1>8, <1>9 DEF Next

LEMMA InvAlways == Spec => []StoreInv
  BY InvInit, InvStep, PTL DEF Spec

-----------------------------------------------------------------------------
(* What follows for the files on disk. *)

\* No file ever names a task that does not exist, whatever a crash left undone:
\* update_task rewrites every file that names a task before it unlinks it.
THEOREM NoDanglingReferences == Spec => []NoDangling
<1>1. StoreInv => NoDangling
  BY DEF StoreInv, NoDangling, Refs, ParentEdges, Files
<1> QED
  BY <1>1, InvAlways, PTL

\* Tasks on disk never wait for each other in a circle: _would_create_cycle
\* sees every edge there is, and half-written updates only have fewer.
THEOREM NoCircularWaits == Spec => []NoCircularWait
<1>1. StoreInv => NoCircularWait
  <2> SUFFICES ASSUME StoreInv PROVE NoCircularWait
    OBVIOUS
  <2>1. \A i \in Ids : /\ WaitEdges(disk)[i]
                            \subseteq Both(WaitEdges(disk), WaitEdges(goal))[i]
                       /\ Both(WaitEdges(disk), WaitEdges(goal))[i] \subseteq Ids
    BY DEF StoreInv, TypeOK, Both, WaitEdges, Task
  <2>2. NoCycle(Ids, Both(WaitEdges(disk), WaitEdges(goal)))
    BY DEF StoreInv
  <2> QED
    BY <2>1, <2>2, NoCycleMonotone DEF NoCircularWait
<1> QED
  BY <1>1, InvAlways, PTL

\* Every chain of parents on disk ends.
THEOREM ParentChainsEnd == Spec => []ParentsEnd
<1>1. StoreInv => ParentsEnd
  <2> SUFFICES ASSUME StoreInv PROVE ParentsEnd
    OBVIOUS
  <2>1. \A i \in Ids : /\ ParentEdges(disk)[i]
                            \subseteq Both(ParentEdges(disk), ParentEdges(goal))[i]
                       /\ Both(ParentEdges(disk), ParentEdges(goal))[i] \subseteq Ids
    BY DEF StoreInv, TypeOK, Both, ParentEdges, Task
  <2>2. NoCycle(Ids, Both(ParentEdges(disk), ParentEdges(goal)))
    BY DEF StoreInv
  <2> QED
    BY <2>1, <2>2, NoCycleMonotone DEF ParentsEnd
<1> QED
  BY <1>1, InvAlways, PTL

\* Completion survives everything but deletion and a death over the file.
THEOREM CompletionStays == Spec => CompletionIsFinal
<1> DEFINE Late == {"completed", "absent", "torn"}
           Stays(i) == /\ disk[i].status = "completed" => disk'[i].status \in Late
                       /\ disk[i].status = "torn" => disk'[i].status = "torn"
<1>1. ASSUME StoreInv, [Next]_vars PROVE [\A i \in Ids : Stays(i)]_vars
  <2> SUFFICES ASSUME NEW i \in Ids PROVE Stays(i)
    OBVIOUS
  <2>0. /\ disk \in [Ids -> Task] /\ goal \in [Ids -> Task]
        /\ disk[i].status = "completed" => goal[i].status \in {"completed", "absent"}
        /\ disk[i].status = "torn" => goal[i].status = "torn"
    BY <1>1 DEF StoreInv, TypeOK
  <2>a. ASSUME NEW k \in Ids, k # i \/ disk[i].status \notin {"completed", "torn"},
               NEW r \in Task, disk' \in {[disk EXCEPT ![k] = r], [disk EXCEPT ![k] = TornFile]}
        PROVE  Stays(i)
    BY <2>0, <2>a, TornType
  <2>1. ASSUME NEW k \in Ids, NEW p \in NewParents, Create(k, p) PROVE Stays(i)
    <3>1. disk[k].status = "absent"
      BY <2>1 DEF Create, IsNextId, Files, Ids
    <3>2. disk' \in {[disk EXCEPT ![k] = [Absent EXCEPT !.status = "pending", !.parent = p]],
                     [disk EXCEPT ![k] = TornFile]}
      BY <2>1 DEF Create, WriteOnly
    <3>3. [Absent EXCEPT !.status = "pending", !.parent = p] \in Task
      BY NewParentsAssumption DEF Absent, Task, Status
    <3> QED
      BY <2>a, <3>1, <3>2, <3>3
  <2>2. ASSUME NEW k \in Ids, WriteFile(k) PROVE Stays(i)
    BY <2>0, <2>2 DEF WriteFile
  <2>3. CASE Crash
    <3>1. disk' = disk \/ \E k \in lock.todo : disk' = [disk EXCEPT ![k] = TornFile]
      BY <2>3 DEF Crash, Writable
    <3> QED
      BY <2>0, <3>1, TornType
  <2>4. ASSUME NEW a \in Agents, NEW t \in Ids, Claim(a, t) PROVE Stays(i)
    <3>1. /\ disk[t].status = "pending"
          /\ disk' \in {[disk EXCEPT ![t] = [disk[t] EXCEPT !.status = "in_progress", !.owner = a]],
                        [disk EXCEPT ![t] = TornFile]}
      BY <2>4 DEF Claim, WriteOnly
    <3>2. [disk[t] EXCEPT !.status = "in_progress", !.owner = a] \in Task
      <4>1. disk[t] \in Task /\ "in_progress" \in Status
        BY <2>0 DEF Status
      <4> QED
        BY <4>1, FieldTypes DEF Task
    <3> QED
      BY <2>a, <3>1, <3>2
  <2>5. ASSUME NEW p \in pickups, AssignNext(p), disk' # disk PROVE Stays(i)
    <3>1. PICK k \in Assignable(disk, p) :
             disk' \in {[disk EXCEPT ![k] = [disk[k] EXCEPT !.owner = p.agent]],
                        [disk EXCEPT ![k] = TornFile]}
      BY <2>5 DEF AssignNext, WriteOnly
    <3>2. k \in Ids /\ disk[k].status = "pending" /\ p.agent \in Agents
      BY <1>1 DEF Assignable, StoreInv, TypeOK, Pickup
    <3>3. [disk[k] EXCEPT !.owner = p.agent] \in Task
      BY <2>0, <3>2 DEF Task
    <3> QED
      BY <2>a, <3>1, <3>2, <3>3
  <2>6. ASSUME disk' = disk PROVE Stays(i)
    BY <2>6
  <2> QED
    BY <1>1, <2>1, <2>2, <2>3, <2>4, <2>5, <2>6
       DEF Next, Update, Reset, Release, AssignFails, vars
<1> QED
  BY <1>1, InvAlways, PTL DEF Spec, CompletionIsFinal

-----------------------------------------------------------------------------
(* The store as a board: what the holder of the lock is bringing the files  *)
(* to.  The two lists of links agree, and every operation of TaskStore is   *)
(* one step of TaskBoard.                                                   *)

(* Owners: what update_task does to them. *)

LEMMA EditedOwner ==
  ASSUME NEW f \in [Ids -> Task], NEW t \in Ids, NEW c \in Call, NEW i \in Ids
  PROVE  Edited(Linked(f, t, c), t, c)[i].owner =
           IF i = t /\ c.owner # Keep THEN c.owner ELSE f[i].owner
<1> DEFINE b == f[i].blocks \union (IF i = t THEN c.addBlocks
                                    ELSE IF i \in c.addBlockedBy THEN {t} ELSE {})
           w == f[i].blockedBy \union (IF i = t THEN c.addBlockedBy
                                       ELSE IF i \in c.addBlocks THEN {t} ELSE {})
           L == Linked(f, t, c)
<1>1. L \in [Ids -> Task]
  BY LinkedType
<1>2. L[i].owner = f[i].owner
  <2>1. L[i] = [f[i] EXCEPT !.blocks = b, !.blockedBy = w]
    BY DEF Linked
  <2> HIDE DEF b, w, L
  <2> QED
    BY <2>1 DEF Task
<1> HIDE DEF L
<1>3. CASE i = t
  <2> DEFINE o == IF c.owner = Keep THEN L[t].owner ELSE c.owner
             p == IF c.parent = NoTask THEN L[t].parent ELSE c.parent
             s == IF c.status \in Status THEN c.status ELSE L[t].status
  <2>1. Edited(L, t, c)[t] = [L[t] EXCEPT !.owner = o, !.parent = p, !.status = s]
    BY <1>1 DEF Edited
  <2>2. L[t] \in Task
    BY <1>1
  <2> HIDE DEF o, p, s
  <2>3. Edited(L, t, c)[t].owner = o
    BY <2>1, <2>2 DEF Task
  <2> QED
    BY <1>2, <1>3, <2>3 DEF o, L
<1>4. CASE i # t
  BY <1>1, <1>2, <1>4 DEF Edited, L
<1> QED
  BY <1>3, <1>4

LEMMA AfterOwner ==
  ASSUME NEW f \in [Ids -> Task], NEW t \in Ids, NEW c \in Call, NEW i \in Ids
  PROVE  After(f, t, c)[i].owner =
           IF i = t /\ c.status = "deleted" THEN NoOwner
           ELSE IF i = t /\ c.owner # Keep THEN c.owner ELSE f[i].owner
<1> DEFINE E == Edited(Linked(f, t, c), t, c)
<1>1. E \in [Ids -> Task]
  BY LinkedType, EditedType
<1>2. E[i].owner = IF i = t /\ c.owner # Keep THEN c.owner ELSE f[i].owner
  BY EditedOwner
<1> HIDE DEF E
<1>3. CASE c.status = "deleted"
  <2>1. After(f, t, c) = Erased(E, t)
    BY <1>3 DEF After, E
  <2>2. CASE i = t
    <3>1. Erased(E, t)[i] = Absent
      BY <2>2 DEF Erased
    <3> QED
      BY <1>3, <2>1, <2>2, <3>1 DEF Absent
  <2>3. CASE i # t
    <3>1. Erased(E, t)[i] =
            [E[i] EXCEPT !.blocks = @ \ {t}, !.blockedBy = @ \ {t},
                         !.parent = IF @ = t THEN NoTask ELSE @]
      BY <2>3 DEF Erased
    <3>2. Erased(E, t)[i].owner = E[i].owner
      BY <1>1, <3>1 DEF Task
    <3> QED
      BY <1>2, <2>1, <2>3, <3>2
  <2> QED
    BY <2>2, <2>3
<1>4. CASE c.status # "deleted"
  <2>1. After(f, t, c) = IF c.status = "completed" THEN Unblocked(E, t) ELSE E
    BY <1>4 DEF After, E
  <2>2. After(f, t, c)[i].owner = E[i].owner
    BY <1>1, <2>1 DEF Unblocked, Task
  <2> QED
    BY <1>2, <1>4, <2>2
<1> QED
  BY <1>3, <1>4

-----------------------------------------------------------------------------
(* The invariant of what is being written. *)

\* Who waits is listed by the one waited for, and a task that is not completed
\* is waited for by all it lists.
Mirrored(f) ==
  \A i, j \in Files(f) :
     /\ j \in f[i].blockedBy => i \in f[j].blocks
     /\ i \in f[j].blocks /\ f[j].status # "completed" => j \in f[i].blockedBy

\* A file that does not exist has no owner and waits for nothing.
Blank(f) ==
  \A i \in Ids : f[i].status = "absent" => f[i].owner = NoOwner /\ f[i].blockedBy = {}

BoardInv ==
  /\ StoreInv
  /\ Blank(disk)
  /\ Blank(goal)
  /\ crashes = 0 => Mirrored(goal) /\ Torn(disk) = {} /\ Torn(goal) = {}

\* An update links both sides and, when it completes or deletes the task, takes
\* it off again where the rule says so.
LEMMA UpdateMirrored ==
  ASSUME NEW f \in [Ids -> Task], NEW t \in Files(f), NEW c \in Call, Valid(f, t, c),
         Mirrored(f)
  PROVE  Mirrored(After(f, t, c))
<1> DEFINE E == Edited(Linked(f, t, c), t, c)
           h == After(f, t, c)
<1>0. t \in Ids
  BY DEF Files
<1>1. /\ Files(h) \subseteq Files(f)
      /\ Files(f) \subseteq Ids
      /\ c.status = "deleted" => t \notin Files(h)
  BY UpdateFiles DEF Files
<1>2. t \notin c.addBlocks /\ t \notin c.addBlockedBy
  BY DEF Valid
<1>3. ASSUME NEW i \in Files(h), NEW j \in Files(h)
      PROVE  /\ h[i].blockedBy \subseteq E[i].blockedBy
             /\ j \in E[i].blockedBy => i \in E[j].blocks
             /\ i \in h[j].blocks => i \in E[j].blocks
             /\ i \in E[j].blocks => i \in h[j].blocks
             /\ i \in E[j].blocks /\ f[j].status # "completed" => j \in E[i].blockedBy
  <2>1. /\ i \in Ids /\ j \in Ids /\ i \in Files(f) /\ j \in Files(f)
    BY <1>1
  <2>2. /\ E[i].blockedBy = f[i].blockedBy \union
              (IF i = t THEN c.addBlockedBy ELSE IF i \in c.addBlocks THEN {t} ELSE {})
        /\ E[j].blocks = f[j].blocks \union
              (IF j = t THEN c.addBlocks ELSE IF j \in c.addBlockedBy THEN {t} ELSE {})
    BY <1>0, <2>1, EditedFields
  <2>3. /\ j \in f[i].blockedBy => i \in f[j].blocks
        /\ i \in f[j].blocks /\ f[j].status # "completed" => j \in f[i].blockedBy
    BY <2>1 DEF Mirrored
  <2>4. h[i].blockedBy \subseteq E[i].blockedBy
    BY <1>0, <2>1, AfterShrinks
  <2>5. h[j].blocks = IF c.status = "deleted" THEN E[j].blocks \ {t} ELSE E[j].blocks
    <3>1. CASE c.status = "deleted"
      <4>1. j # t
        BY <1>1, <3>1
      <4>2. IF j = t THEN h[j] = Absent
            ELSE /\ h[j].blocks = E[j].blocks \ {t}
                 /\ h[j].blockedBy = E[j].blockedBy \ {t}
                 /\ h[j].parent = IF E[j].parent = t THEN NoTask ELSE E[j].parent
                 /\ h[j].status = E[j].status
        BY <1>0, <2>1, <3>1, ErasedFields
      <4> HIDE DEF h, E
      <4> QED
        BY <3>1, <4>1, <4>2
    <3>2. CASE c.status # "deleted"
      <4>1. /\ h[j].blocks = E[j].blocks
            /\ h[j].blockedBy = IF c.status = "completed" /\ j # t THEN E[j].blockedBy \ {t}
                                ELSE E[j].blockedBy
            /\ h[j].parent = E[j].parent
            /\ h[j].status = E[j].status
        BY <1>0, <2>1, <3>2, KeptFields
      <4> HIDE DEF h, E
      <4> QED
        BY <3>2, <4>1
    <3> QED
      BY <3>1, <3>2
  <2>6. c.status = "deleted" => i # t
    BY <1>1
  <2> QED
    BY <1>2, <2>2, <2>3, <2>4, <2>5, <2>6
<1>4. SUFFICES ASSUME NEW i \in Files(h), NEW j \in Files(h)
               PROVE  i \in h[j].blocks /\ h[j].status # "completed" => j \in h[i].blockedBy
  BY <1>3 DEF Mirrored
<1>5. SUFFICES ASSUME i \in h[j].blocks, h[j].status # "completed"
               PROVE  j \in h[i].blockedBy
  OBVIOUS
<1>6. i \in Ids /\ j \in Ids /\ j \in Files(f)
  BY <1>1
<1>7. f[j].status # "completed"
  <2>1. f[j].status = "completed" => h[j].status \in {"completed", "absent"}
    BY <1>6, UpdateCompleted
  <2> QED
    BY <1>5, <2>1 DEF Files
<1>8. j \in E[i].blockedBy
  BY <1>3, <1>5, <1>7
<1>9. h[i].blockedBy = IF c.status = "deleted" \/ (c.status = "completed" /\ i # t)
                       THEN E[i].blockedBy \ {t} ELSE E[i].blockedBy
  <2>1. CASE c.status = "deleted"
    <3>1. i # t
      BY <1>1, <2>1
    <3>2. IF i = t THEN h[i] = Absent
          ELSE /\ h[i].blocks = E[i].blocks \ {t}
               /\ h[i].blockedBy = E[i].blockedBy \ {t}
               /\ h[i].parent = IF E[i].parent = t THEN NoTask ELSE E[i].parent
               /\ h[i].status = E[i].status
      BY <1>0, <1>6, <2>1, ErasedFields
    <3> HIDE DEF h, E
    <3> QED
      BY <2>1, <3>1, <3>2
  <2>2. CASE c.status # "deleted"
    <3>1. h[i].blockedBy = IF c.status = "completed" /\ i # t THEN E[i].blockedBy \ {t}
                           ELSE E[i].blockedBy
      BY <1>0, <1>6, <2>2, KeptFields
    <3> HIDE DEF h, E
    <3> QED
      BY <2>2, <3>1
  <2> QED
    BY <2>1, <2>2
<1>10. c.status \in {"deleted", "completed"} => j # t
  <2>1. CASE c.status = "deleted"
    BY <1>1, <2>1
  <2>2. CASE c.status = "completed"
    <3>1. h[t].status = "completed"
      <4>1. E[t].status = "completed"
        BY <1>0, <2>2, EditedFields DEF Status
      <4> QED
        BY <1>0, <2>2, <4>1, KeptFields
    <3> QED
      BY <1>5, <3>1
  <2> QED
    BY <2>1, <2>2
<1> QED
  BY <1>8, <1>9, <1>10

LEMMA UpdateBlank ==
  ASSUME NEW f \in [Ids -> Task], NEW t \in Files(f), NEW c \in Call, Valid(f, t, c),
         Blank(f)
  PROVE  Blank(After(f, t, c))
<1> DEFINE h == After(f, t, c)
           E == Edited(Linked(f, t, c), t, c)
<1>0. t \in Ids
  BY DEF Files
<1> SUFFICES ASSUME NEW i \in Ids, h[i].status = "absent"
             PROVE  h[i].owner = NoOwner /\ h[i].blockedBy = {}
  BY DEF Blank
<1>1. CASE c.status = "deleted" /\ i = t
  <2>1. IF i = t THEN h[i] = Absent
        ELSE /\ h[i].blocks = E[i].blocks \ {t}
             /\ h[i].blockedBy = E[i].blockedBy \ {t}
             /\ h[i].parent = IF E[i].parent = t THEN NoTask ELSE E[i].parent
             /\ h[i].status = E[i].status
    BY <1>0, <1>1, ErasedFields
  <2> HIDE DEF h, E
  <2>2. h[i] = Absent
    BY <1>1, <2>1
  <2> QED
    BY <2>2 DEF Absent
<1>2. CASE ~(c.status = "deleted" /\ i = t)
  <2>1. f[i].status = "absent" /\ i # t
    <3>1. i \notin Files(h)
      BY DEF Files
    <3> QED
      BY <1>2, <3>1, UpdateFiles DEF Files
  <2>2. h[i].owner = f[i].owner
    BY <1>0, <2>1, AfterOwner
  <2>3. i \notin c.addBlocks
    BY <2>1 DEF Valid, Legible, Files
  <2>4. E[i].blockedBy = f[i].blockedBy \union
              (IF i = t THEN c.addBlockedBy ELSE IF i \in c.addBlocks THEN {t} ELSE {})
    BY <1>0, EditedFields
  <2>5. h[i].blockedBy \subseteq E[i].blockedBy
    BY <1>0, AfterShrinks
  <2> HIDE DEF h, E
  <2> QED
    BY <2>1, <2>2, <2>3, <2>4, <2>5 DEF Blank
<1> QED
  BY <1>1, <1>2

\* A file that is torn leaves nothing to say about the links, for a process has
\* died.
LEMMA TornBoard ==
  ASSUME BoardInv, StoreInv', NEW i \in Ids, disk' = [disk EXCEPT ![i] = TornFile],
         goal' = disk', crashes' # 0
  PROVE  BoardInv'
<1>1. disk \in [Ids -> Task] /\ Blank(disk)
  BY DEF BoardInv, StoreInv, TypeOK
<1>2. Blank(disk')
  BY <1>1, TornType DEF Blank
<1> QED
  BY <1>2 DEF BoardInv

\* A section that writes one file either writes it, or a process died.
LEMMA OneWrite ==
  ASSUME StoreInv, NEW i \in Ids, NEW r, WriteOnly(i, r)
  PROVE  /\ goal' = disk'
         /\ \/ disk' = [disk EXCEPT ![i] = r] /\ crashes' = crashes
            \/ disk' = [disk EXCEPT ![i] = TornFile] /\ crashes' # 0
  BY MaxCrashesAssumption DEF WriteOnly, StoreInv, TypeOK

\* A claim or a pickup leaves the links alone and takes only what is not done.
LEMMA OwnerBoard ==
  ASSUME BoardInv, StoreInv', ~lock.held,
         NEW i \in Files(disk), NEW r \in Task,
         r.blocks = disk[i].blocks, r.blockedBy = disk[i].blockedBy,
         r.status \notin {"absent", "torn"}, disk[i].status = "pending", WriteOnly(i, r)
  PROVE  BoardInv'
<1>0. /\ disk \in [Ids -> Task] /\ i \in Ids /\ goal = disk
  BY FreeGoal DEF BoardInv, StoreInv, TypeOK, Files
<1>a. /\ goal' = disk'
      /\ \/ disk' = [disk EXCEPT ![i] = r] /\ crashes' = crashes
         \/ disk' = [disk EXCEPT ![i] = TornFile] /\ crashes' # 0
  BY <1>0, OneWrite DEF BoardInv
<1>b. CASE disk' = [disk EXCEPT ![i] = TornFile] /\ crashes' # 0
  BY <1>0, <1>a, <1>b, TornBoard
<1> SUFFICES ASSUME disk' = [disk EXCEPT ![i] = r], crashes' = crashes PROVE BoardInv'
  BY <1>a, <1>b
<1>1. /\ disk' = [disk EXCEPT ![i] = r] /\ goal' = disk'
  BY <1>a
<1>2. Blank(disk')
  BY <1>0, <1>1 DEF BoardInv, Blank
<1>3. Files(disk') = Files(disk) /\ Torn(disk') = Torn(disk)
  BY <1>0, <1>1 DEF Files, Torn
<1>4. \A k \in Ids : /\ disk'[k].blocks = disk[k].blocks
                     /\ disk'[k].blockedBy = disk[k].blockedBy
                     /\ disk'[k].status # "completed" => disk[k].status # "completed"
  BY <1>0, <1>1
<1>5. Mirrored(disk) => Mirrored(disk')
  BY <1>3, <1>4 DEF Mirrored, Files
<1> QED
  BY <1>0, <1>1, <1>2, <1>3, <1>5 DEF BoardInv

LEMMA BoardInvStep == BoardInv /\ [Next]_vars => BoardInv'
<1> SUFFICES ASSUME BoardInv, [Next]_vars PROVE BoardInv'
  OBVIOUS
<1>0. /\ StoreInv /\ StoreInv'
      /\ disk \in [Ids -> Task] /\ goal \in [Ids -> Task]
      /\ disk' \in [Ids -> Task] /\ goal' \in [Ids -> Task]
      /\ crashes \in Nat
  <2>1. StoreInv /\ StoreInv'
    BY InvStep DEF BoardInv
  <2> QED
    BY <2>1, MaxCrashesAssumption DEF StoreInv, TypeOK
<1>1. ASSUME NEW i \in Ids, NEW p \in NewParents, Create(i, p) PROVE BoardInv'
  <2> DEFINE r == [Absent EXCEPT !.status = "pending", !.parent = p]
  <2>1. /\ r.blocks = {} /\ r.blockedBy = {} /\ r.status = "pending"
    BY DEF Absent
  <2> HIDE DEF r
  <2>a. /\ WriteOnly(i, r) /\ goal = disk
    BY <1>0, <1>1, FreeGoal DEF Create, r
  <2>b. CASE disk' = [disk EXCEPT ![i] = TornFile] /\ goal' = disk' /\ crashes' # 0
    BY <1>0, <2>b, TornBoard
  <2> SUFFICES ASSUME disk' = [disk EXCEPT ![i] = r], goal' = disk', crashes' = crashes
               PROVE  BoardInv'
    BY <1>0, <2>a, <2>b, OneWrite
  <2>2. disk' = [disk EXCEPT ![i] = r] /\ goal' = disk' /\ goal = disk /\ crashes' = crashes
    BY <2>a
  <2>3. Blank(disk')
    BY <1>0, <2>1, <2>2 DEF Blank, BoardInv
  <2>4. Mirrored(disk) => Mirrored(disk')
    <3>1. Files(disk') = Files(disk) \union {i}
      BY <1>0, <2>1, <2>2 DEF Files
    <3>2. i \notin Files(disk)
      BY <1>1 DEF Create, IsNextId, Files, Ids
    <3>3. \A k \in Ids : /\ disk[k].blocks \subseteq Files(disk)
                         /\ disk[k].blockedBy \subseteq Files(disk)
      BY <1>0 DEF StoreInv, Refs
    <3>4. /\ \A k \in Ids \ {i} : disk'[k] = disk[k]
          /\ disk'[i] = r
      BY <1>0, <2>2
    <3>5. SUFFICES ASSUME Mirrored(disk), NEW x \in Files(disk'), NEW y \in Files(disk')
                   PROVE  /\ y \in disk'[x].blockedBy => x \in disk'[y].blocks
                          /\ x \in disk'[y].blocks /\ disk'[y].status # "completed"
                               => y \in disk'[x].blockedBy
      BY DEF Mirrored
    <3>6. x \in Ids /\ y \in Ids
      BY DEF Files
    <3>7. CASE x \in Files(disk) /\ y \in Files(disk)
      <4>1. disk'[x] = disk[x] /\ disk'[y] = disk[y]
        BY <3>2, <3>4, <3>6, <3>7
      <4> QED
        BY <3>5, <3>7, <4>1 DEF Mirrored
    <3>8. CASE x = i \/ y = i
      BY <2>1, <3>2, <3>3, <3>4, <3>6, <3>8
    <3> QED
      BY <3>1, <3>7, <3>8
  <2>5. Torn(disk') = Torn(disk)
    <3>1. disk[i].status = "absent"
      BY <1>1 DEF Create, IsNextId, Files, Ids
    <3> QED
      BY <1>0, <2>1, <2>2, <3>1 DEF Torn
  <2> QED
    BY <1>0, <2>2, <2>3, <2>4, <2>5 DEF BoardInv
<1>2. ASSUME NEW t \in Ids, NEW c \in Calls, Update(t, c) PROVE BoardInv'
  <2>1. /\ c \in Call /\ t \in Files(disk) /\ Valid(disk, t, c)
        /\ goal' = After(disk, t, c) /\ goal = disk /\ crashes' = crashes
        /\ disk' = disk
    BY <1>0, <1>2, CallsAssumption, FreeGoal DEF Update, Legible
  <2>2. Blank(goal')
    BY <1>0, <2>1, UpdateBlank DEF BoardInv
  <2>3. Blank(disk')
    BY <2>1 DEF BoardInv
  <2>4. Mirrored(disk) => Mirrored(goal')
    BY <1>0, <2>1, UpdateMirrored
  <2>5. ASSUME NEW i \in Ids, goal'[i].status = "torn" PROVE disk[i].status = "torn"
    <3>1. goal'[i].status = Edited(Linked(disk, t, c), t, c)[i].status
      BY <1>0, <2>1, <2>5, AfterShrinks
    <3> QED
      BY <1>0, <2>1, <2>5, <3>1, EditedFields DEF Status
  <2>6. Torn(disk) = {} => Torn(goal') = {}
    BY <2>5 DEF Torn
  <2> QED
    BY <1>0, <2>1, <2>2, <2>3, <2>4, <2>6 DEF BoardInv
<1>3. ASSUME NEW a \in Agents, Reset(a) PROVE BoardInv'
  <2>1. PICK S \in SUBSET Owned(disk, a) : goal' = GivenBack(disk, S)
    BY <1>3 DEF Reset
  <2>2. goal = disk /\ disk' = disk /\ crashes' = crashes
    BY <1>0, <1>3, FreeGoal DEF Reset
  <2>3. ASSUME NEW i \in Ids
        PROVE  /\ goal'[i].blocks = disk[i].blocks
               /\ goal'[i].blockedBy = disk[i].blockedBy
               /\ goal'[i].status = "absent" <=> disk[i].status = "absent"
               /\ goal'[i].status = "completed" <=> disk[i].status = "completed"
               /\ goal'[i].status = "torn" => disk[i].status = "torn"
               /\ goal'[i].owner \in {disk[i].owner, NoOwner}
    <3>1. i \in S => disk[i].status \notin {"absent", "torn"}
      BY DEF Owned, Legible, Files, Torn
    <3> QED
      BY <1>0, <2>1, <3>1, GivenBackFields
  <2>4. Files(goal') = Files(disk)
    BY <2>3 DEF Files
  <2>5. Mirrored(disk) => Mirrored(goal')
    BY <2>3, <2>4 DEF Mirrored, Files
  <2>6. Blank(goal')
    BY <2>2, <2>3 DEF Blank, BoardInv
  <2>7. Torn(disk) = {} => Torn(goal') = {}
    BY <2>3 DEF Torn
  <2> QED
    BY <1>0, <2>2, <2>5, <2>6, <2>7 DEF BoardInv
<1>4. ASSUME NEW i \in Ids, WriteFile(i) PROVE BoardInv'
  <2>1. /\ \A k \in Ids : disk'[k] \in {disk[k], goal[k]}
        /\ goal' = goal /\ crashes' = crashes
    BY <1>0, <1>4 DEF WriteFile
  <2>2. Blank(disk') /\ Blank(goal')
    BY <2>1 DEF BoardInv, Blank
  <2>3. Torn(disk) = {} /\ Torn(goal) = {} => Torn(disk') = {} /\ Torn(goal') = {}
    BY <2>1 DEF Torn
  <2> QED
    BY <1>0, <2>1, <2>2, <2>3 DEF BoardInv
<1>5. CASE Release
  BY <1>0, <1>5 DEF Release, BoardInv
<1>6. CASE Crash
  <2>1. goal' = disk' /\ crashes' # 0
    BY <1>0, <1>6 DEF Crash
  <2>2. disk' = disk \/ \E i \in Ids : disk' = [disk EXCEPT ![i] = TornFile]
    BY <1>0, <1>6 DEF Crash, Writable, StoreInv, TypeOK, Lock
  <2>3. CASE disk' = disk
    BY <1>0, <2>1, <2>3 DEF BoardInv
  <2> QED
    BY <1>0, <2>1, <2>2, <2>3, TornBoard
<1>7. ASSUME NEW a \in Agents, NEW t \in Ids, Claim(a, t) PROVE BoardInv'
  <2> DEFINE r == [disk[t] EXCEPT !.status = "in_progress", !.owner = a]
  <2>1. /\ t \in Files(disk) /\ ~lock.held /\ WriteOnly(t, r)
        /\ disk[t].status = "pending" /\ disk[t] \in Task
    BY <1>0, <1>7 DEF Claim, Files
  <2>2. /\ r.blocks = disk[t].blocks /\ r.blockedBy = disk[t].blockedBy
        /\ r.status \notin {"absent", "torn"} /\ r \in Task
    BY <2>1, FieldTypes DEF Status, Task
  <2> HIDE DEF r
  <2> QED
    BY <1>0, <2>1, <2>2, OwnerBoard
<1>8. ASSUME NEW p \in pickups, AssignNext(p) \/ AssignFails(p) PROVE BoardInv'
  <2>1. CASE UNCHANGED <<disk, goal, lock, crashes>>
    BY <1>0, <2>1 DEF BoardInv
  <2>2. ASSUME ~lock.held, NEW i \in Assignable(disk, p),
               WriteOnly(i, [disk[i] EXCEPT !.owner = p.agent])
        PROVE  BoardInv'
    <3> DEFINE r == [disk[i] EXCEPT !.owner = p.agent]
    <3>1. /\ i \in Files(disk) /\ disk[i] \in Task /\ p.agent \in Agents
          /\ disk[i].status = "pending" /\ WriteOnly(i, r)
      BY <1>0, <2>2 DEF Assignable, Files, StoreInv, TypeOK, Pickup
    <3>2. /\ r.blocks = disk[i].blocks /\ r.blockedBy = disk[i].blockedBy
          /\ r.status \notin {"absent", "torn"} /\ r \in Task
      BY <3>1 DEF Task
    <3> HIDE DEF r
    <3> QED
      BY <1>0, <2>2, <3>1, <3>2, OwnerBoard
  <2> QED
    BY <1>8, <2>1, <2>2 DEF AssignNext, AssignFails
<1>9. CASE UNCHANGED vars
  BY <1>0, <1>9 DEF vars, BoardInv
<1> QED
  BY <1>1, <1>2, <1>3, <1>4, <1>5, <1>6, <1>7, <1>8, <1>9 DEF Next

LEMMA BoardInvAlways == Spec => []BoardInv
<1>1. Init => BoardInv
  <2> SUFFICES ASSUME Init PROVE BoardInv
    OBVIOUS
  <2>1. StoreInv
    BY InvInit
  <2>2. \A i \in Ids : /\ disk[i].status = "absent" /\ disk[i].owner = NoOwner
                       /\ disk[i].blockedBy = {}
    BY DEF Init, Absent
  <2>3. Files(disk) = {} /\ Torn(disk) = {} /\ goal = disk
    BY <2>2 DEF Files, Torn, Init
  <2> QED
    BY <2>1, <2>2, <2>3 DEF BoardInv, Blank, Mirrored
<1> QED
  BY <1>1, BoardInvStep, PTL DEF Spec

\* The two lists of links agree on disk whenever the lock is free, until a
\* process dies among its writes: update_task enters every link on both sides.
THEOREM LinksAgree == Spec => []LinksMirrored
<1>1. BoardInv => LinksMirrored
  BY FreeGoal DEF BoardInv, LinksMirrored, Mirrored
<1> QED
  BY <1>1, BoardInvAlways, PTL

-----------------------------------------------------------------------------
(* Every operation is one step of the board. *)

\* The board reads the graphs the way the store does.
LEMMA SameNoCycle == \A N, e : Board!NoCycle(N, e) <=> NoCycle(N, e)
  BY DEF Board!NoCycle, NoCycle, Board!Reach, Reach, Board!Closed, Closed

\* An update of a task that stays, whatever it edits, is one Revise.
LEMMA UpdateRevises ==
  ASSUME BoardInv, StoreInv', NEW t \in Ids, NEW c \in Calls, Update(t, c),
         c.status # "deleted"
  PROVE  Board!Revise(t)
<1> DEFINE E == Edited(Linked(disk, t, c), t, c)
<1>0. /\ disk \in [Ids -> Task] /\ goal = disk /\ t \in Files(disk)
      /\ c \in Call /\ Valid(disk, t, c) /\ goal' = After(disk, t, c)
      /\ goal' \in [Ids -> Task] /\ NoCycle(Ids, WaitEdges(disk))
  BY CallsAssumption, BothSame, FreeGoal DEF Update, BoardInv, StoreInv, TypeOK, Legible
<1>1. ASSUME NEW j \in Ids
      PROVE  /\ E[j].blockedBy = disk[j].blockedBy \union
                   (IF j = t THEN c.addBlockedBy ELSE IF j \in c.addBlocks THEN {t} ELSE {})
             /\ goal'[j].blockedBy = IF c.status = "completed" /\ j # t
                                     THEN E[j].blockedBy \ {t} ELSE E[j].blockedBy
             /\ j # t => /\ goal'[j].status = disk[j].status
                         /\ goal'[j].owner = disk[j].owner
                         /\ goal'[j].parent = disk[j].parent
             /\ goal'[j].status = IF j = t /\ c.status \in Status THEN c.status
                                  ELSE disk[j].status
  <2>1. /\ E[j].blocks = disk[j].blocks \union
              (IF j = t THEN c.addBlocks ELSE IF j \in c.addBlockedBy THEN {t} ELSE {})
        /\ E[j].blockedBy = disk[j].blockedBy \union
              (IF j = t THEN c.addBlockedBy ELSE IF j \in c.addBlocks THEN {t} ELSE {})
        /\ E[j].parent = IF j = t /\ c.parent # NoTask THEN c.parent ELSE disk[j].parent
        /\ E[j].status = IF j = t /\ c.status \in Status THEN c.status ELSE disk[j].status
    BY <1>0, EditedFields
  <2>2. /\ After(disk, t, c)[j].blocks = E[j].blocks
        /\ After(disk, t, c)[j].blockedBy =
              IF c.status = "completed" /\ j # t THEN E[j].blockedBy \ {t} ELSE E[j].blockedBy
        /\ After(disk, t, c)[j].parent = E[j].parent
        /\ After(disk, t, c)[j].status = E[j].status
    BY <1>0, KeptFields
  <2>3. j # t => After(disk, t, c)[j].owner = disk[j].owner
    BY <1>0, AfterOwner
  <2> HIDE DEF E
  <2> QED
    BY <1>0, <2>1, <2>2, <2>3
<1> HIDE DEF E
<1>2. disk[t].status \in Status /\ (c.status \in Status \/ c.status = Keep)
  <2>1. disk[t].status \notin {"absent", "torn"}
    BY DEF Update, Legible, Files, Torn
  <2> QED
    BY <1>0, <2>1 DEF Task, Call
<1>3. /\ c.status \in Status => Order[c.status] >= Order[disk[t].status]
      /\ c.status \in Status /\ c.status # "pending" =>
           \A b \in (disk[t].blockedBy \union c.addBlockedBy) \intersect Files(disk) :
              disk[b].status = "completed"
  BY <1>0 DEF Valid, StatusOk
<1>4. /\ t \notin c.addBlockedBy /\ t \notin c.addBlocks
      /\ c.addBlockedBy \subseteq Files(disk)
  BY <1>0 DEF Valid, Legible
<1>5. disk[t].blockedBy \subseteq Files(disk)
  BY DEF BoardInv, StoreInv, Refs
<1>6. t \notin disk[t].blockedBy
  <2>1. t \in Reach(Ids, WaitEdges(disk), t)
    BY ReachStart
  <2>2. t \notin WaitEdges(disk)[t]
    BY <1>0, <2>1 DEF NoCycle
  <2> QED
    BY <2>2 DEF WaitEdges
<1>7. NoCycle(Ids, WaitEdges(goal'))
  <2>1. NoCycle(Ids, Both(WaitEdges(disk'), WaitEdges(goal')))
    BY DEF StoreInv
  <2>2. \A k \in Ids : /\ WaitEdges(goal')[k] \subseteq Both(WaitEdges(disk'), WaitEdges(goal'))[k]
                       /\ Both(WaitEdges(disk'), WaitEdges(goal'))[k] \subseteq Ids
    BY DEF Both, WaitEdges, Task, StoreInv, TypeOK
  <2> QED
    BY <2>1, <2>2, NoCycleMonotone
<1>8. \A j \in Ids \ {t} : goal'[j].blockedBy \subseteq goal[j].blockedBy \union {t}
  BY <1>0, <1>1
<1>9. /\ [i \in Ids |-> goal'[i].status]
           = [[i \in Ids |-> goal[i].status] EXCEPT ![t] = [i \in Ids |-> goal'[i].status][t]]
      /\ [i \in Ids |-> goal'[i].owner]
           = [[i \in Ids |-> goal[i].owner] EXCEPT ![t] = [i \in Ids |-> goal'[i].owner][t]]
      /\ [i \in Ids |-> goal'[i].parent]
           = [[i \in Ids |-> goal[i].parent] EXCEPT ![t] = [i \in Ids |-> goal'[i].parent][t]]
      /\ [i \in Ids |-> goal[i].status][t] # "absent"
  BY <1>0, <1>1, <1>2 DEF Status
<1>10. Board!NoCycle(Ids, WaitEdges(goal'))
  BY <1>7, SameNoCycle
<1>11. \A j \in Ids : /\ WaitEdges(goal)[j] = goal[j].blockedBy
                      /\ WaitEdges(goal')[j] = goal'[j].blockedBy
                      /\ goal'[j].blockedBy \subseteq Ids
  BY <1>0 DEF WaitEdges, Task
<1>12. CASE c.status = "completed"
  <2>1. goal'[t].status = "completed"
    BY <1>1, <1>12 DEF Status
  <2>2. \A j \in Ids : goal[j].blockedBy \ {t} \subseteq goal'[j].blockedBy
    BY <1>0, <1>1
  <2>3. \A j \in Ids : t \notin goal'[j].blockedBy
    BY <1>1, <1>4, <1>6, <1>12
  <2>4. \A j \in goal'[t].blockedBy : goal[j].status = "completed"
    BY <1>0, <1>1, <1>3, <1>4, <1>5, <1>12 DEF Status
  <2> QED
    BY <1>8, <1>9, <1>10, <1>11, <2>1, <2>2, <2>3, <2>4 DEF Board!Revise
<1>13. CASE c.status # "completed"
  <2>1. <<goal[t].status, goal'[t].status>> \in
             {<<"pending", "pending">>, <<"pending", "in_progress">>,
              <<"in_progress", "in_progress">>, <<"completed", "completed">>}
    BY <1>0, <1>1, <1>2, <1>3, <1>13 DEF Status, Order, Keep
  <2>2. \A j \in Ids : goal[j].blockedBy \subseteq goal'[j].blockedBy
    BY <1>0, <1>1, <1>13
  <2> QED
    BY <1>8, <1>9, <1>10, <1>11, <2>1, <2>2 DEF Board!Revise
<1> QED
  BY <1>12, <1>13

\* A deletion is one Drop, whatever else the call asked for.
LEMMA UpdateDrops ==
  ASSUME BoardInv, NEW t \in Ids, NEW c \in Calls, Update(t, c), c.status = "deleted"
  PROVE  Board!Drop(t)
<1> DEFINE E == Edited(Linked(disk, t, c), t, c)
<1>0. /\ disk \in [Ids -> Task] /\ goal = disk /\ t \in Files(disk)
      /\ c \in Call /\ goal' = After(disk, t, c) /\ goal' \in [Ids -> Task]
  BY CallsAssumption, AfterType, FreeGoal DEF Update, BoardInv, StoreInv, TypeOK, Legible
<1>1. ASSUME NEW j \in Ids
      PROVE  /\ goal'[j].blockedBy = IF j = t THEN {} ELSE disk[j].blockedBy \ {t}
             /\ goal'[j].status = IF j = t THEN "absent" ELSE disk[j].status
             /\ goal'[j].owner = IF j = t THEN NoOwner ELSE disk[j].owner
             /\ goal'[j].parent = IF t \in {j, disk[j].parent} THEN NoTask ELSE disk[j].parent
  <2>1. /\ E[j].blocks = disk[j].blocks \union
              (IF j = t THEN c.addBlocks ELSE IF j \in c.addBlockedBy THEN {t} ELSE {})
        /\ E[j].blockedBy = disk[j].blockedBy \union
              (IF j = t THEN c.addBlockedBy ELSE IF j \in c.addBlocks THEN {t} ELSE {})
        /\ E[j].parent = IF j = t /\ c.parent # NoTask THEN c.parent ELSE disk[j].parent
        /\ E[j].status = IF j = t /\ c.status \in Status THEN c.status ELSE disk[j].status
    BY <1>0, EditedFields
  <2>2. IF j = t THEN After(disk, t, c)[j] = Absent
        ELSE /\ After(disk, t, c)[j].blocks = E[j].blocks \ {t}
             /\ After(disk, t, c)[j].blockedBy = E[j].blockedBy \ {t}
             /\ After(disk, t, c)[j].parent = IF E[j].parent = t THEN NoTask ELSE E[j].parent
             /\ After(disk, t, c)[j].status = E[j].status
    BY <1>0, ErasedFields
  <2>3. j # t => After(disk, t, c)[j].owner = disk[j].owner
    BY <1>0, AfterOwner
  <2> HIDE DEF E
  <2>4. CASE j = t
    BY <1>0, <2>2, <2>4 DEF Absent
  <2>5. CASE j # t
    BY <1>0, <2>1, <2>2, <2>3, <2>5
  <2> QED
    BY <2>4, <2>5
<1> HIDE DEF E
<1>2. [i \in Ids |-> goal[i].status][t] # "absent"
  BY <1>0 DEF Files
<1>3. /\ [i \in Ids |-> goal'[i].status]
           = [[i \in Ids |-> goal[i].status] EXCEPT ![t] = "absent"]
      /\ [i \in Ids |-> goal'[i].owner]
           = [[i \in Ids |-> goal[i].owner] EXCEPT ![t] = NoOwner]
  BY <1>0, <1>1
<1>4. WaitEdges(goal') = [j \in Ids |-> IF j = t THEN {} ELSE WaitEdges(goal)[j] \ {t}]
  BY <1>0, <1>1 DEF WaitEdges
<1>5. [i \in Ids |-> goal'[i].parent]
        = [j \in Ids |-> IF t \in {j, [i \in Ids |-> goal[i].parent][j]} THEN NoTask
                         ELSE [i \in Ids |-> goal[i].parent][j]]
  BY <1>0, <1>1
<1> QED
  BY <1>2, <1>3, <1>4, <1>5 DEF Board!Drop

\* Creation is one Post: the file that appears was blank.
LEMMA CreatePosts ==
  ASSUME BoardInv, NEW i \in Ids, NEW p \in NewParents, Create(i, p), crashes' = 0
  PROVE  Board!Post(i)
<1> DEFINE r == [Absent EXCEPT !.status = "pending", !.parent = p]
<1>1. /\ r.blockedBy = {} /\ r.status = "pending" /\ r.parent = p /\ r.owner = NoOwner
  BY DEF Absent
<1>2. /\ goal' = [goal EXCEPT ![i] = r] /\ goal = disk /\ disk \in [Ids -> Task]
      /\ ParentOk(disk, i, p) /\ p \in Ids \union {NoTask}
  BY NewParentsAssumption, OneWrite, FreeGoal DEF Create, BoardInv, StoreInv, TypeOK
<1> HIDE DEF r
<1>3. goal[i].status = "absent" /\ goal[i].owner = NoOwner /\ goal[i].blockedBy = {}
  <2>1. i \notin Files(disk)
    BY DEF Create, IsNextId, Files, Ids
  <2> QED
    BY <1>2, <2>1 DEF Files, BoardInv, Blank
<1>4. p = NoTask \/ goal[p].status # "absent"
  BY <1>2, ReachStart DEF ParentOk, Legible, Files
<1>5. p # NoTask => p \in Ids
  BY <1>2
<1>6. /\ [k \in Ids |-> goal'[k].status]
           = [[k \in Ids |-> goal[k].status] EXCEPT ![i] = "pending"]
      /\ [k \in Ids |-> goal'[k].parent]
           = [[k \in Ids |-> goal[k].parent] EXCEPT ![i] = [k \in Ids |-> goal'[k].parent][i]]
      /\ [k \in Ids |-> goal'[k].owner] = [k \in Ids |-> goal[k].owner]
      /\ [k \in Ids |-> goal'[k].parent][i] = p
  BY <1>1, <1>2, <1>3
<1>7. WaitEdges(goal') = WaitEdges(goal)
  BY <1>1, <1>2, <1>3 DEF WaitEdges
<1>8. [k \in Ids |-> goal[k].status][i] = "absent"
  BY <1>3
<1>9. p = NoTask \/ [k \in Ids |-> goal[k].status][p] # "absent"
  BY <1>4, <1>5
<1> QED
  BY <1>6, <1>7, <1>8, <1>9 DEF Board!Post

\* reset_owner_tasks is one GiveBack.
LEMMA ResetGivesBack ==
  ASSUME BoardInv, NEW a \in Agents, Reset(a), crashes' = 0
  PROVE  Board!GiveBack(a)
<1>1. goal = disk /\ disk \in [Ids -> Task] /\ Blank(disk)
  BY FreeGoal DEF Reset, BoardInv, StoreInv, TypeOK
<1>a. Torn(disk) = {}
  BY DEF Reset, BoardInv
<1>b. goal' = GivenBack(disk, Owned(disk, a))
  BY <1>a DEF Reset
<1>2. ASSUME NEW i \in Ids
      PROVE  /\ goal'[i].blockedBy = goal[i].blockedBy
             /\ goal'[i].parent = goal[i].parent
             /\ goal'[i].owner = IF goal[i].owner = a THEN NoOwner ELSE goal[i].owner
             /\ goal'[i].status = IF goal[i].owner = a /\ goal[i].status # "completed"
                                  THEN "pending" ELSE goal[i].status
  <2>1. i \in Owned(disk, a) <=> disk[i].owner = a
    BY <1>1, <1>a, NoOwnerAssumption DEF Owned, Legible, Files, Blank
  <2> QED
    BY <1>1, <1>b, <2>1, GivenBackFields
<1>3. /\ [i \in Ids |-> goal'[i].owner]
           = [i \in Ids |-> IF [k \in Ids |-> goal[k].owner][i] = a THEN NoOwner
                            ELSE [k \in Ids |-> goal[k].owner][i]]
      /\ [i \in Ids |-> goal'[i].status]
           = [i \in Ids |-> IF /\ [k \in Ids |-> goal[k].owner][i] = a
                               /\ [k \in Ids |-> goal[k].status][i] # "completed"
                            THEN "pending" ELSE [k \in Ids |-> goal[k].status][i]]
      /\ [i \in Ids |-> goal'[i].parent] = [i \in Ids |-> goal[i].parent]
  BY <1>2
<1>4. WaitEdges(goal') = WaitEdges(goal)
  BY <1>2 DEF WaitEdges
<1> QED
  BY <1>3, <1>4 DEF Board!GiveBack

\* A claim, and a pickup that finds something, is one Take.
LEMMA OwnerTakes ==
  ASSUME BoardInv, ~lock.held, NEW i \in Ids, NEW a \in Agents, NEW r \in Task,
         disk[i].status = "pending", disk[i].owner \in {NoOwner, a}, r.owner = a,
         r.status \in {"pending", "in_progress"}, r.blockedBy = disk[i].blockedBy,
         r.parent = disk[i].parent, WriteOnly(i, r), crashes' = 0
  PROVE  Board!Take(i, a)
<1>1. goal = disk /\ disk \in [Ids -> Task] /\ goal' = [disk EXCEPT ![i] = r]
  BY OneWrite, FreeGoal DEF BoardInv, StoreInv, TypeOK
<1>2. /\ [k \in Ids |-> goal'[k].owner]
           = [[k \in Ids |-> goal[k].owner] EXCEPT ![i] = a]
      /\ [k \in Ids |-> goal'[k].parent] = [k \in Ids |-> goal[k].parent]
      /\ [k \in Ids |-> goal[k].status][i] = "pending"
      /\ [k \in Ids |-> goal[k].owner][i] \in {NoOwner, a}
  BY <1>1
<1>3. [k \in Ids |-> goal'[k].status] \in
        {[k \in Ids |-> goal[k].status],
         [[k \in Ids |-> goal[k].status] EXCEPT ![i] = "in_progress"]}
  <2>1. CASE r.status = "pending"
    BY <1>1, <2>1
  <2>2. CASE r.status = "in_progress"
    BY <1>1, <2>2
  <2> QED
    BY <2>1, <2>2
<1>4. WaitEdges(goal') = WaitEdges(goal)
  BY <1>1 DEF WaitEdges
<1> QED
  BY <1>2, <1>3, <1>4 DEF Board!Take

\* The store implements the board for whoever takes its lock: update_task,
\* claim_task, reset_owner_tasks and the pickup are each one step of it, however
\* many files they write, until a process dies among those writes.
THEOREM StoreImplementsBoard == Spec => ImplementsBoard
<1>1. Init => Board!Init
  <2> SUFFICES ASSUME Init PROVE Board!Init
    OBVIOUS
  <2>1. \A i \in Ids : goal[i] = Absent
    BY DEF Init
  <2> QED
    BY <2>1 DEF Board!Init, WaitEdges, Absent
<1>2. BoardInv /\ BoardInv' /\ [Next]_vars => [crashes' = 0 => Board!Next]_(Board!vars)
  <2> SUFFICES ASSUME BoardInv, BoardInv', [Next]_vars, crashes' = 0
               PROVE  Board!Next \/ UNCHANGED Board!vars
    OBVIOUS
  <2>0. StoreInv' /\ disk \in [Ids -> Task]
    BY DEF BoardInv, StoreInv, TypeOK
  <2>1. ASSUME goal' = goal PROVE UNCHANGED Board!vars
    BY <2>1 DEF Board!vars, WaitEdges
  <2>2. ASSUME NEW i \in Ids, NEW p \in NewParents, Create(i, p) PROVE Board!Next
    BY <2>2, CreatePosts DEF Board!Next
  <2>3. ASSUME NEW t \in Ids, NEW c \in Calls, Update(t, c) PROVE Board!Next
    BY <2>0, <2>3, UpdateRevises, UpdateDrops DEF Board!Next
  <2>4. ASSUME NEW a \in Agents, Reset(a) PROVE Board!Next
    BY <2>4, ResetGivesBack DEF Board!Next
  <2>5. ~Crash
    BY MaxCrashesAssumption DEF Crash, BoardInv, StoreInv, TypeOK
  <2>6. ASSUME NEW a \in Agents, NEW t \in Ids, Claim(a, t) PROVE Board!Next
    <3> DEFINE r == [disk[t] EXCEPT !.status = "in_progress", !.owner = a]
    <3>1. /\ ~lock.held /\ WriteOnly(t, r) /\ disk[t].status = "pending"
          /\ disk[t].owner \in {NoOwner, a} /\ disk[t] \in Task
      BY <2>0, <2>6 DEF Claim
    <3>2. /\ r.blockedBy = disk[t].blockedBy /\ r.parent = disk[t].parent
          /\ r.status = "in_progress" /\ r.owner = a /\ r \in Task
      BY <3>1, FieldTypes DEF Status, Task
    <3> HIDE DEF r
    <3>3. Board!Take(t, a)
      BY <3>1, <3>2, OwnerTakes
    <3> QED
      BY <3>3 DEF Board!Next
  <2>7. ASSUME NEW p \in pickups, AssignNext(p), goal' # goal PROVE Board!Next
    <3>1. PICK i \in Assignable(disk, p) :
             WriteOnly(i, [disk[i] EXCEPT !.owner = p.agent]) /\ ~lock.held
      BY <2>7 DEF AssignNext
    <3> DEFINE r == [disk[i] EXCEPT !.owner = p.agent]
    <3>2. /\ i \in Ids /\ WriteOnly(i, r) /\ disk[i].status = "pending"
          /\ disk[i].owner = NoOwner /\ disk[i] \in Task /\ p.agent \in Agents
      BY <2>0, <3>1 DEF Assignable, BoardInv, StoreInv, TypeOK, Pickup
    <3>3. /\ r.blockedBy = disk[i].blockedBy /\ r.parent = disk[i].parent
          /\ r.status = "pending" /\ r.owner = p.agent /\ r \in Task
      BY <3>2 DEF Task
    <3> HIDE DEF r
    <3>4. Board!Take(i, p.agent)
      BY <3>1, <3>2, <3>3, OwnerTakes
    <3> QED
      BY <3>2, <3>4 DEF Board!Next
  <2> QED
    BY <2>1, <2>2, <2>3, <2>4, <2>5, <2>6, <2>7
       DEF Next, WriteFile, Release, AssignFails, vars
<1> QED
  BY <1>1, <1>2, BoardInvAlways, PTL DEF Spec, ImplementsBoard
=============================================================================
