----------------------------- MODULE TaskStore -----------------------------
(***************************************************************************)
(* The task files of one team: tasks/<team>/<id>.json, written by          *)
(* claude_teams/tasks.py and by protocol_io.claim_task.  Every operation   *)
(* takes tasks/<team>/.lock, reads, validates, and then rewrites one file  *)
(* after another, each by truncating it and writing it anew; a process may *)
(* die between two of those writes, or in the middle of one and leave the  *)
(* file torn, so that nobody can parse it again.                           *)
(*                                                                         *)
(* disk is what the next holder of the lock finds; goal is what the        *)
(* present one is bringing disk to.                                        *)
(***************************************************************************)
EXTENDS Integers, FiniteSets, Reachability

CONSTANTS Agents,        \* names that may own tasks
          NoOwner,       \* owner is None (or "")
          MaxId,         \* bound: ids are 1..MaxId
          Calls,         \* bound: the argument records given to update_task
          NewParents,    \* bound: the parents given to create_task
          PickupAgents,  \* agents for which auto_pickup_next_task is on
          MaxCrashes     \* bound: processes that die holding the lock

ASSUME NoOwnerAssumption == NoOwner \notin Agents
ASSUME MaxIdAssumption == MaxId \in Nat
ASSUME MaxCrashesAssumption == MaxCrashes \in Nat
ASSUME PickupAssumption == PickupAgents \subseteq Agents

Ids == 1..MaxId
NoTask == 0
Keep == "keep"           \* an argument left at its default None

Status == {"pending", "in_progress", "completed"}
Order == [pending |-> 0, in_progress |-> 1, completed |-> 2]

\* One task file.  status "absent" stands for a file that does not exist,
\* "torn" for one that was truncated and never written to its end.
Task == [status    : Status \union {"absent", "torn"},
         owner     : Agents \union {NoOwner},
         blocks    : SUBSET Ids,
         blockedBy : SUBSET Ids,
         parent    : Ids \union {NoTask}]

Absent == [status |-> "absent", owner |-> NoOwner,
           blocks |-> {}, blockedBy |-> {}, parent |-> NoTask]
TornFile == [Absent EXCEPT !.status = "torn"]

\* The arguments of update_task that the properties tell apart.
Call == [status       : Status \union {"deleted", Keep},
         owner        : Agents \union {NoOwner, Keep},
         addBlocks    : SUBSET Ids,
         addBlockedBy : SUBSET Ids,
         parent       : Ids \union {NoTask}]

ASSUME CallsAssumption == Calls \subseteq Call
ASSUME NewParentsAssumption == NewParents \subseteq Ids \union {NoTask}

VARIABLES
  disk,      \* id -> contents of the file
  goal,      \* id -> contents once the holder of the lock has finished
  lock,      \* whether .lock is held, for which task, which files are still
             \* to be written, and who picks up next
  pickups,   \* updates that released the lock and are about to pick up
  crashes    \* bound: deaths while holding the lock so far

vars == <<disk, goal, lock, pickups, crashes>>

Free == [held |-> FALSE, task |-> NoTask, todo |-> {}, next |-> NoOwner]
Lock == {l \in [held : BOOLEAN, task : Ids \union {NoTask},
                todo : SUBSET Ids, next : Agents \union {NoOwner}] :
           l.next # NoOwner => l.task \in Ids}
Pickup == [agent : Agents, done : Ids]

TypeOK ==
  /\ disk \in [Ids -> Task]
  /\ goal \in [Ids -> Task]
  /\ lock \in Lock
  /\ pickups \subseteq Pickup
  /\ crashes \in 0..MaxCrashes

-----------------------------------------------------------------------------
(* Reading the files. *)

Files(f) == {i \in Ids : f[i].status # "absent"}
Torn(f) == {i \in Ids : f[i].status = "torn"}
Legible(f) == Files(f) \ Torn(f)

\* next_task_id: one past the largest id on disk, 1 if there is none; so an
\* id is used again once its task, the largest, has been deleted.  Only names
\* of files are looked at.
IsNextId(f, i) ==
  /\ \A j \in Files(f) : j < i
  /\ i = 1 \/ i - 1 \in Files(f)

WaitEdges(f) == [i \in Ids |-> f[i].blockedBy]
ParentEdges(f) == [i \in Ids |-> {f[i].parent} \ {NoTask}]

\* Mutant: only the direct parent is looked at.
ParentOk_Shallow(f, i, p) == p = NoTask \/ p \in Legible(f) \ {i}

\* _validate_parent_task_id: every task up the chain can be read and i is not
\* one.
ParentOk(f, i, p) ==
  p = NoTask \/ /\ i \notin Reach(Ids, ParentEdges(f), p)
                /\ Reach(Ids, ParentEdges(f), p) \subseteq Legible(f)

\* The blocked_by edges on disk together with those a call would add.
PendingEdges(f, t, c) ==
  [i \in Ids |-> f[i].blockedBy
                 \union (IF i = t THEN c.addBlockedBy ELSE {})
                 \union (IF i \in c.addBlocks THEN {t} ELSE {})]

\* Mutant: the search sees the edges on disk and not those of the same call.
CreatesCycle_OnDisk(f, t, c) ==
  \/ \E b \in c.addBlocks : b \in Reach(Ids, WaitEdges(f), t)
  \/ \E b \in c.addBlockedBy : t \in Reach(Ids, WaitEdges(f), b)

\* _would_create_cycle, for every edge the call would add.
CreatesCycle(f, t, c) ==
  LET e == PendingEdges(f, t, c) IN
  \/ \E b \in c.addBlocks : b \in Reach(Ids, e, t)
  \/ \E b \in c.addBlockedBy : t \in Reach(Ids, e, b)

\* No search of _would_create_cycle runs into a file it cannot parse.
SearchOk(f, t, c) ==
  LET e == PendingEdges(f, t, c) IN
  \A s \in c.addBlockedBy \union (IF c.addBlocks = {} THEN {} ELSE {t}) :
     Reach(Ids, e, s) \intersect Torn(f) = {}

\* The status rule: never backwards, and not started or finished while a
\* blocker that still exists is not completed.
StatusOk(f, t, c) ==
  c.status \in Status =>
    /\ Order[c.status] >= Order[f[t].status]
    /\ c.status # "pending" =>
         \A b \in (f[t].blockedBy \union c.addBlockedBy) \intersect Files(f) :
            f[b].status = "completed"

\* Phase 2 of update_task, and the reads of phase 3: a call that fails them
\* raises and writes nothing.  The files it links are read, and those of all
\* other tasks when it completes or deletes one.
Valid(f, t, c) ==
  /\ t \notin c.addBlocks \union c.addBlockedBy
  /\ c.addBlocks \union c.addBlockedBy \subseteq Legible(f)
  /\ c.status \in {"completed", "deleted"} => Torn(f) = {}
  /\ SearchOk(f, t, c)
  /\ ~CreatesCycle(f, t, c)
  /\ ParentOk(f, t, c.parent)
  /\ StatusOk(f, t, c)

-----------------------------------------------------------------------------
(* Phase 3 of update_task, in memory. *)

\* Mutant: the links are entered in the updated task only.
Linked_OneSided(f, t, c) ==
  [f EXCEPT ![t].blocks = @ \union c.addBlocks,
            ![t].blockedBy = @ \union c.addBlockedBy]

\* The links of the call, entered on both sides.
Linked(f, t, c) ==
  [i \in Ids |->
     [f[i] EXCEPT
        !.blocks = @ \union (IF i = t THEN c.addBlocks
                             ELSE IF i \in c.addBlockedBy THEN {t} ELSE {}),
        !.blockedBy = @ \union (IF i = t THEN c.addBlockedBy
                                ELSE IF i \in c.addBlocks THEN {t} ELSE {})]]

\* The fields of the task itself.
Edited(f, t, c) ==
  [f EXCEPT ![t].owner = IF c.owner = Keep THEN @ ELSE c.owner,
            ![t].parent = IF c.parent = NoTask THEN @ ELSE c.parent,
            ![t].status = IF c.status \in Status THEN c.status ELSE @]

\* Completing a task takes it off the blocked_by of every other task.
Unblocked(f, t) ==
  [i \in Ids |-> IF i = t THEN f[i]
                 ELSE [f[i] EXCEPT !.blockedBy = @ \ {t}]]

\* Deleting a task takes it out of every other file, then the file goes.
Erased(f, t) ==
  [i \in Ids |-> IF i = t THEN Absent
                 ELSE [f[i] EXCEPT !.blocks = @ \ {t},
                                   !.blockedBy = @ \ {t},
                                   !.parent = IF @ = t THEN NoTask ELSE @]]

After(f, t, c) ==
  LET g == Edited(Linked(f, t, c), t, c) IN
  CASE c.status = "completed" -> Unblocked(g, t)
    [] c.status = "deleted"   -> Erased(g, t)
    [] OTHER                  -> g

-----------------------------------------------------------------------------
(* The loop of reset_owner_tasks, in memory. *)

Owned(f, a) == {i \in Legible(f) : f[i].owner = a}

\* Mutant: completed tasks are reset too.
GivenBack_Completed(f, S) ==
  [i \in Ids |-> IF i \notin S THEN f[i]
                 ELSE [f[i] EXCEPT !.owner = NoOwner, !.status = "pending"]]

\* The tasks of S lose their owner, and unless completed they start anew.
GivenBack(f, S) ==
  [i \in Ids |-> IF i \notin S THEN f[i]
                 ELSE [f[i] EXCEPT
                         !.owner = NoOwner,
                         !.status = IF @ = "completed" THEN @ ELSE "pending"]]

-----------------------------------------------------------------------------
Init ==
  /\ disk = [i \in Ids |-> Absent]
  /\ goal = disk
  /\ lock = Free
  /\ pickups = {}
  /\ crashes = 0

\* A section that writes a single file: nobody who takes the lock sees it half
\* done, unless the process dies (or the disk is full) after the file was
\* truncated.
WriteOnly(i, r) ==
  /\ \/ /\ disk' = [disk EXCEPT ![i] = r]
        /\ UNCHANGED crashes
     \/ /\ crashes < MaxCrashes
        /\ crashes' = crashes + 1
        /\ disk' = [disk EXCEPT ![i] = TornFile]
  /\ goal' = disk'
  /\ UNCHANGED lock

\* create_task.
Create(i, p) ==
  /\ ~lock.held
  /\ IsNextId(disk, i)
  /\ ParentOk(disk, i, p)
  /\ WriteOnly(i, [Absent EXCEPT !.status = "pending", !.parent = p])
  /\ UNCHANGED pickups

\* The owner for whom update_task picks up the next task once it has released
\* the lock: only when this call completed the task.
NextFor(f, g, t) ==
  IF f[t].status # "completed" /\ g[t].status = "completed"
     /\ g[t].owner \in PickupAgents
  THEN g[t].owner ELSE NoOwner

\* update_task up to phase 4.  The files of linked tasks are written again
\* though the link may have been there.
Update(t, c) ==
  /\ ~lock.held
  /\ t \in Legible(disk)
  /\ Valid(disk, t, c)
  /\ goal' = After(disk, t, c)
  /\ lock' = [held |-> TRUE, task |-> t,
              todo |-> {t} \union c.addBlocks \union c.addBlockedBy
                           \union {i \in Ids : goal'[i] # disk[i]},
              next |-> NextFor(disk, goal', t)]
  /\ UNCHANGED <<disk, pickups, crashes>>

\* reset_owner_tasks: each file is read and, if the task is owned, written.  A
\* file that cannot be parsed ends it, after those the directory listed first.
Reset(a) ==
  /\ ~lock.held
  /\ \E S \in SUBSET Owned(disk, a) :
        /\ Torn(disk) = {} => S = Owned(disk, a)
        /\ goal' = GivenBack(disk, S)
        /\ lock' = [held |-> TRUE, task |-> NoTask, todo |-> S, next |-> NoOwner]
  /\ UNCHANGED <<disk, pickups, crashes>>

\* Mutant: a deleted task may be unlinked before the other files are written.
Writable_UnlinkFirst == lock.todo

\* The files that may be written next: in any order, except that a task that
\* was updated comes first and the unlink of a deleted one last.
Writable ==
  {i \in lock.todo :
     /\ i # lock.task /\ lock.task \in lock.todo => goal[lock.task].status = "absent"
     /\ goal[i].status = "absent" => lock.todo = {i}}

\* The next file of phase 4 (or of reset_owner_tasks).
WriteFile(i) ==
  /\ i \in Writable
  /\ disk' = [disk EXCEPT ![i] = goal[i]]
  /\ lock' = [lock EXCEPT !.todo = @ \ {i}]
  /\ UNCHANGED <<goal, pickups, crashes>>

\* The lock is released; update_task goes on to the auto-pickup.
Release ==
  /\ lock.held
  /\ lock.todo = {}
  /\ lock' = Free
  /\ pickups' = IF lock.next = NoOwner THEN pickups
                ELSE pickups \union
                  {[agent |-> lock.next, done |-> lock.task]}
  /\ UNCHANGED <<disk, goal, crashes>>

\* The process that holds the lock dies between two writes, or in one that had
\* truncated its file (an unlink leaves nothing torn): the operating system
\* releases the lock, the files stay as they are.
Crash ==
  /\ lock.held
  /\ crashes < MaxCrashes
  /\ crashes' = crashes + 1
  /\ lock' = Free
  /\ \/ UNCHANGED disk
     \/ \E i \in Writable :
          /\ goal[i].status # "absent"
          /\ disk' = [disk EXCEPT ![i] = TornFile]
  /\ goal' = disk'
  /\ UNCHANGED pickups

\* Mutant: the task is not read again; it is pending in the list it came from.
Claim_Listed(a, t) ==
  /\ ~lock.held
  /\ t \in Legible(disk)
  /\ disk[t].owner \in {NoOwner, a}
  /\ WriteOnly(t, [disk[t] EXCEPT !.status = "in_progress", !.owner = a])
  /\ UNCHANGED pickups

\* claim_task: compare-and-set on status and owner.  blocked_by is not read.
\* A torn file raises, as a task that is not pending does.
Claim(a, t) ==
  /\ ~lock.held
  /\ disk[t].status = "pending"
  /\ disk[t].owner \in {NoOwner, a}
  /\ WriteOnly(t, [disk[t] EXCEPT !.status = "in_progress", !.owner = a])
  /\ UNCHANGED pickups

\* What _assign_next_unblocked_unclaimed_task may hand out.
Assignable(f, p) ==
  {i \in Ids : /\ i # p.done
               /\ f[i].status = "pending"
               /\ f[i].owner = NoOwner
               /\ \A b \in f[i].blockedBy : f[b].status \in {"completed", "absent"}}

\* _assign_next_unblocked_unclaimed_task, in a section of its own: the lowest
\* id that is free to take, if there is one.  Every file is parsed first.
AssignNext(p) ==
  /\ ~lock.held
  /\ Torn(disk) = {}
  /\ pickups' = pickups \ {p}
  /\ \/ /\ Assignable(disk, p) = {}
        /\ UNCHANGED <<disk, goal, lock, crashes>>
     \/ \E i \in Assignable(disk, p) :
          /\ \A j \in Assignable(disk, p) : i <= j
          /\ WriteOnly(i, [disk[i] EXCEPT !.owner = p.agent])

\* The assignment raises (a lock timeout, a torn file), which is logged and
\* swallowed.
AssignFails(p) ==
  /\ pickups' = pickups \ {p}
  /\ UNCHANGED <<disk, goal, lock, crashes>>

Next ==
  \/ \E i \in Ids, p \in NewParents : Create(i, p)
  \/ \E t \in Ids, c \in Calls : Update(t, c)
  \/ \E a \in Agents : Reset(a)
  \/ \E i \in Ids : WriteFile(i)
  \/ Release
  \/ Crash
  \/ \E a \in Agents, t \in Ids : Claim(a, t)
  \/ \E p \in pickups : AssignNext(p) \/ AssignFails(p)

Spec == Init /\ [][Next]_vars
-----------------------------------------------------------------------------
(* What holds of the files. *)

\* A file names only tasks whose file exists, whatever has crashed between
\* which two writes: an id can be used again, and a reference left behind by a
\* deleted task would bind the new one.
NoDangling ==
  \A i \in Files(disk) :
     /\ disk[i].blocks \union disk[i].blockedBy \subseteq Files(disk)
     /\ disk[i].parent \in Files(disk) \union {NoTask}

\* Tasks never wait for each other in a circle, on disk at any instant: not
\* between two writes, not after a crash, not after any series of updates.
NoCircularWait == NoCycle(Ids, WaitEdges(disk))

\* Parent chains end: a batch always has one root.
ParentsEnd == NoCycle(Ids, ParentEdges(disk))

\* As long as nothing died in the middle of its writes, the two lists agree
\* whenever the lock is free: who waits is listed by the one waited for, and a
\* task that is not completed is waited for by all it lists.
LinksMirrored ==
  crashes = 0 /\ ~lock.held =>
    \A i, j \in Files(disk) :
       /\ j \in disk[i].blockedBy => i \in disk[j].blocks
       /\ i \in disk[j].blocks /\ disk[j].status # "completed"
            => j \in disk[i].blockedBy

\* A completed task stays completed until its file is deleted, or lost to a
\* process that died writing it, although a reset, a claim, a pickup or an
\* update with an older status may follow; a lost file stays lost.
CompletionIsFinal ==
  [][\A i \in Ids :
       /\ disk[i].status = "completed"
            => disk'[i].status \in {"completed", "absent", "torn"}
       /\ disk[i].status = "torn" => disk'[i].status = "torn"]_vars
-----------------------------------------------------------------------------
(* The invariant that the writes, taken one by one, preserve. *)

Refs(f, i) == f[i].blocks \union f[i].blockedBy \union ParentEdges(f)[i]

\* What is on disk together with what the lock holder still has to write.
Both(d, g) == [i \in Ids |-> d[i] \union g[i]]

StoreInv ==
  /\ TypeOK
  /\ ~lock.held => lock.todo = {}
  /\ \A i \in Ids \ lock.todo : goal[i] = disk[i]
  /\ Files(goal) \subseteq Files(disk)
  /\ \A i \in Ids : Refs(disk, i) \subseteq Files(disk)
  /\ \A i \in Ids : Refs(goal, i) \subseteq Files(goal)
  /\ NoCycle(Ids, Both(WaitEdges(disk), WaitEdges(goal)))
  /\ NoCycle(Ids, Both(ParentEdges(disk), ParentEdges(goal)))
  /\ \A i \in Ids : /\ disk[i].status = "completed"
                          => goal[i].status \in {"completed", "absent"}
                    /\ disk[i].status = "torn" => goal[i].status = "torn"

-----------------------------------------------------------------------------
(* The store as a board: what the lock holder is about to have written. *)

Board == INSTANCE TaskBoard WITH
  status <- [i \in Ids |-> goal[i].status],
  owner  <- [i \in Ids |-> goal[i].owner],
  waits  <- WaitEdges(goal),
  parent <- [i \in Ids |-> goal[i].parent]

\* Whoever takes the lock sees every operation as one step of the board,
\* whatever the order of the writes, until a holder dies among them.
ImplementsBoard == Board!Init /\ [][crashes' = 0 => Board!Next]_(Board!vars)
=============================================================================
