---------------------------- MODULE MCTaskStore ----------------------------
(***************************************************************************)
(* TaskStore on two small instances, of which a behaviour picks one: three *)
(* tasks that are linked, completed and deleted while a holder of the lock *)
(* may die, and two tasks with every call there is and two agents.         *)
(***************************************************************************)
EXTENDS TaskStore

CONSTANTS a1, a2

VARIABLE plan   \* the instance

NoArgs == [status |-> Keep, owner |-> Keep, addBlocks |-> {},
           addBlockedBy |-> {}, parent |-> NoTask]
Two == {1, 2}

\* Calls that link and unlink tasks: every pair of edge lists of at most two
\* edges, alone or with a completion or a deletion.
Pairs == {p \in (SUBSET Ids) \X (SUBSET Ids) :
            Cardinality(p[1]) + Cardinality(p[2]) <= 2}

LinkCalls ==
  {[NoArgs EXCEPT !.addBlocks = p[1], !.addBlockedBy = p[2], !.status = s] :
      p \in Pairs, s \in {Keep, "completed", "deleted"}}

\* Every call on two tasks, with at most one edge.
BoardCalls ==
  {c \in [status : {Keep, "pending", "in_progress", "completed", "deleted"},
          owner : Agents \union {NoOwner, Keep}, addBlocks : SUBSET Two, addBlockedBy : SUBSET Two,
          parent : Two \union {NoTask}] :
     Cardinality(c.addBlocks) + Cardinality(c.addBlockedBy) <= 1}

MCCalls == LinkCalls \union BoardCalls
MCParents == Two \union {NoTask}

MCInit == Init /\ plan \in {"links", "board"}

LinkStep ==
  /\ plan = "links"
  /\ \/ \E i \in Ids : Create(i, NoTask)
     \/ \E t \in Ids, c \in LinkCalls : Update(t, c)
     \/ Reset(a1)
     \/ Crash

BoardStep ==
  /\ plan = "board"
  /\ \/ \E i \in Two, p \in MCParents : Create(i, p)
     \/ \E t \in Two, c \in BoardCalls : Update(t, c)
     \/ \E a \in Agents : Reset(a)
     \/ \E a \in Agents, t \in Two : Claim(a, t)
     \/ \E p \in pickups : AssignNext(p) \/ AssignFails(p)

Writes == (\E i \in Ids : WriteFile(i)) \/ Release

MCNext == (LinkStep \/ BoardStep \/ Writes) /\ UNCHANGED plan

MCSpec == MCInit /\ [][MCNext]_<<vars, plan>>
=============================================================================
