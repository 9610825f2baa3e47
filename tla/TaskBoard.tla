----------------------------- MODULE TaskBoard -----------------------------
(***************************************************************************)
(* What the task store of claude_teams/tasks.py promises to everyone who   *)
(* takes its lock: a board of tasks, each waiting for a set of others.     *)
(* There are no files, no lists kept on two sides and no order of writes:  *)
(* every operation is one step.                                            *)
(***************************************************************************)
EXTENDS Integers, Reachability

CONSTANTS Agents, NoOwner, Ids, NoTask

VARIABLES status,   \* id -> "absent" or where the task stands
          owner,    \* id -> the agent it belongs to
          waits,    \* id -> the tasks it waits for
          parent    \* id -> the task it was split off from

vars == <<status, owner, waits, parent>>

Init ==
  /\ status = [i \in Ids |-> "absent"]
  /\ owner = [i \in Ids |-> NoOwner]
  /\ waits = [i \in Ids |-> {}]
  /\ parent = [i \in Ids |-> NoTask]

\* A task that waits for nothing and that nobody owns appears.
Post(i) ==
  /\ status[i] = "absent"
  /\ status' = [status EXCEPT ![i] = "pending"]
  /\ parent' = [parent EXCEPT ![i] = parent'[i]]
  /\ parent'[i] = NoTask \/ status[parent'[i]] # "absent"
  /\ UNCHANGED <<owner, waits>>

\* A task changes hands, gets a parent, or new waits on either side of it;
\* its status does not go back, and it finishes only after all it waits for,
\* which from then on holds up nobody.
Revise(i) ==
  /\ status[i] # "absent"
  /\ status' = [status EXCEPT ![i] = status'[i]]
  /\ owner' = [owner EXCEPT ![i] = owner'[i]]
  /\ parent' = [parent EXCEPT ![i] = parent'[i]]
  /\ \A j \in Ids \ {i} : waits'[j] \subseteq waits[j] \union {i}
  /\ NoCycle(Ids, waits')
  /\ \/ /\ status'[i] = "completed"
        /\ \A j \in Ids : waits[j] \ {i} \subseteq waits'[j]
        /\ \A j \in Ids : i \notin waits'[j]
        /\ \A j \in waits'[i] : status[j] = "completed"
     \/ /\ <<status[i], status'[i]>> \in
             {<<"pending", "pending">>, <<"pending", "in_progress">>,
              <<"in_progress", "in_progress">>, <<"completed", "completed">>}
        /\ \A j \in Ids : waits[j] \subseteq waits'[j]

\* A task goes, and every trace of it.
Drop(i) ==
  /\ status[i] # "absent"
  /\ status' = [status EXCEPT ![i] = "absent"]
  /\ owner' = [owner EXCEPT ![i] = NoOwner]
  /\ waits' = [j \in Ids |-> IF j = i THEN {} ELSE waits[j] \ {i}]
  /\ parent' = [j \in Ids |-> IF i \in {j, parent[j]} THEN NoTask ELSE parent[j]]

\* An agent takes a pending task that nobody else owns, to start it now or later.
Take(i, a) ==
  /\ status[i] = "pending"
  /\ owner[i] \in {NoOwner, a}
  /\ owner' = [owner EXCEPT ![i] = a]
  /\ status' \in {status, [status EXCEPT ![i] = "in_progress"]}
  /\ UNCHANGED <<waits, parent>>

\* Everything an agent owns is given back, unfinished work as pending.
GiveBack(a) ==
  /\ owner' = [i \in Ids |-> IF owner[i] = a THEN NoOwner ELSE owner[i]]
  /\ status' = [i \in Ids |-> IF owner[i] = a /\ status[i] # "completed"
                              THEN "pending" ELSE status[i]]
  /\ UNCHANGED <<waits, parent>>

Next == \/ \E i \in Ids : Post(i) \/ Revise(i) \/ Drop(i)
        \/ \E i \in Ids, a \in Agents : Take(i, a)
        \/ \E a \in Agents : GiveBack(a)

Spec == Init /\ [][Next]_vars
=============================================================================
