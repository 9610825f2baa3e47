-------------------------------- MODULE Tools --------------------------------
(***************************************************************************)
(* The tools that a model calls in its wrapper server (wrapper_server.py): *)
(* each call is reported, then runs against the inboxes and the task store *)
(* that all teammates share, one locked operation at a time, and its end   *)
(* is reported.  Between two operations others go on, and the process may  *)
(* be killed with its turn.  What a failed call has done so far stays.     *)
(*                                                                         *)
(* An inbox is the set of the messages nobody has read.  Of a task there   *)
(* is its owner and the task it is a part of: what a status may become, and*)
(* what else update_task refuses, is TaskStore's subject, here it may fail.*)
(***************************************************************************)
EXTENDS Naturals, FiniteSets, Reachability

CONSTANTS Agents, Lead,
          Tasks,     \* the ids of tasks, 1..n
          None,      \* no task, nobody
          MaxKids,   \* bound: the children of a summary
          MaxCalls,  \* bound: calls of tools
          MaxMoves   \* bound: what the lead and other processes do meanwhile

VARIABLES
  policy,   \* agent -> whether the peer it is takes steers from peers, as its card
            \* declares, or that it is not in config.json: "yes", "no", "away"
  cards,    \* agent -> peer -> what the card cached by its wrapper says, or "none"
  box,      \* name -> unread messages
  task,     \* id -> whether it is there, owner, parent
  call,     \* agent -> the call its wrapper runs
  calls, moves

team == <<policy, cards>>
vars == <<team, box, task, call, calls, moves>>

Names == Agents \union {Lead}
Members == {a \in Agents : policy[a] # "away"}
Gone == [there |-> FALSE, owner |-> None, parent |-> None]
Part(p) == [there |-> TRUE, owner |-> None, parent |-> p]

\* tool, its step, whom or which tasks it has still to deal with, the kind of
\* the message, which task it is about, and the child it is about to link.
Idle == [tool |-> "none", step |-> "idle", left |-> {}, kind |-> "none",
         of |-> None, child |-> None]
Made(tool, left, kind, of) ==
  [tool |-> tool, step |-> "go", left |-> left, kind |-> kind, of |-> of, child |-> None]

Everybody == {"*"}
Sends == {Made("send_message", to, kind, None) :
            to \in {{n} : n \in Names} \union {Everybody}, kind \in {"note", "steer"}}
Asks == {Made("capability_manifest", {b}, "none", None) : b \in Agents}
Updates == {Made("task_update", {}, "none", t) : t \in Tasks}
Batches == {Made("task_batch_summary", kids, "none", t) :
              kids \in {S \in SUBSET Tasks : Cardinality(S) \in 1..MaxKids}, t \in Tasks}
Others == {Made(tool, {}, "none", None) : tool \in {"task_create", "read_inbox", "other"}}

\* load_startup: the cards of who is in the file.
Loaded(a) == [b \in Agents |-> IF b \in Members \ {a} THEN policy[b] ELSE "none"]

Init ==
  /\ policy \in [Agents -> {"yes", "no"}] /\ cards = [a \in Agents |-> Loaded(a)]
  /\ box = [n \in Names |-> {}]
  /\ \E n \in Tasks : task = [t \in Tasks |-> IF t <= n THEN Part(None) ELSE Gone]
  /\ call = [a \in Agents |-> Idle]
  /\ calls = 0 /\ moves = 0

-----------------------------------------------------------------------------
(* instrumented_tool                                                       *)

Begin(a) ==
  /\ call[a] = Idle /\ calls < MaxCalls /\ calls' = calls + 1
  /\ \E made \in {Sends, Asks, Updates, Batches, Others} : \E c \in made :
       call' = [call EXCEPT ![a] = c]
  /\ UNCHANGED <<team, box, task, moves>>

At(a, tool, step) == call[a].tool = tool /\ call[a].step = step
Goes(a, c) == call' = [call EXCEPT ![a] = c] /\ UNCHANGED box
Done(a) == Goes(a, Idle)

Tell(a, what) == box' = [box EXCEPT ![Lead] = @ \union {[from |-> a, kind |-> what]}]

\* The lead is told of a failure, and of a refusal in words of its own.
Fails(a) == call' = [call EXCEPT ![a] = Idle] /\ Tell(a, "failed")
Refuses(a) == call' = [call EXCEPT ![a] = Idle] /\ Tell(a, "refused")

-----------------------------------------------------------------------------
(* send_message                                                            *)

Recipients(a, to) == IF to = Everybody THEN (Members \union {Lead}) \ {a} ELSE to

\* Whose card, as it is cached, does not say that it takes steers from peers.
Refusing(a, to) == {b \in to \ {Lead} : cards[a][b] # "yes"}

\* A typed message, here a note, has to have a body of its kind.
SendLooks(a) ==
  LET c == call[a]
      to == Recipients(a, c.left) IN
  /\ At(a, "send_message", "go")
  /\ \/ c.kind = "note" /\ Fails(a)
     \/ /\ c.left = {a} \/ ~(to \subseteq Members \union {Lead})
        /\ Fails(a)
     \/ /\ c.left # {a} /\ to \subseteq Members \union {Lead} /\ c.kind = "steer"
        /\ Refusing(a, to) # {} /\ Refuses(a)
     \/ /\ c.left # {a} /\ to \subseteq Members \union {Lead}
        /\ c.kind = "steer" => Refusing(a, to) = {}
        /\ IF to = {} THEN Done(a) ELSE Goes(a, [c EXCEPT !.step = "post", !.left = to])
  /\ UNCHANGED <<team, task, calls, moves>>

\* One after the other; also to who has left since.
Post(a, b) ==
  LET left == call[a].left \ {b} IN
  /\ At(a, "send_message", "post") /\ b \in call[a].left
  /\ box' = [box EXCEPT ![b] = @ \union {[from |-> a, kind |-> call[a].kind]}]
  /\ call' = [call EXCEPT ![a] = IF left = {} THEN Idle ELSE [@ EXCEPT !.left = left]]
  /\ UNCHANGED <<team, task, calls, moves>>

\* The lock is not to be had: those before have the message.
PostFails(a) ==
  /\ At(a, "send_message", "post") /\ Fails(a)
  /\ UNCHANGED <<team, task, calls, moves>>

-----------------------------------------------------------------------------
(* The tools on tasks                                                      *)

Mine(a, t) == task[t].owner \in {a, None}

ParentEdges == [t \in Tasks |-> {task[t].parent} \ {None}]

\* _validate_parent_task_id: every task up the chain is there and t is not one.
ParentOk(t, p) ==
  p = None \/ /\ t \notin Reach(Tasks, ParentEdges, p)
              /\ \A u \in Reach(Tasks, ParentEdges, p) : task[u].there

UpdateLooks(a) ==
  LET t == call[a].of IN
  /\ At(a, "task_update", "go")
  /\ IF task[t].there /\ Mine(a, t) THEN Goes(a, [call[a] EXCEPT !.step = "write"]) ELSE Fails(a)
  /\ UNCHANGED <<team, task, calls, moves>>

\* The owner is not looked at again.
UpdateWrites(a) ==
  LET t == call[a].of IN
  /\ At(a, "task_update", "write")
  /\ \/ Fails(a) /\ UNCHANGED task
     \/ \E o \in Agents \union {task[t].owner}, p \in Tasks \union {task[t].parent} :
          /\ task[t].there /\ (p # task[t].parent => ParentOk(t, p))
          /\ task' = [task EXCEPT ![t] = [there |-> TRUE, owner |-> o, parent |-> p]]
          /\ Done(a)
  /\ UNCHANGED <<team, calls, moves>>

\* next_task_id
IsNextId(t) ==
  /\ \A u \in Tasks : task[u].there => u < t
  /\ t = 1 \/ \E u \in Tasks : t = u + 1 /\ task[u].there

TaskCreate(a) ==
  /\ At(a, "task_create", "go")
  /\ \/ Fails(a) /\ UNCHANGED task
     \/ \E t \in Tasks, p \in Tasks \union {None} :
          /\ IsNextId(t) /\ ParentOk(t, p)
          /\ task' = [task EXCEPT ![t] = Part(p)] /\ Done(a)
  /\ UNCHANGED <<team, calls, moves>>

BatchLooks(a) ==
  /\ At(a, "task_batch_summary", "go")
  /\ IF ~task[call[a].of].there THEN Fails(a) ELSE Goes(a, [call[a] EXCEPT !.step = "child"])
  /\ UNCHANGED <<team, task, calls, moves>>

\* Child k is the next to be linked; has been dealt with.
Linking(a, k) == [call[a] EXCEPT !.step = "link", !.child = k]
Linked(a, k) == [call[a] EXCEPT !.step = "child", !.left = @ \ {k}, !.child = None]

\* A child without a parent is to be linked; one with another parent is an error,
\* and so is an entry that is malformed or repeated.
ChildLooks(a, k) ==
  LET p == call[a].of IN
  /\ At(a, "task_batch_summary", "child") /\ k \in call[a].left
  /\ \/ Fails(a)
     \/ k # p /\ task[k].there /\ task[k].parent = p /\ Goes(a, Linked(a, k))
     \/ k # p /\ task[k].there /\ task[k].parent = None /\ Goes(a, Linking(a, k))
  /\ UNCHANGED <<team, task, calls, moves>>

\* A mutant: that the parent is no part of the child is not looked at again.
ChildLinks_Unchecked(a) ==
  LET k == call[a].child
      p == call[a].of IN
  /\ At(a, "task_batch_summary", "link")
  /\ IF ~task[k].there \/ ~task[p].there
     THEN Fails(a) /\ UNCHANGED task
     ELSE task' = [task EXCEPT ![k].parent = p] /\ Goes(a, Linked(a, k))
  /\ UNCHANGED <<team, calls, moves>>

\* update_task links it, to whatever it has been linked since.
ChildLinks(a) ==
  LET k == call[a].child
      p == call[a].of IN
  /\ At(a, "task_batch_summary", "link")
  /\ IF ~task[k].there \/ ~ParentOk(k, p)
     THEN Fails(a) /\ UNCHANGED task
     ELSE task' = [task EXCEPT ![k].parent = p] /\ Goes(a, Linked(a, k))
  /\ UNCHANGED <<team, calls, moves>>

\* The summary goes to the lead's inbox.
BatchTells(a) ==
  /\ At(a, "task_batch_summary", "child") /\ call[a].left = {}
  /\ Tell(a, "summary") /\ call' = [call EXCEPT ![a] = Idle]
  /\ UNCHANGED <<team, task, calls, moves>>

-----------------------------------------------------------------------------
(* The other tools                                                         *)

\* The cache takes in the events that have come: of some peers, the cards as they
\* are now.  It may still lack the one that is asked for.
AskCard(a, b) ==
  /\ At(a, "capability_manifest", "go") /\ call[a].left = {b}
  /\ IF b \in Members
     THEN \E fresh \in SUBSET (Agents \ {a}) :
            /\ cards' = [cards EXCEPT ![a] =
                           [c \in Agents |-> IF c \in fresh THEN Loaded(a)[c] ELSE @[c]]]
            /\ IF cards'[a][b] # "none" THEN Done(a) ELSE Fails(a)
     ELSE UNCHANGED cards /\ Fails(a)
  /\ UNCHANGED <<policy, task, calls, moves>>

\* What it returns the adapter's loop does not get to see.
ReadInbox(a) ==
  /\ At(a, "read_inbox", "go")
  /\ box' = [box EXCEPT ![a] = {}] /\ call' = [call EXCEPT ![a] = Idle]
  /\ UNCHANGED <<team, task, calls, moves>>

\* Tools that change nothing here.
OtherTool(a) ==
  /\ At(a, "other", "go") /\ (Done(a) \/ Fails(a))
  /\ UNCHANGED <<team, task, calls, moves>>

-----------------------------------------------------------------------------
(* Everybody else                                                          *)

Moves == moves < MaxMoves /\ moves' = moves + 1

\* The child is killed in a call; the next one reads the cards again.
Kill(a) ==
  /\ call[a] # Idle /\ Moves
  /\ call' = [call EXCEPT ![a] = Idle] /\ cards' = [cards EXCEPT ![a] = Loaded(a)]
  /\ UNCHANGED <<policy, box, task, calls>>

\* A peer leaves the team or comes, perhaps under its name with another policy.
Roster(b) ==
  /\ Moves /\ \E p \in {"away", "yes", "no"} : policy' = [policy EXCEPT ![b] = p]
  /\ UNCHANGED <<cards, box, task, call, calls>>

\* The lead hands a task to somebody, or deletes one.
Assign(t, o) ==
  /\ Moves /\ task[t].there /\ task' = [task EXCEPT ![t].owner = o]
  /\ UNCHANGED <<team, box, call, calls>>

Delete(t) ==
  /\ Moves /\ task[t].there
  /\ task' = [u \in Tasks |-> IF u = t THEN Gone
                ELSE [task[u] EXCEPT !.parent = IF @ = t THEN None ELSE @]]
  /\ UNCHANGED <<team, box, call, calls>>

Next ==
  \/ \E a \in Agents :
       \/ Begin(a) \/ SendLooks(a) \/ PostFails(a) \/ \E n \in Names : Post(a, n)
       \/ UpdateLooks(a) \/ UpdateWrites(a) \/ TaskCreate(a)
       \/ BatchLooks(a) \/ ChildLinks(a) \/ BatchTells(a) \/ \E k \in Tasks : ChildLooks(a, k)
       \/ ReadInbox(a) \/ OtherTool(a) \/ Kill(a) \/ Roster(a)
       \/ \E b \in Agents : AskCard(a, b)
  \/ \E t \in Tasks : Delete(t) \/ \E o \in Agents : Assign(t, o)

Spec == Init /\ [][Next]_vars

-----------------------------------------------------------------------------
\* Following the parents of a task never leads back to it, however the links that
\* batch summaries make child by child, each some time after the child was looked
\* at, meet updates, deletions and other summaries.
NoTaskInItself == NoCycle(Tasks, ParentEdges)
=============================================================================
