----------------------------- MODULE MCWrapper -----------------------------
(***************************************************************************)
(* What two teammates share through their wrapper servers, of which a      *)
(* behaviour picks one: the Agent Cards, with three starts and one fault,  *)
(* a working directory in which both commit, or the inboxes and the tasks  *)
(* (two or three at first) on which both call tools.                       *)
(***************************************************************************)
EXTENDS Cards

CONSTANTS a1, a2, Files, MaxEdits, MaxCalls, MaxStalls,
          Lead, Tasks, None, MaxKids, MaxToolCalls, MaxMoves

VARIABLES tree, index, head, unmerged, lock, at, staging, base, result, hand, dropped, begun,
          edits, calls, stalls,
          policy, cards, inbox, task, job, toolCalls, moves,
          plan   \* the instance

shared == <<tree, index, head, unmerged, lock, at, staging, base, result, hand, dropped, begun,
            edits, calls, stalls>>
desk == <<policy, cards, inbox, task, job, toolCalls, moves>>

ASSUME WrapperAssumption ==
  /\ {MaxEdits, MaxCalls, MaxStalls} \subseteq Nat
  /\ "nobody" \notin Agents /\ "dead" \notin Agents /\ Lead \notin Agents

Old == [version |-> 1, mode |-> "exec"]
MCAskers == {a1}
MCCardsOf == {Old, [version |-> 2, mode |-> "exec"]}

Saves == INSTANCE Checkpoint

Desk == INSTANCE Tools WITH box <- inbox, call <- job, calls <- toolCalls, MaxCalls <- MaxToolCalls

\* What is not in the plan stays as it is at one of its starts.
MCInit ==
  /\ Init /\ Saves!Init /\ Desk!Init /\ plan \in {"cards", "checkpoints", "tools"}
  /\ plan # "cards" => \A a \in Agents : row[a] = "none"
  /\ policy[a1] = "no" /\ task[2].there
  /\ plan # "tools" => policy[a2] = "no" /\ task[3].there

\* The peer whose child asks for cards has the release with the old ones.
MCNext ==
  /\ UNCHANGED plan
  /\ \/ plan = "cards" /\ Next /\ runs'[a1] \in {NoCard, Old} /\ UNCHANGED <<shared, desk>>
     \/ plan = "checkpoints" /\ Saves!Next /\ UNCHANGED <<vars, desk>>
     \/ plan = "tools" /\ Desk!Next /\ UNCHANGED <<vars, shared>>

MCSpec == MCInit /\ [][MCNext]_<<vars, shared, desk, plan>>

\* The commits of two agents in one working tree, on this instance (checkpoint,
\* edit_file).
CheckpointSaves == Saves!CheckpointSaves

\* The tools on tasks, on this instance (task_update, task_create,
\* task_batch_summary).
NoTaskInItself == Desk!NoTaskInItself
=============================================================================
