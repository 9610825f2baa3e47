----------------------------- MODULE Checkpoint -----------------------------
(***************************************************************************)
(* checkpoint_commit, the tool of the wrapper server by which a model      *)
(* saves its work, and the tools by which it edits files: git commands run *)
(* one after the other in the directory of the teammate, which teammates   *)
(* share unless each has a worktree.  Git guards the index with the file   *)
(* index.lock; whoever meets it fails, and a command that is killed while  *)
(* it has the lock leaves it behind.  A commit gives it back before it     *)
(* moves HEAD, and moves it only from the commit it found there.  Nothing  *)
(* guards the files: an edit is a read and a write.                        *)
(*                                                                         *)
(* A file's content is the set of the edits that are in it.                *)
(***************************************************************************)
EXTENDS Naturals

CONSTANTS Agents, Files,
          MaxEdits,  \* bound: edits of files
          MaxCalls,  \* bound: calls of the tool
          MaxStalls  \* bound: git commands that run into their timeout

VARIABLES tree, index, head, \* file -> its content on disk, staged and committed
          unmerged,   \* the index has unresolved conflicts
          lock,       \* who holds index.lock: an agent, nobody, or a "dead" command
          at,         \* agent -> the git command its call is at
          staging,    \* agent -> what its git command is about to write
          base,       \* agent -> the last commit its commit has found
          result,     \* agent -> how its last call ended
          hand,       \* agent -> the file an edit has read, and what it read
          dropped,    \* history: file -> edits another one has overwritten
          begun,      \* history: agent -> the files when its call began
          edits, calls, stalls

git == <<index, head, unmerged, lock>>
counts == <<edits, calls, stalls>>
call == <<at, staging, base, result, begun>>
vars == <<tree, git, hand, dropped, call, counts>>

Clean == [f \in Files |-> {}]
Nothing == <<>>
Results == {"none", "saved", "nothing", "conflicts", "failed"}

Init ==
  /\ tree = Clean /\ index = Clean /\ head = Clean
  /\ unmerged = FALSE /\ lock = "nobody"
  /\ at = [a \in Agents |-> "idle"] /\ staging = [a \in Agents |-> Clean]
  /\ base = [a \in Agents |-> Clean]
  /\ result = [a \in Agents |-> "none"] /\ begun = [a \in Agents |-> Clean]
  /\ hand = [a \in Agents |-> Nothing] /\ dropped = Clean
  /\ edits = 0 /\ calls = 0 /\ stalls = 0

\* A file gets a new content: an edit more, or in place of what was there.
Puts(f, content) ==
  /\ edits < MaxEdits /\ edits' = edits + 1
  /\ tree' = [tree EXCEPT ![f] = content \union {edits'}]
  /\ dropped' = [dropped EXCEPT ![f] = @ \union (tree[f] \ content)]
  /\ UNCHANGED <<git, call, calls, stalls>>

\* mcp_anyteam_edit_file reads the file and writes all of it again.
EditReads(a, f) ==
  /\ hand[a] = Nothing /\ edits < MaxEdits
  /\ hand' = [hand EXCEPT ![a] = <<f, tree[f]>>]
  /\ UNCHANGED <<tree, git, dropped, call, counts>>

EditWrites(a) ==
  /\ hand[a] # Nothing
  /\ \/ Puts(hand[a][1], hand[a][2])
     \/ UNCHANGED <<tree, git, dropped, call, counts>>
  /\ hand' = [hand EXCEPT ![a] = Nothing]

\* mcp_anyteam_write_file overwrites or appends, and so does a shell.
WriteFile(f) ==
  /\ Puts(f, {}) \/ Puts(f, tree[f])
  /\ UNCHANGED hand

\* A model merges in its own shell, and leaves conflicts or resolves them.
Merge ==
  /\ lock = "nobody" /\ edits < MaxEdits /\ edits' = edits + 1 /\ unmerged' = ~unmerged
  /\ UNCHANGED <<tree, index, head, lock, hand, dropped, call, calls, stalls>>

-----------------------------------------------------------------------------
Goes(a, where) == at' = [at EXCEPT ![a] = where]
Ends(a, how) == Goes(a, "idle") /\ result' = [result EXCEPT ![a] = how]
Locks(a) == lock = "nobody" /\ lock' = a
Unlocks(a) == lock = a /\ lock' = "nobody"

\* rev-parse finds the repository.
Call(a) ==
  /\ at[a] = "idle" /\ calls < MaxCalls /\ calls' = calls + 1
  /\ Goes(a, "unmerged") /\ result' = [result EXCEPT ![a] = "none"]
  /\ begun' = [begun EXCEPT ![a] = tree]
  /\ UNCHANGED <<tree, hand, dropped, git, staging, base, edits, stalls>>

\* ls-files -u
Unmerged(a) ==
  /\ at[a] = "unmerged"
  /\ IF unmerged THEN Ends(a, "conflicts") ELSE Goes(a, "add") /\ UNCHANGED result
  /\ UNCHANGED <<tree, hand, dropped, git, staging, base, begun, counts>>

\* add -A reads the files under the lock; others go on editing them.
AddBegins(a) ==
  /\ at[a] = "add" /\ Locks(a) /\ Goes(a, "adding")
  /\ staging' = [staging EXCEPT ![a] = tree]
  /\ UNCHANGED <<tree, hand, dropped, index, head, unmerged, base, result, begun, counts>>

\* A mutant: the files are compared with the last commit before they are staged.
AddEnds_Compares(a) ==
  /\ at[a] = "adding" /\ Unlocks(a) /\ index' = staging[a] /\ unmerged' = FALSE
  /\ IF index = head THEN Ends(a, "nothing") ELSE Goes(a, "commit") /\ UNCHANGED result
  /\ UNCHANGED <<tree, hand, dropped, head, staging, base, begun, counts>>

\* What was unmerged is staged as it is.
AddEnds(a) ==
  /\ at[a] = "adding" /\ Unlocks(a) /\ Goes(a, "diff")
  /\ index' = staging[a] /\ unmerged' = FALSE
  /\ UNCHANGED <<tree, hand, dropped, head, staging, base, result, begun, counts>>

\* diff --cached --quiet
Diff(a) ==
  /\ at[a] = "diff"
  /\ IF index = head THEN Ends(a, "nothing") ELSE Goes(a, "commit") /\ UNCHANGED result
  /\ UNCHANGED <<tree, hand, dropped, git, staging, base, begun, counts>>

\* commit refuses conflicts, and an index that another call has committed; it
\* refreshes the index under its lock, and goes on with what it has read.
CommitBegins(a) ==
  /\ at[a] = "commit" /\ lock = "nobody"
  /\ IF unmerged \/ index = head
     THEN Ends(a, "failed") /\ UNCHANGED <<lock, staging, base>>
     ELSE /\ Locks(a) /\ Goes(a, "refreshing") /\ UNCHANGED result
          /\ staging' = [staging EXCEPT ![a] = index] /\ base' = [base EXCEPT ![a] = head]
  /\ UNCHANGED <<tree, hand, dropped, index, head, unmerged, begun, counts>>

Refreshed(a) ==
  /\ at[a] = "refreshing" /\ Unlocks(a) /\ Goes(a, "committing")
  /\ UNCHANGED <<tree, hand, dropped, index, head, unmerged, staging, base, result, begun, counts>>

\* HEAD moves, unless another commit has moved it since.
CommitEnds(a) ==
  /\ at[a] = "committing"
  /\ IF head = base[a] THEN Goes(a, "head") /\ head' = staging[a] /\ UNCHANGED result
                         ELSE Ends(a, "failed") /\ UNCHANGED head
  /\ UNCHANGED <<tree, hand, dropped, index, unmerged, lock, staging, base, begun, counts>>

\* rev-parse HEAD: whichever commit is there by now.
Reports(a) ==
  /\ at[a] = "head" /\ Ends(a, "saved")
  /\ UNCHANGED <<tree, hand, dropped, git, staging, base, begun, counts>>

\* The index is locked.
Refused(a) ==
  /\ at[a] \in {"add", "commit"} /\ lock # "nobody" /\ Ends(a, "failed")
  /\ UNCHANGED <<tree, hand, dropped, git, staging, base, begun, counts>>

\* A command is killed at its timeout, and the tool raises: the lock stays if it
\* had it, and a commit may just have moved HEAD.
Stall(a) ==
  /\ at[a] # "idle" /\ stalls < MaxStalls /\ stalls' = stalls + 1
  /\ Ends(a, "failed")
  /\ lock' = IF at[a] \in {"adding", "refreshing"} THEN "dead" ELSE lock
  /\ \/ UNCHANGED head
     \/ at[a] = "committing" /\ head = base[a] /\ head' = staging[a]
  /\ UNCHANGED <<tree, hand, dropped, index, unmerged, staging, base, begun, edits, calls>>

\* Somebody removes the lock by hand.
Repair ==
  /\ lock = "dead" /\ lock' = "nobody"
  /\ UNCHANGED <<tree, hand, dropped, index, head, unmerged, call, counts>>

-----------------------------------------------------------------------------
Next ==
  \/ \E a \in Agents :
       \/ Call(a) \/ Unmerged(a) \/ AddBegins(a) \/ AddEnds(a) \/ Diff(a)
       \/ CommitBegins(a) \/ Refreshed(a) \/ CommitEnds(a) \/ Reports(a) \/ Refused(a) \/ Stall(a)
  \/ \E f \in Files : WriteFile(f) \/ \E a \in Agents : EditReads(a, f)
  \/ \E a \in Agents : EditWrites(a)
  \/ Merge \/ Repair

Spec == Init /\ [][Next]_vars

-----------------------------------------------------------------------------
\* A call that claims success, or that there is nothing to commit, has every
\* edit made before it in the last commit, though other calls stage and commit
\* between its commands, and commands are killed; but for edits that another edit
\* of the same file has overwritten.
CheckpointSaves ==
  \A a \in Agents : result[a] \in {"saved", "nothing"} =>
     \A f \in Files : begun[a][f] \subseteq head[f] \union dropped[f]
=============================================================================
