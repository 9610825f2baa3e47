---------------------------- MODULE WrapperProofs ----------------------------
(* Theorems about what the wrapper servers share: Checkpoint (Saves), Tools *)
(* (Desk) and Cards, for any agents, files, tasks and bounds; and, in the   *)
(* last part, about Installer (Setup).                                      *)
EXTENDS MCWrapper, MCInstaller, Lemmas

-----------------------------------------------------------------------------
(* Checkpoint: the inductive invariant.                                     *)

Contents == [Files -> SUBSET Nat]

SavesShape ==
  /\ tree \in Contents /\ index \in Contents /\ head \in Contents /\ dropped \in Contents
  /\ staging \in [Agents -> Contents] /\ base \in [Agents -> Contents]
  /\ begun \in [Agents -> Contents]
  /\ at \in [Agents -> {"idle", "unmerged", "add", "adding", "diff", "commit", "refreshing",
                       "committing", "head"}]
  /\ result \in [Agents -> Saves!Results]
  /\ edits \in Nat
  /\ hand \in [Agents -> {Saves!Nothing} \cup (Files \X SUBSET Nat)]

\* Who is in a command that writes the index has the lock.
OneWrites == \A a \in Agents : at[a] \in {"adding", "refreshing"} <=> lock = a

\* Every edit of f that is in the one is in the other, or was overwritten.
Covers(new, old) == \A f \in Files : old[f] \subseteq new[f] \cup dropped[f]

\* Whose files have been staged, and whose committed.
Staged == {a \in Agents : \/ at[a] \in {"diff", "commit", "refreshing", "committing", "head"}
                          \/ result[a] \in {"saved", "nothing"}}
Saved == {a \in Agents : at[a] = "head" \/ result[a] \in {"saved", "nothing"}}

\* What is committed is in the index and that is in the files; what somebody is
\* about to stage lies between the two, and what somebody is about to commit
\* between the commit before it and the index.
Onward ==
  /\ Covers(tree, index) /\ Covers(index, head)
  /\ \A b \in Agents : at[b] = "adding" => Covers(staging[b], index) /\ Covers(tree, staging[b])
  /\ \A b \in Agents : at[b] \in {"refreshing", "committing"} =>
       Covers(index, staging[b]) /\ Covers(staging[b], base[b])

\* What a call is to save is in the files, and from its add on in the index, in
\* what it or somebody else is about to write there, in what it is about to
\* commit, and, once committed, in the last commit.
Kept ==
  /\ \A a \in Agents : Covers(tree, begun[a])
  /\ \A a \in Staged : Covers(index, begun[a])
  /\ \A a \in Saved : Covers(head, begun[a])
  /\ \A b \in Agents : at[b] \in {"adding", "refreshing", "committing"} => Covers(staging[b], begun[b])

SavesInv == SavesShape /\ OneWrites /\ Onward /\ Kept

-----------------------------------------------------------------------------
(* Checkpoint: the steps.                                                   *)

LEMMA SavesStarts == Saves!Init => SavesInv
<1> SUFFICES ASSUME Saves!Init PROVE SavesInv
  OBVIOUS
<1>1. SavesShape
  BY DEF Saves!Init, Saves!Clean, Saves!Results, SavesShape, Contents
<1>2. OneWrites
  <2>1. lock = "nobody" /\ lock \notin Agents /\ \A a \in Agents : at[a] = "idle"
    BY WrapperAssumption DEF Saves!Init
  <2> QED
    BY <2>1, Zenon DEF OneWrites
<1>3. Onward /\ Kept
  BY DEF Saves!Init, Saves!Clean, Onward, Kept, Covers, Staged, Saved
<1> QED
  BY <1>1, <1>2, <1>3 DEF SavesInv

LEMMA CoversTrans ==
  ASSUME NEW new, NEW mid, NEW old, Covers(new, mid), Covers(mid, old)
  PROVE  Covers(new, old)
BY DEF Covers

LEMMA CoversRefl == \A c : Covers(c, c)
BY DEF Covers

\* A step that changes no content and begins no writing keeps what is kept if it
\* brings among those who have staged or saved only whose files are there.
LEMMA SavesGrow ==
  ASSUME SavesInv, UNCHANGED <<tree, index, head, dropped, staging, base, begun>>,
         Staged' \subseteq Staged, \A a \in Saved' : Covers(head, begun[a]),
         \A a \in Agents : /\ at'[a] = "adding" => at[a] = "adding"
                           /\ at'[a] \in {"refreshing", "committing"} =>
                                at[a] \in {"refreshing", "committing"}
  PROVE  Onward' /\ Kept'
<1>1. Onward'
  BY DEF SavesInv, Onward, Covers
<1>2. Kept'
  BY DEF SavesInv, Kept, Covers, Staged
<1> QED
  BY <1>1, <1>2

LEMMA SavesRests ==
  ASSUME SavesInv, UNCHANGED <<tree, index, head, dropped, staging, base, begun>>,
         Staged' \subseteq Staged, Saved' \subseteq Saved,
         \A a \in Agents : /\ at'[a] = "adding" => at[a] = "adding"
                           /\ at'[a] \in {"refreshing", "committing"} =>
                                at[a] \in {"refreshing", "committing"}
  PROVE  Onward' /\ Kept'
<1>1. \A a \in Saved' : Covers(head, begun[a])
  BY Zenon DEF SavesInv, Kept
<1> QED
  BY <1>1, SavesGrow

LEMMA SavesUnmerged ==
  ASSUME SavesInv, NEW a \in Agents, Saves!Unmerged(a)
  PROVE  SavesInv'
<1> USE DEF Saves!git, Saves!counts, Saves!call
<1>1. SavesShape'
  BY DEF Saves!Unmerged, SavesInv, SavesShape, Contents, Saves!Results, Saves!Goes, Saves!Ends, Saves!Locks, Saves!Unlocks
<1>2. OneWrites'
  BY WrapperAssumption DEF Saves!Unmerged, SavesInv, SavesShape, OneWrites, Saves!Goes, Saves!Ends, Saves!Locks, Saves!Unlocks
<1>3. Onward' /\ Kept'
  <2>1. UNCHANGED <<tree, index, head, dropped, staging, base, begun>>
    BY DEF Saves!Unmerged
  <2>2. Staged' \subseteq Staged /\ Saved' \subseteq Saved
    BY DEF Saves!Unmerged, SavesInv, SavesShape, Staged, Saved, Saves!Goes, Saves!Ends
  <2>3. \A b \in Agents : /\ at'[b] = "adding" => at[b] = "adding"
                          /\ at'[b] \in {"refreshing", "committing"} =>
                               at[b] \in {"refreshing", "committing"}
    BY DEF Saves!Unmerged, SavesInv, SavesShape, Saves!Goes, Saves!Ends
  <2> QED
    BY <2>1, <2>2, <2>3, SavesRests
<1> QED
  BY <1>1, <1>2, <1>3 DEF SavesInv

LEMMA SavesReports ==
  ASSUME SavesInv, NEW a \in Agents, Saves!Reports(a)
  PROVE  SavesInv'
<1> USE DEF Saves!git, Saves!counts, Saves!call
<1>1. SavesShape'
  BY DEF Saves!Reports, SavesInv, SavesShape, Contents, Saves!Results, Saves!Goes, Saves!Ends, Saves!Locks, Saves!Unlocks
<1>2. OneWrites'
  BY WrapperAssumption DEF Saves!Reports, SavesInv, SavesShape, OneWrites, Saves!Goes, Saves!Ends, Saves!Locks, Saves!Unlocks
<1>3. Onward' /\ Kept'
  <2>1. UNCHANGED <<tree, index, head, dropped, staging, base, begun>>
    BY DEF Saves!Reports
  <2>2. Staged' \subseteq Staged /\ Saved' \subseteq Saved
    BY DEF Saves!Reports, SavesInv, SavesShape, Staged, Saved, Saves!Goes, Saves!Ends
  <2>3. \A b \in Agents : /\ at'[b] = "adding" => at[b] = "adding"
                          /\ at'[b] \in {"refreshing", "committing"} =>
                               at[b] \in {"refreshing", "committing"}
    BY DEF Saves!Reports, SavesInv, SavesShape, Saves!Goes, Saves!Ends
  <2> QED
    BY <2>1, <2>2, <2>3, SavesRests
<1> QED
  BY <1>1, <1>2, <1>3 DEF SavesInv

LEMMA SavesRefused ==
  ASSUME SavesInv, NEW a \in Agents, Saves!Refused(a)
  PROVE  SavesInv'
<1> USE DEF Saves!git, Saves!counts, Saves!call
<1>1. SavesShape'
  BY DEF Saves!Refused, SavesInv, SavesShape, Contents, Saves!Results, Saves!Goes, Saves!Ends, Saves!Locks, Saves!Unlocks
<1>2. OneWrites'
  BY WrapperAssumption DEF Saves!Refused, SavesInv, SavesShape, OneWrites, Saves!Goes, Saves!Ends, Saves!Locks, Saves!Unlocks
<1>3. Onward' /\ Kept'
  <2>1. UNCHANGED <<tree, index, head, dropped, staging, base, begun>>
    BY DEF Saves!Refused
  <2>2. Staged' \subseteq Staged /\ Saved' \subseteq Saved
    BY DEF Saves!Refused, SavesInv, SavesShape, Staged, Saved, Saves!Goes, Saves!Ends
  <2>3. \A b \in Agents : /\ at'[b] = "adding" => at[b] = "adding"
                          /\ at'[b] \in {"refreshing", "committing"} =>
                               at[b] \in {"refreshing", "committing"}
    BY DEF Saves!Refused, SavesInv, SavesShape, Saves!Goes, Saves!Ends
  <2> QED
    BY <2>1, <2>2, <2>3, SavesRests
<1> QED
  BY <1>1, <1>2, <1>3 DEF SavesInv

LEMMA SavesMerge ==
  ASSUME SavesInv, Saves!Merge
  PROVE  SavesInv'
<1> USE DEF Saves!git, Saves!counts, Saves!call
<1>1. SavesShape'
  BY DEF Saves!Merge, SavesInv, SavesShape, Contents, Saves!Results, Saves!Goes, Saves!Ends, Saves!Locks, Saves!Unlocks
<1>2. OneWrites'
  BY WrapperAssumption DEF Saves!Merge, SavesInv, SavesShape, OneWrites, Saves!Goes, Saves!Ends, Saves!Locks, Saves!Unlocks
<1>3. Onward' /\ Kept'
  <2>1. UNCHANGED <<tree, index, head, dropped, staging, base, begun>>
    BY DEF Saves!Merge
  <2>2. Staged' \subseteq Staged /\ Saved' \subseteq Saved
    BY DEF Saves!Merge, SavesInv, SavesShape, Staged, Saved, Saves!Goes, Saves!Ends
  <2>3. \A b \in Agents : /\ at'[b] = "adding" => at[b] = "adding"
                          /\ at'[b] \in {"refreshing", "committing"} =>
                               at[b] \in {"refreshing", "committing"}
    BY DEF Saves!Merge, SavesInv, SavesShape, Saves!Goes, Saves!Ends
  <2> QED
    BY <2>1, <2>2, <2>3, SavesRests
<1> QED
  BY <1>1, <1>2, <1>3 DEF SavesInv

LEMMA SavesRepair ==
  ASSUME SavesInv, Saves!Repair
  PROVE  SavesInv'
<1> USE DEF Saves!git, Saves!counts, Saves!call
<1>1. SavesShape'
  BY DEF Saves!Repair, SavesInv, SavesShape, Contents, Saves!Results, Saves!Goes, Saves!Ends, Saves!Locks, Saves!Unlocks
<1>2. OneWrites'
  BY WrapperAssumption DEF Saves!Repair, SavesInv, SavesShape, OneWrites, Saves!Goes, Saves!Ends, Saves!Locks, Saves!Unlocks
<1>3. Onward' /\ Kept'
  <2>1. UNCHANGED <<tree, index, head, dropped, staging, base, begun>>
    BY DEF Saves!Repair
  <2>2. Staged' \subseteq Staged /\ Saved' \subseteq Saved
    BY DEF Saves!Repair, SavesInv, SavesShape, Staged, Saved, Saves!Goes, Saves!Ends
  <2>3. \A b \in Agents : /\ at'[b] = "adding" => at[b] = "adding"
                          /\ at'[b] \in {"refreshing", "committing"} =>
                               at[b] \in {"refreshing", "committing"}
    BY DEF Saves!Repair, SavesInv, SavesShape, Saves!Goes, Saves!Ends
  <2> QED
    BY <2>1, <2>2, <2>3, SavesRests
<1> QED
  BY <1>1, <1>2, <1>3 DEF SavesInv

LEMMA SavesCall ==
  ASSUME SavesInv, NEW a \in Agents, Saves!Call(a)
  PROVE  SavesInv'
<1> USE DEF Saves!git, Saves!counts, Saves!call
<1>1. SavesShape'
  BY DEF Saves!Call, SavesInv, SavesShape, Contents, Saves!Results, Saves!Goes, Saves!Ends, Saves!Locks, Saves!Unlocks
<1>2. OneWrites'
  BY WrapperAssumption DEF Saves!Call, SavesInv, SavesShape, OneWrites, Saves!Goes, Saves!Ends, Saves!Locks, Saves!Unlocks
<1>3. Onward' /\ Kept'
  <2>1. /\ UNCHANGED <<tree, index, head, dropped, staging, base>>
        /\ at' = [at EXCEPT ![a] = "unmerged"] /\ result' = [result EXCEPT ![a] = "none"]
        /\ begun' = [begun EXCEPT ![a] = tree] /\ at[a] = "idle"
    BY DEF Saves!Call, Saves!Goes
  <2>2. Onward'
    BY <2>1 DEF SavesInv, SavesShape, Onward, Covers
  <2>3. Staged' = Staged \ {a} /\ Saved' = Saved \ {a}
    BY <2>1 DEF SavesInv, SavesShape, Staged, Saved
  <2>4. Kept'
    BY <2>1, <2>3 DEF SavesInv, SavesShape, Kept, Covers
  <2> QED
    BY <2>2, <2>4
<1> QED
  BY <1>1, <1>2, <1>3 DEF SavesInv

LEMMA SavesAddBegins ==
  ASSUME SavesInv, NEW a \in Agents, Saves!AddBegins(a)
  PROVE  SavesInv'
<1> USE DEF Saves!git, Saves!counts, Saves!call
<1>1. SavesShape'
  BY DEF Saves!AddBegins, SavesInv, SavesShape, Contents, Saves!Results, Saves!Goes, Saves!Ends, Saves!Locks, Saves!Unlocks
<1>2. OneWrites'
  BY WrapperAssumption DEF Saves!AddBegins, SavesInv, SavesShape, OneWrites, Saves!Goes, Saves!Ends, Saves!Locks, Saves!Unlocks
<1>3. Onward' /\ Kept'
  <2>1. /\ UNCHANGED <<tree, index, head, dropped, begun, base, result>>
        /\ at' = [at EXCEPT ![a] = "adding"] /\ staging' = [staging EXCEPT ![a] = tree] /\ at[a] = "add"
    BY DEF Saves!AddBegins, Saves!Goes
  <2>2. Onward'
    BY <2>1 DEF SavesInv, SavesShape, Onward, Covers
  <2>3. Staged' = Staged /\ Saved' = Saved
    BY <2>1 DEF SavesInv, SavesShape, Staged, Saved
  <2>4. Kept'
    BY <2>1, <2>3 DEF SavesInv, SavesShape, Kept, Covers
  <2> QED
    BY <2>2, <2>4
<1> QED
  BY <1>1, <1>2, <1>3 DEF SavesInv

LEMMA SavesAddEnds ==
  ASSUME SavesInv, NEW a \in Agents, Saves!AddEnds(a)
  PROVE  SavesInv'
<1> USE DEF Saves!git, Saves!counts, Saves!call
<1>1. SavesShape'
  BY DEF Saves!AddEnds, SavesInv, SavesShape, Contents, Saves!Results, Saves!Goes, Saves!Ends, Saves!Locks, Saves!Unlocks
<1>2. OneWrites'
  BY WrapperAssumption DEF Saves!AddEnds, SavesInv, SavesShape, OneWrites, Saves!Goes, Saves!Ends, Saves!Locks, Saves!Unlocks
<1>3. Onward' /\ Kept'
  <2>1. /\ UNCHANGED <<tree, head, dropped, begun, base, staging, result>> /\ lock = a
        /\ at' = [at EXCEPT ![a] = "diff"] /\ index' = staging[a] /\ at[a] = "adding"
    BY DEF Saves!AddEnds, Saves!Goes, Saves!Unlocks
  <2>2. /\ Covers(staging[a], index) /\ Covers(tree, staging[a]) /\ Covers(staging[a], begun[a])
        /\ \A b \in Agents \ {a} : at[b] # "adding"
    BY <2>1 DEF SavesInv, Onward, Kept, OneWrites
  <2>3. \A old : Covers(index, old) => Covers(index', old)
    BY <2>1, <2>2, CoversTrans
  <2>4. Onward'
    BY <2>1, <2>2, <2>3 DEF SavesInv, SavesShape, Onward, Covers
  <2>5. Staged' = Staged \cup {a} /\ Saved' = Saved
    BY <2>1 DEF SavesInv, SavesShape, Staged, Saved
  <2>6. Kept'
    BY <2>1, <2>2, <2>3, <2>5 DEF SavesInv, SavesShape, Kept, Covers
  <2> QED
    BY <2>4, <2>6
<1> QED
  BY <1>1, <1>2, <1>3 DEF SavesInv

LEMMA SavesDiff ==
  ASSUME SavesInv, NEW a \in Agents, Saves!Diff(a)
  PROVE  SavesInv'
<1> USE DEF Saves!git, Saves!counts, Saves!call
<1>1. SavesShape'
  BY DEF Saves!Diff, SavesInv, SavesShape, Contents, Saves!Results, Saves!Goes, Saves!Ends, Saves!Locks, Saves!Unlocks
<1>2. OneWrites'
  BY WrapperAssumption DEF Saves!Diff, SavesInv, SavesShape, OneWrites, Saves!Goes, Saves!Ends, Saves!Locks, Saves!Unlocks
<1>3. Onward' /\ Kept'
  <2>1. CASE index # head
    <3>1. Staged' \subseteq Staged /\ Saved' \subseteq Saved
      BY <2>1 DEF Saves!Diff, SavesInv, SavesShape, Staged, Saved, Saves!Goes, Saves!Ends
    <3> QED
      BY <2>1, <3>1, SavesRests DEF Saves!Diff, SavesInv, SavesShape, Saves!Goes, Saves!Ends
  <2>2. CASE index = head
    <3>1. Staged' \subseteq Staged /\ Saved' \subseteq Staged
      BY <2>2 DEF Saves!Diff, SavesInv, SavesShape, Staged, Saved, Saves!Goes, Saves!Ends
    <3>2. UNCHANGED <<tree, index, head, dropped, staging, base, begun>>
      BY DEF Saves!Diff
    <3>3. \A b \in Agents : /\ at'[b] = "adding" => at[b] = "adding"
                            /\ at'[b] \in {"refreshing", "committing"} =>
                                 at[b] \in {"refreshing", "committing"}
      BY DEF Saves!Diff, SavesInv, SavesShape, Saves!Goes, Saves!Ends
    <3>4. \A b \in Staged : Covers(index, begun[b])
      BY Zenon DEF SavesInv, Kept
    <3>5. \A b \in Saved' : Covers(head, begun[b])
      BY <2>2, <3>1, <3>4, Zenon
    <3> QED
      BY <3>1, <3>2, <3>3, <3>5, SavesGrow
  <2> QED
    BY <2>1, <2>2
<1> QED
  BY <1>1, <1>2, <1>3 DEF SavesInv

LEMMA SavesCommitBegins ==
  ASSUME SavesInv, NEW a \in Agents, Saves!CommitBegins(a)
  PROVE  SavesInv'
<1> USE DEF Saves!git, Saves!counts, Saves!call
<1>1. SavesShape'
  BY DEF Saves!CommitBegins, SavesInv, SavesShape, Contents, Saves!Results, Saves!Goes, Saves!Ends, Saves!Locks, Saves!Unlocks
<1>2. OneWrites'
  BY WrapperAssumption DEF Saves!CommitBegins, SavesInv, SavesShape, OneWrites, Saves!Goes, Saves!Ends, Saves!Locks, Saves!Unlocks
<1>3. Onward' /\ Kept'
  <2>1. CASE unmerged \/ index = head
    <3>1. Staged' \subseteq Staged /\ Saved' \subseteq Saved
      BY <2>1 DEF Saves!CommitBegins, SavesInv, SavesShape, Staged, Saved, Saves!Ends, Saves!Goes
    <3> QED
      BY <2>1, <3>1, SavesRests DEF Saves!CommitBegins, SavesInv, SavesShape, Saves!Ends, Saves!Goes
  <2>2. CASE ~(unmerged \/ index = head)
    <3>1. /\ at[a] = "commit" /\ at' = [at EXCEPT ![a] = "refreshing"]
          /\ staging' = [staging EXCEPT ![a] = index] /\ base' = [base EXCEPT ![a] = head]
          /\ UNCHANGED <<tree, index, head, dropped, begun, result>>
      BY <2>2 DEF Saves!CommitBegins, Saves!Goes
    <3>2. Staged' = Staged /\ Saved' = Saved /\ a \in Staged
      BY <3>1 DEF SavesInv, SavesShape, Staged, Saved
    <3>3. Onward'
      BY <3>1, CoversRefl DEF SavesInv, SavesShape, Onward, Covers
    <3>4. Kept'
      BY <3>1, <3>2 DEF SavesInv, SavesShape, Kept, Covers
    <3> QED
      BY <3>3, <3>4
  <2> QED
    BY <2>1, <2>2
<1> QED
  BY <1>1, <1>2, <1>3 DEF SavesInv

LEMMA SavesRefreshed ==
  ASSUME SavesInv, NEW a \in Agents, Saves!Refreshed(a)
  PROVE  SavesInv'
<1> USE DEF Saves!git, Saves!counts, Saves!call
<1>1. SavesShape'
  BY DEF Saves!Refreshed, SavesInv, SavesShape, Contents, Saves!Goes, Saves!Unlocks
<1>2. OneWrites'
  BY WrapperAssumption DEF Saves!Refreshed, SavesInv, SavesShape, OneWrites, Saves!Goes, Saves!Unlocks
<1>3. Onward' /\ Kept'
  <2>1. UNCHANGED <<tree, index, head, dropped, staging, base, begun, result>>
    BY DEF Saves!Refreshed
  <2>2. at[a] = "refreshing" /\ at' = [at EXCEPT ![a] = "committing"]
    BY DEF Saves!Refreshed, Saves!Goes
  <2>3. Staged' \subseteq Staged /\ Saved' \subseteq Saved
    BY <2>1, <2>2 DEF SavesInv, SavesShape, Staged, Saved
  <2> QED
    BY <2>1, <2>2, <2>3, SavesRests DEF SavesInv, SavesShape
<1> QED
  BY <1>1, <1>2, <1>3 DEF SavesInv

\* HEAD moves to what agent a is about to commit.
LEMMA HeadMoves ==
  ASSUME SavesInv, NEW a \in Agents, at[a] = "committing", head = base[a], head' = staging[a],
         UNCHANGED <<tree, index, dropped, staging, base, begun>>,
         Staged' \subseteq Staged, Saved' \subseteq Saved \cup {a},
         \A b \in Agents : /\ at'[b] = "adding" => at[b] = "adding"
                           /\ at'[b] \in {"refreshing", "committing"} =>
                                at[b] \in {"refreshing", "committing"}
  PROVE  Onward' /\ Kept'
<1>1. Covers(index, staging[a]) /\ Covers(staging[a], head) /\ Covers(staging[a], begun[a])
  BY DEF SavesInv, Onward, Kept
<1>2. \A old : Covers(head, old) => Covers(head', old)
  BY <1>1, CoversTrans
<1>3. Onward'
  BY <1>1 DEF SavesInv, Onward, Covers
<1>4. Kept'
  BY <1>1, <1>2 DEF SavesInv, Kept, Covers
<1> QED
  BY <1>3, <1>4

LEMMA SavesCommitEnds ==
  ASSUME SavesInv, NEW a \in Agents, Saves!CommitEnds(a)
  PROVE  SavesInv'
<1> USE DEF Saves!git, Saves!counts, Saves!call
<1>1. SavesShape'
  <2>1. CASE head = base[a]
    <3>1. /\ at' = [at EXCEPT ![a] = "head"] /\ head' = staging[a]
          /\ UNCHANGED <<tree, index, dropped, staging, base, begun, result, edits, hand>>
      BY <2>1 DEF Saves!CommitEnds, Saves!Goes
    <3>2. head' \in Contents
      BY <3>1 DEF SavesInv, SavesShape
    <3> QED
      BY <3>1, <3>2 DEF SavesInv, SavesShape
  <2>2. CASE head # base[a]
    BY <2>2 DEF Saves!CommitEnds, SavesInv, SavesShape, Saves!Results, Saves!Goes, Saves!Ends
  <2> QED
    BY <2>1, <2>2
<1>2. OneWrites'
  BY WrapperAssumption DEF Saves!CommitEnds, SavesInv, SavesShape, OneWrites, Saves!Goes, Saves!Ends, Saves!Locks, Saves!Unlocks
<1>3. Onward' /\ Kept'
  <2>1. UNCHANGED <<tree, index, dropped, staging, base, begun>> /\ at[a] = "committing"
    BY DEF Saves!CommitEnds
  <2>2. \A b \in Agents : /\ at'[b] = "adding" => at[b] = "adding"
                          /\ at'[b] \in {"refreshing", "committing"} =>
                               at[b] \in {"refreshing", "committing"}
    BY DEF Saves!CommitEnds, SavesInv, SavesShape, Saves!Goes, Saves!Ends
  <2>3. Staged' \subseteq Staged
    BY DEF Saves!CommitEnds, SavesInv, SavesShape, Staged, Saves!Goes, Saves!Ends
  <2>4. CASE head = base[a]
    <3>1. head' = staging[a] /\ Saved' \subseteq Saved \cup {a}
      BY <2>4 DEF Saves!CommitEnds, SavesInv, SavesShape, Saved, Saves!Goes
    <3> QED
      BY <2>1, <2>2, <2>3, <2>4, <3>1, HeadMoves
  <2>5. CASE head # base[a]
    <3>1. head' = head /\ Saved' \subseteq Saved
      BY <2>5 DEF Saves!CommitEnds, SavesInv, SavesShape, Saved, Saves!Goes, Saves!Ends
    <3> QED
      BY <2>1, <2>2, <2>3, <3>1, SavesRests
  <2> QED
    BY <2>4, <2>5
<1> QED
  BY <1>1, <1>2, <1>3 DEF SavesInv

LEMMA SavesStall ==
  ASSUME SavesInv, NEW a \in Agents, Saves!Stall(a)
  PROVE  SavesInv'
<1> USE DEF Saves!git, Saves!counts, Saves!call
<1>1. SavesShape'
  BY DEF Saves!Stall, SavesInv, SavesShape, Contents, Saves!Results, Saves!Goes, Saves!Ends, Saves!Locks, Saves!Unlocks
<1>2. OneWrites'
  BY WrapperAssumption DEF Saves!Stall, SavesInv, SavesShape, OneWrites, Saves!Goes, Saves!Ends, Saves!Locks, Saves!Unlocks
<1>3. Onward' /\ Kept'
  <2>1. UNCHANGED <<tree, index, dropped, staging, base, begun>>
    BY DEF Saves!Stall
  <2>2. \A b \in Agents : /\ at'[b] = "adding" => at[b] = "adding"
                          /\ at'[b] \in {"refreshing", "committing"} =>
                               at[b] \in {"refreshing", "committing"}
    BY DEF Saves!Stall, SavesInv, SavesShape, Saves!Goes, Saves!Ends
  <2>3. Staged' \subseteq Staged /\ Saved' \subseteq Saved
    BY DEF Saves!Stall, SavesInv, SavesShape, Staged, Saved, Saves!Goes, Saves!Ends
  <2>4. CASE at[a] = "committing" /\ head = base[a] /\ head' = staging[a]
    BY <2>1, <2>2, <2>3, <2>4, HeadMoves
  <2>5. CASE UNCHANGED head
    BY <2>1, <2>2, <2>3, <2>5, SavesRests
  <2> QED
    BY <2>4, <2>5 DEF Saves!Stall
<1> QED
  BY <1>1, <1>2, <1>3 DEF SavesInv

LEMMA SavesEditReads ==
  ASSUME SavesInv, NEW a \in Agents, NEW f \in Files, Saves!EditReads(a, f)
  PROVE  SavesInv'
<1> USE DEF Saves!git, Saves!counts, Saves!call
<1>1. SavesShape'
  BY DEF Saves!EditReads, SavesInv, SavesShape, Contents, Saves!Results, Saves!Goes, Saves!Ends, Saves!Locks, Saves!Unlocks, Saves!Nothing
<1>2. OneWrites'
  BY WrapperAssumption DEF Saves!EditReads, SavesInv, SavesShape, OneWrites, Saves!Goes, Saves!Ends, Saves!Locks, Saves!Unlocks
<1>3. Onward' /\ Kept'
  <2>1. UNCHANGED <<tree, index, head, dropped, staging, base, begun>>
    BY DEF Saves!EditReads
  <2>2. Staged' \subseteq Staged /\ Saved' \subseteq Saved
    BY DEF Saves!EditReads, SavesInv, SavesShape, Staged, Saved, Saves!Goes, Saves!Ends
  <2>3. \A b \in Agents : /\ at'[b] = "adding" => at[b] = "adding"
                          /\ at'[b] \in {"refreshing", "committing"} =>
                               at[b] \in {"refreshing", "committing"}
    BY DEF Saves!EditReads, SavesInv, SavesShape, Saves!Goes, Saves!Ends
  <2> QED
    BY <2>1, <2>2, <2>3, SavesRests
<1> QED
  BY <1>1, <1>2, <1>3 DEF SavesInv

\* What a file gets keeps the edits that were made, or they count as overwritten.
LEMMA SavesPuts ==
  ASSUME SavesInv, NEW f \in Files, NEW content \in SUBSET Nat, Saves!Puts(f, content),
         hand' \in [Agents -> {Saves!Nothing} \cup (Files \X SUBSET Nat)]
  PROVE  SavesInv'
<1> USE DEF Saves!git, Saves!counts, Saves!call
<1>1. /\ edits' = edits + 1
      /\ tree' = [tree EXCEPT ![f] = content \union {edits'}]
      /\ dropped' = [dropped EXCEPT ![f] = @ \union (tree[f] \ content)]
      /\ UNCHANGED <<index, head, unmerged, lock, at, staging, result, begun, base>>
  BY DEF Saves!Puts
<1>2. SavesShape'
  BY <1>1 DEF SavesInv, SavesShape, Contents
<1>3. OneWrites'
  BY <1>1 DEF SavesInv, OneWrites
<1>4. Staged' = Staged /\ Saved' = Saved
  BY <1>1 DEF Staged, Saved
<1>5. \A g \in Files : /\ dropped[g] \subseteq dropped'[g]
                       /\ tree[g] \cup dropped[g] \subseteq tree'[g] \cup dropped'[g]
  BY <1>1 DEF SavesInv, SavesShape, Contents
<1>6. Onward' /\ Kept'
  BY <1>1, <1>4, <1>5 DEF SavesInv, Onward, Kept, Covers
<1> QED
  BY <1>2, <1>3, <1>6 DEF SavesInv

LEMMA SavesWriteFile ==
  ASSUME SavesInv, NEW f \in Files, Saves!WriteFile(f)
  PROVE  SavesInv'
<1>1. tree[f] \in SUBSET Nat /\ {} \in SUBSET Nat
  BY DEF SavesInv, SavesShape, Contents
<1>2. hand' \in [Agents -> {Saves!Nothing} \cup (Files \X SUBSET Nat)]
  BY DEF SavesInv, SavesShape, Saves!WriteFile
<1>3. CASE Saves!Puts(f, {})
  BY <1>1, <1>2, <1>3, SavesPuts
<1>4. CASE Saves!Puts(f, tree[f])
  <2> DEFINE content == tree[f]
  <2>1. content \in SUBSET Nat /\ Saves!Puts(f, content)
    BY <1>1, <1>4
  <2> HIDE DEF content
  <2> QED
    BY <1>2, <2>1, SavesPuts
<1> QED
  BY <1>3, <1>4 DEF Saves!WriteFile

LEMMA SavesEditWrites ==
  ASSUME SavesInv, NEW a \in Agents, Saves!EditWrites(a)
  PROVE  SavesInv'
<1>1. hand' \in [Agents -> {Saves!Nothing} \cup (Files \X SUBSET Nat)]
  BY DEF SavesInv, SavesShape, Saves!EditWrites
<1>2. hand[a] \in Files \X SUBSET Nat
  BY DEF SavesInv, SavesShape, Saves!EditWrites
<1>3. CASE Saves!Puts(hand[a][1], hand[a][2])
  <2>1. PICK f \in Files, content \in SUBSET Nat : Saves!Puts(f, content)
    BY <1>2, <1>3
  <2> QED
    BY <1>1, <2>1, SavesPuts
<1>4. CASE UNCHANGED <<tree, Saves!git, dropped, Saves!call, Saves!counts>>
  BY <1>1, <1>4 DEF Saves!git, Saves!call, Saves!counts, SavesInv, SavesShape, OneWrites,
     Onward, Kept, Covers, Staged, Saved
<1> QED
  BY <1>3, <1>4 DEF Saves!EditWrites

LEMMA SavesStep == SavesInv /\ [Saves!Next]_Saves!vars => SavesInv'
<1> SUFFICES ASSUME SavesInv, [Saves!Next]_Saves!vars PROVE SavesInv'
  OBVIOUS
<1>1. CASE UNCHANGED Saves!vars
  BY <1>1 DEF Saves!vars, Saves!git, Saves!call, Saves!counts, SavesInv, SavesShape, OneWrites,
     Onward, Kept, Covers, Staged, Saved
<1>2. CASE \E a \in Agents :
       \/ Saves!Call(a) \/ Saves!Unmerged(a) \/ Saves!AddBegins(a) \/ Saves!AddEnds(a) \/ Saves!Diff(a)
       \/ Saves!CommitBegins(a) \/ Saves!Refreshed(a) \/ Saves!CommitEnds(a) \/ Saves!Reports(a)
       \/ Saves!Refused(a) \/ Saves!Stall(a)
  BY <1>2, SavesCall, SavesUnmerged, SavesAddBegins, SavesAddEnds, SavesDiff, SavesCommitBegins,
     SavesRefreshed, SavesCommitEnds, SavesReports, SavesRefused, SavesStall
<1>3. CASE \E f \in Files : Saves!WriteFile(f) \/ \E a \in Agents : Saves!EditReads(a, f)
  BY <1>3, SavesWriteFile, SavesEditReads
<1>4. CASE \E a \in Agents : Saves!EditWrites(a)
  BY <1>4, SavesEditWrites
<1> QED
  BY <1>1, <1>2, <1>3, <1>4, SavesMerge, SavesRepair DEF Saves!Next

\* Every call of checkpoint_commit that says "saved" or "nothing to commit" has
\* what was there before it in the last commit, whatever else edits, stages and
\* commits in the same tree, but for edits that others have overwritten.
THEOREM CheckpointKeepsWork == Saves!Spec => []CheckpointSaves
<1>1. SavesInv => CheckpointSaves
  BY DEF SavesInv, Kept, Covers, Saved, CheckpointSaves, Saves!CheckpointSaves
<1> QED
  BY <1>1, SavesStarts, SavesStep, PTL DEF Saves!Spec

-----------------------------------------------------------------------------
(* Tools: the inductive invariant.                                          *)

Boards == [Tasks -> [there : BOOLEAN, owner : Agents \cup {None}, parent : Tasks \cup {None}]]
CallTools == {"none", "send_message", "capability_manifest", "task_update",
              "task_batch_summary", "task_create", "read_inbox", "other"}
Calls == [tool : CallTools, step : {"idle", "go", "post", "write", "child", "link"},
          left : SUBSET (Desk!Names \cup Desk!Everybody \cup Tasks), kind : {"none", "note", "steer"},
          of : Tasks \cup {None}, child : Tasks \cup {None}]

DeskInv == task \in Boards /\ job \in [Agents -> Calls] /\ NoTaskInItself

-----------------------------------------------------------------------------
(* Tools: the steps.                                                        *)

\* The graphs of Tools are those of the lemmas.
LEMMA SameGraphs ==
  /\ \A N, e, i : Desk!Reach(N, e, i) = Reach(N, e, i)
  /\ \A N, e : Desk!NoCycle(N, e) <=> NoCycle(N, e)
<1>1. \A N, e, i : Desk!Reach(N, e, i) = Reach(N, e, i)
  BY DEF Desk!Reach, Reach, Desk!Closed, Closed
<1> QED
  BY <1>1 DEF Desk!NoCycle, NoCycle

\* Nobody is a part of itself, in terms of the lemmas.
LEMMA Rooted == NoTaskInItself <=> NoCycle(Tasks, Desk!ParentEdges)
  BY SameGraphs DEF NoTaskInItself, Desk!NoTaskInItself

LEMMA IdleIsCall == Desk!Idle \in Calls
  BY DEF Desk!Idle, Calls, CallTools

LEMMA PartIs ==
  ASSUME NEW p \in Tasks \cup {None}
  PROVE  /\ Desk!Part(p) \in [there : BOOLEAN, owner : Agents \cup {None}, parent : Tasks \cup {None}]
         /\ Desk!Gone \in [there : BOOLEAN, owner : Agents \cup {None}, parent : Tasks \cup {None}]
         /\ Desk!Part(p).parent = p /\ Desk!Gone.parent = None
BY DEF Desk!Part, Desk!Gone

LEMMA DeskStarts == Desk!Init => DeskInv
<1> SUFFICES ASSUME Desk!Init PROVE DeskInv
  OBVIOUS
<1>1. job \in [Agents -> Calls]
  BY IdleIsCall DEF Desk!Init
<1>2. PICK n \in Tasks : task = [t \in Tasks |-> IF t <= n THEN Desk!Part(None) ELSE Desk!Gone]
  BY DEF Desk!Init
<1>3. \A t \in Tasks : task[t] \in {Desk!Part(None), Desk!Gone}
  BY <1>2
<1>4. \A t \in Tasks : /\ task[t].parent = None
                       /\ task[t] \in [there : BOOLEAN, owner : Agents \cup {None},
                                       parent : Tasks \cup {None}]
  BY <1>3, PartIs
<1>5. task \in Boards
  BY <1>2, <1>4 DEF Boards
<1>6. \A t \in Tasks : Desk!ParentEdges[t] = {}
  BY <1>4 DEF Desk!ParentEdges
<1>7. NoTaskInItself
  BY <1>6, Rooted DEF NoCycle
<1> QED
  BY <1>1, <1>5, <1>7 DEF DeskInv

\* An edge from t to p, from which t cannot be reached, closes no cycle.
LEMMA NewLink ==
  ASSUME NEW N, NEW d, NEW e, NEW t \in N, NEW p \in N, NoCycle(N, d), t \notin Reach(N, d, p),
         \A k \in N : d[k] \subseteq N /\ e[k] \subseteq d[k] \cup (IF k = t THEN {p} ELSE {})
  PROVE  NoCycle(N, e)
<1> DEFINE u == [k \in N |-> d[k] \cup (IF k = t THEN {p} ELSE {})]
           S == Reach(N, d, p)
<1>1. \A k \in N : d[k] \subseteq u[k] /\ u[k] \subseteq N /\ e[k] \subseteq u[k]
  OBVIOUS
<1>2. S \in SUBSET N /\ p \in S /\ t \notin S
  BY ReachStart DEF Reach
<1>3. Closed(u, S)
  <2> SUFFICES ASSUME NEW k \in S PROVE u[k] \subseteq S
    BY DEF Closed
  <2>1. u[k] = d[k]
    BY <1>2
  <2> QED
    BY <1>1, <1>2, <2>1, ReachClosed
<1>4. \A x \in N : \A y \in u[x] \ d[x] : x = t /\ y = p
  OBVIOUS
<1> HIDE DEF S, u
<1>5. t \notin Reach(N, u, p)
  BY <1>2, <1>3, ReachLeast
<1>6. NoCycle(N, u)
  BY <1>1, <1>4, <1>5, NewEdges
<1> QED
  BY <1>1, <1>6, NoCycleMonotone

\* Tasks whose parents stay or go, but for one that may become a part of p.
LEMMA DeskLinks ==
  ASSUME DeskInv, task' \in Boards, NEW t, NEW p, p \in Tasks => Desk!ParentOk(t, p), p \in Tasks \cup {None},
         \A u \in Tasks : task'[u].parent \in {task[u].parent, None} \cup (IF u = t THEN {p} ELSE {})
  PROVE  NoTaskInItself'
<1> DEFINE d == Desk!ParentEdges
           e == Desk!ParentEdges'
<1>1. \A u \in Tasks : /\ d[u] = {task[u].parent} \ {None} /\ d[u] \subseteq Tasks
                       /\ e[u] = {task'[u].parent} \ {None}
  BY DEF Desk!ParentEdges, DeskInv, Boards
<1>2. NoCycle(Tasks, d)
  BY Rooted DEF DeskInv
<1>3. \A u \in Tasks : e[u] \subseteq d[u] \cup (IF u = t THEN {p} \ {None} ELSE {})
  BY <1>1
<1> HIDE DEF d, e
<1>4. CASE t \in Tasks /\ p \in Tasks /\ p # None
  <2>1. t \notin Reach(Tasks, d, p)
    BY <1>4, SameGraphs DEF d, Desk!ParentOk
  <2>2. \A u \in Tasks : e[u] \subseteq d[u] \cup (IF u = t THEN {p} ELSE {})
    BY <1>3
  <2>3. NoCycle(Tasks, e)
    BY <1>1, <1>2, <1>4, <2>1, <2>2, NewLink
  <2> QED
    BY <2>3, SameGraphs DEF e, NoTaskInItself, Desk!NoTaskInItself
<1>5. CASE ~(t \in Tasks /\ p \in Tasks /\ p # None)
  <2>1. \A u \in Tasks : e[u] \subseteq d[u] /\ d[u] \subseteq Tasks
    BY <1>1, <1>3, <1>5
  <2>2. NoCycle(Tasks, e)
    BY <1>2, <2>1, NoCycleMonotone
  <2> QED
    BY <2>2, SameGraphs DEF e, NoTaskInItself, Desk!NoTaskInItself
<1> QED
  BY <1>4, <1>5

\* A step of one call, in which no task changes.
LEMMA DeskGoes ==
  ASSUME DeskInv, UNCHANGED task, NEW a \in Agents, NEW c \in Calls, job' = [job EXCEPT ![a] = c]
  PROVE  DeskInv'
BY DEF DeskInv, NoTaskInItself, Desk!NoTaskInItself, Desk!ParentEdges

LEMMA DeskEnds ==
  ASSUME DeskInv, UNCHANGED task, NEW a \in Agents,
         Desk!Fails(a) \/ Desk!Refuses(a) \/ Desk!Done(a)
  PROVE  DeskInv'
<1>1. job' = [job EXCEPT ![a] = Desk!Idle]
  BY DEF Desk!Fails, Desk!Refuses, Desk!Done, Desk!Goes
<1> QED
  BY <1>1, IdleIsCall, DeskGoes

LEMMA MadeIsCall ==
  ASSUME NEW tool \in CallTools, NEW left \in SUBSET (Desk!Names \cup Desk!Everybody \cup Tasks),
         NEW kind \in {"none", "note", "steer"}, NEW of \in Tasks \cup {None}
  PROVE  Desk!Made(tool, left, kind, of) \in Calls
BY DEF Desk!Made, Calls

LEMMA DeskBegin ==
  ASSUME DeskInv, NEW a \in Agents, Desk!Begin(a)
  PROVE  DeskInv'
<1>1. PICK c \in Desk!Sends \cup Desk!Asks \cup Desk!Updates \cup Desk!Batches \cup Desk!Others :
        job' = [job EXCEPT ![a] = c]
  BY DEF Desk!Begin
<1>2. \E tool \in CallTools, left \in SUBSET (Desk!Names \cup Desk!Everybody \cup Tasks),
         kind \in {"none", "note", "steer"}, of \in Tasks \cup {None} :
        c = Desk!Made(tool, left, kind, of)
  <2>1. CASE c \in Desk!Sends
    BY <2>1 DEF Desk!Sends, Desk!Names, Desk!Everybody, CallTools
  <2>2. CASE c \in Desk!Asks
    BY <2>2 DEF Desk!Asks, Desk!Names, CallTools
  <2>3. CASE c \in Desk!Updates
    BY <2>3 DEF Desk!Updates, CallTools
  <2>4. CASE c \in Desk!Batches
    BY <2>4 DEF Desk!Batches, CallTools
  <2>5. CASE c \in Desk!Others
    BY <2>5 DEF Desk!Others, CallTools
  <2> QED
    BY <1>1, <2>1, <2>2, <2>3, <2>4, <2>5
<1>3. c \in Calls
  BY <1>2, MadeIsCall
<1> QED
  BY <1>1, <1>3, DeskGoes DEF Desk!Begin

LEMMA DeskSends ==
  ASSUME DeskInv, NEW a \in Agents,
         Desk!SendLooks(a) \/ Desk!PostFails(a) \/ \E n \in Desk!Names : Desk!Post(a, n)
  PROVE  DeskInv'
<1>1. UNCHANGED task
  BY DEF Desk!SendLooks, Desk!PostFails, Desk!Post
<1>2. CASE Desk!Fails(a) \/ Desk!Refuses(a) \/ Desk!Done(a)
  BY <1>1, <1>2, DeskEnds
<1>3. CASE /\ Desk!SendLooks(a) /\ ~(Desk!Fails(a) \/ Desk!Refuses(a) \/ Desk!Done(a))
  <2> DEFINE to == Desk!Recipients(a, job[a].left)
             c == [job[a] EXCEPT !.step = "post", !.left = to]
  <2>1. to \subseteq Desk!Members \cup {Lead} /\ job' = [job EXCEPT ![a] = c]
    BY <1>3 DEF Desk!SendLooks, Desk!Goes
  <2>2. to \in SUBSET (Desk!Names \cup Desk!Everybody \cup Tasks)
    BY <2>1 DEF Desk!Members, Desk!Names
  <2> HIDE DEF to
  <2>3. c \in Calls
    BY <2>2 DEF DeskInv, Calls
  <2> HIDE DEF c
  <2> QED
    BY <1>1, <2>1, <2>3, DeskGoes
<1>4. CASE \E n \in Desk!Names : Desk!Post(a, n)
  <2>1. PICK n \in Desk!Names : Desk!Post(a, n)
    BY <1>4
  <2> DEFINE left == job[a].left \ {n}
             c == IF left = {} THEN Desk!Idle ELSE [job[a] EXCEPT !.left = left]
  <2>2. job' = [job EXCEPT ![a] = c]
    BY <2>1 DEF Desk!Post
  <2>3. c \in Calls
    BY IdleIsCall DEF DeskInv, Calls
  <2> HIDE DEF c
  <2> QED
    BY <1>1, <2>2, <2>3, DeskGoes
<1> QED
  BY <1>2, <1>3, <1>4 DEF Desk!PostFails

\* A summary goes from child to child.
LEMMA LinksAreCalls ==
  ASSUME DeskInv, NEW a \in Agents, NEW k \in Tasks
  PROVE  Desk!Linking(a, k) \in Calls /\ Desk!Linked(a, k) \in Calls
<1> DEFINE j == job[a]
<1>1. j \in Calls
  BY DEF DeskInv
<1>2. j.left \ {k} \in SUBSET (Desk!Names \cup Desk!Everybody \cup Tasks)
  BY <1>1 DEF Calls
<1> HIDE DEF j
<1>3. [j EXCEPT !.step = "link", !.child = k] \in Calls
  BY <1>1 DEF Calls
<1>4. [j EXCEPT !.step = "child", !.left = j.left \ {k}, !.child = None] \in Calls
  BY <1>1, <1>2 DEF Calls
<1> QED
  BY <1>3, <1>4 DEF j, Desk!Linking, Desk!Linked

LEMMA DeskLooks ==
  ASSUME DeskInv, NEW a \in Agents,
         \/ Desk!UpdateLooks(a) \/ Desk!BatchLooks(a) \/ \E k \in Tasks : Desk!ChildLooks(a, k)
  PROVE  DeskInv'
<1>1. UNCHANGED task
  <2>1. CASE Desk!UpdateLooks(a) \/ Desk!BatchLooks(a)
    BY <2>1 DEF Desk!UpdateLooks, Desk!BatchLooks
  <2>2. ASSUME NEW k \in Tasks, Desk!ChildLooks(a, k) PROVE UNCHANGED task
    BY <2>2, Zenon DEF Desk!ChildLooks
  <2> QED
    BY <2>1, <2>2
<1>2. CASE Desk!Fails(a)
  BY <1>1, <1>2, DeskEnds
<1>3. CASE ~Desk!Fails(a) /\ ~\E k \in Tasks : Desk!ChildLooks(a, k)
  <2>1. PICK st \in {"write", "child"} : job' = [job EXCEPT ![a] = [job[a] EXCEPT !.step = st]]
    BY <1>3 DEF Desk!UpdateLooks, Desk!BatchLooks, Desk!Goes
  <2> DEFINE c == [job[a] EXCEPT !.step = st]
  <2>2. c \in Calls /\ job' = [job EXCEPT ![a] = c]
    BY <2>1 DEF DeskInv, Calls
  <2> HIDE DEF c
  <2> QED
    BY <1>1, <2>2, DeskGoes
<1>4. CASE ~Desk!Fails(a) /\ \E k \in Tasks : Desk!ChildLooks(a, k)
  <2>1. PICK k \in Tasks : Desk!ChildLooks(a, k)
    BY <1>4
  <2>2. Desk!Goes(a, Desk!Linked(a, k)) \/ Desk!Goes(a, Desk!Linking(a, k))
    BY <1>4, <2>1, Zenon DEF Desk!ChildLooks
  <2>3. \E c \in Calls : job' = [job EXCEPT ![a] = c]
    BY <2>2, LinksAreCalls, Zenon DEF Desk!Goes
  <2> QED
    BY <1>1, <2>3, DeskGoes
<1> QED
  BY <1>2, <1>3, <1>4

\* A task becomes another one that is a part of p, or of what it was a part of.
LEMMA DeskWrites ==
  ASSUME DeskInv, NEW t, NEW p \in Tasks \cup {None}, NEW new, task' = [task EXCEPT ![t] = new],
         new \in [there : BOOLEAN, owner : Agents \cup {None}, parent : Tasks \cup {None}],
         new.parent = p, p \in Tasks => Desk!ParentOk(t, p) \/ (t \in Tasks /\ p = task[t].parent)
  PROVE  task' \in Boards /\ NoTaskInItself'
<1>1. task' \in Boards
  BY DEF DeskInv, Boards
<1>2. \A u \in Tasks : task'[u].parent = IF u = t THEN p ELSE task[u].parent
  BY DEF DeskInv, Boards
<1>3. CASE p \in Tasks => Desk!ParentOk(t, p)
  BY <1>1, <1>2, <1>3, DeskLinks
<1>4. CASE t \in Tasks /\ p = task[t].parent
  <2>1. None \in Tasks \cup {None} /\ (None \in Tasks => Desk!ParentOk(t, None))
    BY DEF Desk!ParentOk
  <2>2. \A u \in Tasks : task'[u].parent \in {task[u].parent, None} \cup (IF u = t THEN {None} ELSE {})
    BY <1>2, <1>4
  <2> QED
    BY <1>1, <2>1, <2>2, DeskLinks
<1> QED
  BY <1>3, <1>4

LEMMA DeskUpdateWrites ==
  ASSUME DeskInv, NEW a \in Agents, Desk!UpdateWrites(a)
  PROVE  DeskInv'
<1>1. CASE Desk!Fails(a) /\ UNCHANGED task
  BY <1>1, DeskEnds
<1>2. CASE ~(Desk!Fails(a) /\ UNCHANGED task)
  <2> DEFINE t == job[a].of
  <2>1. PICK o \in Agents \cup {task[t].owner}, p \in Tasks \cup {task[t].parent} :
          /\ task[t].there /\ (p # task[t].parent => Desk!ParentOk(t, p))
          /\ task' = [task EXCEPT ![t] = [there |-> TRUE, owner |-> o, parent |-> p]] /\ Desk!Done(a)
    BY <1>2 DEF Desk!UpdateWrites
  <2>2. job' \in [Agents -> Calls]
    BY <2>1, IdleIsCall DEF Desk!Done, Desk!Goes, DeskInv
  <2>3. CASE t \in Tasks
    <3>1. o \in Agents \cup {None} /\ p \in Tasks \cup {None}
      BY <2>3 DEF DeskInv, Boards
    <3> DEFINE new == [there |-> TRUE, owner |-> o, parent |-> p]
    <3>2. /\ new \in [there : BOOLEAN, owner : Agents \cup {None}, parent : Tasks \cup {None}]
          /\ new.parent = p
      BY <3>1
    <3>3. task' = [task EXCEPT ![t] = new]
      BY <2>1
    <3> HIDE DEF new, t
    <3>4. p \in Tasks => Desk!ParentOk(t, p) \/ (t \in Tasks /\ p = task[t].parent)
      BY <2>1, <2>3, Zenon
    <3>5. task' \in Boards /\ NoTaskInItself'
      BY <3>1, <3>2, <3>3, <3>4, DeskWrites, Zenon
    <3> QED
      BY <2>2, <3>5 DEF DeskInv
  <2>4. CASE t \notin Tasks
    <3>1. task' = task
      BY <2>1, <2>4 DEF DeskInv, Boards
    <3> QED
      BY <2>1, <3>1, DeskEnds
  <2> QED
    BY <2>3, <2>4
<1> QED
  BY <1>1, <1>2

LEMMA DeskTaskCreate ==
  ASSUME DeskInv, NEW a \in Agents, Desk!TaskCreate(a)
  PROVE  DeskInv'
<1>1. CASE Desk!Fails(a) /\ UNCHANGED task
  BY <1>1, DeskEnds
<1>2. CASE ~(Desk!Fails(a) /\ UNCHANGED task)
  <2>1. PICK t \in Tasks, p \in Tasks \cup {None} :
          Desk!ParentOk(t, p) /\ task' = [task EXCEPT ![t] = Desk!Part(p)] /\ Desk!Done(a)
    BY <1>2 DEF Desk!TaskCreate
  <2>2. job' \in [Agents -> Calls]
    BY <2>1, IdleIsCall DEF Desk!Done, Desk!Goes, DeskInv
  <2>3. /\ Desk!Part(p) \in [there : BOOLEAN, owner : Agents \cup {None}, parent : Tasks \cup {None}]
        /\ Desk!Part(p).parent = p
    BY PartIs
  <2>4. task' \in Boards /\ NoTaskInItself'
    BY <2>1, <2>3, DeskWrites
  <2> QED
    BY <2>2, <2>4 DEF DeskInv
<1> QED
  BY <1>1, <1>2

LEMMA DeskChildLinks ==
  ASSUME DeskInv, NEW a \in Agents, Desk!ChildLinks(a)
  PROVE  DeskInv'
<1> DEFINE k == job[a].child
           p == job[a].of
<1>1. CASE Desk!Fails(a) /\ UNCHANGED task
  BY <1>1, DeskEnds
<1>2. CASE ~(Desk!Fails(a) /\ UNCHANGED task)
  <2>1. /\ task[k].there /\ Desk!ParentOk(k, p) /\ task' = [task EXCEPT ![k].parent = p]
        /\ job' = [job EXCEPT ![a] = Desk!Linked(a, k)]
    BY <1>2 DEF Desk!ChildLinks, Desk!Goes
  <2>2. job[a] \in Calls /\ p \in Tasks \cup {None}
    BY DEF DeskInv, Calls
  <2>3. job' \in [Agents -> Calls]
    BY <2>1, <2>2 DEF DeskInv, Calls, Desk!Linked
  <2> HIDE DEF k, p
  <2>4. task' \in Boards
    BY <2>1, <2>2 DEF DeskInv, Boards
  <2>5. \A u \in Tasks : task'[u].parent = IF u = k THEN p ELSE task[u].parent
    BY <2>1 DEF DeskInv, Boards
  <2>6. NoTaskInItself'
    BY <2>1, <2>2, <2>4, <2>5, DeskLinks
  <2> QED
    BY <2>3, <2>4, <2>6 DEF DeskInv
<1> QED
  BY <1>1, <1>2

LEMMA DeskOthers ==
  ASSUME DeskInv, NEW a \in Agents,
         \/ Desk!BatchTells(a) \/ Desk!ReadInbox(a) \/ Desk!OtherTool(a) \/ Desk!Kill(a)
         \/ Desk!Roster(a) \/ \E b \in Agents : Desk!AskCard(a, b)
  PROVE  DeskInv'
<1>1. UNCHANGED task
  BY DEF Desk!BatchTells, Desk!ReadInbox, Desk!OtherTool, Desk!Kill, Desk!Roster, Desk!AskCard
<1>2. job' = [job EXCEPT ![a] = Desk!Idle] \/ job' = job
  BY DEF Desk!BatchTells, Desk!ReadInbox, Desk!OtherTool, Desk!Kill, Desk!Roster, Desk!AskCard,
         Desk!Done, Desk!Fails, Desk!Goes
<1>3. CASE job' = job
  BY <1>1, <1>3 DEF DeskInv, NoTaskInItself, Desk!NoTaskInItself, Desk!ParentEdges
<1> QED
  BY <1>1, <1>2, <1>3, IdleIsCall, DeskGoes

LEMMA DeskAssign ==
  ASSUME DeskInv, NEW t \in Tasks, NEW o \in Agents, Desk!Assign(t, o)
  PROVE  DeskInv'
<1>1. task' = [task EXCEPT ![t].owner = o] /\ job' = job
  BY DEF Desk!Assign
<1>2. task' \in Boards /\ \A u \in Tasks : task'[u].parent = task[u].parent
  BY <1>1 DEF DeskInv, Boards
<1>3. NoTaskInItself'
  <2>1. None \in Tasks \cup {None} /\ (None \in Tasks => Desk!ParentOk(t, None))
    BY DEF Desk!ParentOk
  <2> QED
    BY <1>2, <2>1, DeskLinks
<1> QED
  BY <1>1, <1>2, <1>3 DEF DeskInv

LEMMA DeskDelete ==
  ASSUME DeskInv, NEW t \in Tasks, Desk!Delete(t)
  PROVE  DeskInv'
<1>1. task' = [u \in Tasks |-> IF u = t THEN Desk!Gone
                ELSE [task[u] EXCEPT !.parent = IF @ = t THEN None ELSE @]] /\ job' = job
  BY DEF Desk!Delete
<1>2. ASSUME NEW u \in Tasks
      PROVE  /\ task'[u] \in [there : BOOLEAN, owner : Agents \cup {None}, parent : Tasks \cup {None}]
             /\ task'[u].parent \in {task[u].parent, None}
  BY <1>1 DEF DeskInv, Boards, Desk!Gone
<1>3. task' \in Boards
  BY <1>1, <1>2 DEF Boards
<1>4. NoTaskInItself'
  <2>1. None \in Tasks \cup {None} /\ (None \in Tasks => Desk!ParentOk(t, None))
    BY DEF Desk!ParentOk
  <2> QED
    BY <1>2, <1>3, <2>1, DeskLinks
<1> QED
  BY <1>1, <1>3, <1>4 DEF DeskInv

LEMMA DeskStep == DeskInv /\ [Desk!Next]_Desk!vars => DeskInv'
<1> SUFFICES ASSUME DeskInv, [Desk!Next]_Desk!vars PROVE DeskInv'
  OBVIOUS
<1>1. CASE UNCHANGED Desk!vars
  BY <1>1 DEF Desk!vars, DeskInv, NoTaskInItself, Desk!NoTaskInItself, Desk!ParentEdges
<1>2. ASSUME NEW a \in Agents,
       \/ Desk!Begin(a) \/ Desk!SendLooks(a) \/ Desk!PostFails(a)
       \/ \E n \in Desk!Names : Desk!Post(a, n)
       \/ Desk!UpdateLooks(a) \/ Desk!UpdateWrites(a) \/ Desk!TaskCreate(a)
       \/ Desk!BatchLooks(a) \/ Desk!ChildLinks(a) \/ Desk!BatchTells(a)
       \/ \E k \in Tasks : Desk!ChildLooks(a, k)
       \/ Desk!ReadInbox(a) \/ Desk!OtherTool(a) \/ Desk!Kill(a) \/ Desk!Roster(a)
       \/ \E b \in Agents : Desk!AskCard(a, b)
      PROVE  DeskInv'
  BY <1>2, DeskBegin, DeskSends, DeskLooks, DeskUpdateWrites, DeskTaskCreate, DeskChildLinks, DeskOthers
<1>3. CASE \E t \in Tasks : Desk!Delete(t) \/ \E o \in Agents : Desk!Assign(t, o)
  BY <1>3, DeskDelete, DeskAssign
<1> QED
  BY <1>1, <1>2, <1>3 DEF Desk!Next

\* However batch summaries, updates and deletions of several agents interleave,
\* the parents of a task never lead back to it (task_batch_summary, task_update).
THEOREM BatchesHaveRoots == Desk!Spec => []NoTaskInItself
<1>1. DeskInv => NoTaskInItself
  BY DEF DeskInv
<1> QED
  BY <1>1, DeskStarts, DeskStep, PTL DEF Desk!Spec

-----------------------------------------------------------------------------
(* Cards: the inductive invariant.                                          *)

AllCards == CardsOf \cup {NoCard}
Events == [of : Agents, version : {c.version : c \in CardsOf}, removed : {FALSE}]
            \cup [of : Agents, version : {0}, removed : {TRUE}]

FileShape ==
  /\ row \in [Agents -> {"none", "host", "own"}] /\ card \in [Agents -> AllCards]
  /\ box \in [Agents -> [there : BOOLEAN, rows : Seq(Events)]]
ProcShape ==
  /\ pc \in [Agents -> {"off", "look", "put", "card", "cast", "on"}]
  /\ runs \in [Agents -> AllCards] /\ todo \in [Agents -> SUBSET Agents]
  /\ going \in [Agents -> {"no", "card", "cast"}] /\ farewell \in [Agents -> SUBSET Agents]
CacheShape ==
  /\ mode \in [Caches -> {"off", "roster", "load", "idle"}]
  /\ known \in [Caches -> [Agents -> AllCards]] /\ names \in [Caches -> SUBSET Agents]
  /\ got \in [Caches -> Nat] /\ queue \in [Caches -> Seq(Events)]

\* Where a process is, and what goes with it.
Standing ==
  \A a \in Agents :
    /\ pc[a] # "off" => going[a] = "no" /\ row[a] = "own" /\ runs[a] \in CardsOf
    /\ pc[a] \in {"cast", "on"} => card[a] = runs[a]
    /\ pc[a] = "on" => todo[a] = {}
    /\ a \notin todo[a] /\ a \notin farewell[a]
    /\ ~box[a].there => box[a].rows = <<>>

Rows(k) == box[k[1]].rows

\* The queue of a cache is the end of what it has taken from its inbox.
Reads(k) ==
  /\ got[k] <= Len(Rows(k)) /\ Len(queue[k]) <= got[k]
  /\ \A i \in 1..Len(queue[k]) : queue[k][i] = Rows(k)[got[k] - Len(queue[k]) + i]
Placed(k) ==
  /\ mode[k] # "off" => pc[k[1]] = "on"
  /\ mode[k] # "idle" => queue[k] = <<>>
  /\ mode[k] # "load" => names[k] = {}
  /\ pc[k[1]] = "put" => got[k] = 0
Reading1 == \A k \in Caches : Reads(k) /\ Placed(k)

\* Up to where the rows have been applied, for good: a child will go through all
\* of them again, and does so once there is one it has not taken.
Applied(k) == got[k] - Len(queue[k])
Settled(k) == IF k[2] = "child" THEN 0 ELSE Applied(k)
Passed(k) == IF k[2] = "child" /\ got[k] < Len(Rows(k)) THEN 0 ELSE Applied(k)

\* No farewell of b is the last that the cache will hear.
Stays(k, b) ==
  \A i \in 1..Len(Rows(k)) : i > Settled(k) /\ Rows(k)[i] = Removed(b) =>
    \E j \in 1..Len(Rows(k)) : j > i /\ Rows(k)[j].of = b /\ ~Rows(k)[j].removed
\* A card of b is still to be looked at.
Due(k, b) ==
  \E i \in 1..Len(Rows(k)) : i > Passed(k) /\ Rows(k)[i].of = b /\ ~Rows(k)[i].removed

\* What a cache that has not missed the card of b relies on: an event that is to
\* come, or the card in its file, and to read it, to have it, or to hear of it.
Heard(k, b) ==
  \/ k[1] \in todo[b]
  \/ /\ card[b] = runs[b] /\ Stays(k, b)
     /\ mode[k] \in {"load", "idle"} => b \in names[k] \/ known[k][b] = runs[b] \/ Due(k, b)
Informed ==
  \A k \in Caches, b \in Agents :
    k[1] # b /\ pc[b] # "off" /\ <<k, b>> \notin missed => Heard(k, b)

CardsShape == FileShape /\ ProcShape /\ CacheShape
CardsInv == CardsShape /\ Standing /\ Reading1 /\ Informed

-----------------------------------------------------------------------------
(* Cards: caches and their inboxes.                                         *)

LEMMA IsCache ==
  /\ Askers \subseteq Agents
  /\ \A k \in Caches : k[1] \in Agents /\ (k = Loop(k[1]) \/ (k = Child(k[1]) /\ k[1] \in Askers))
  /\ \A a \in Agents : Loop(a) \in Caches /\ Loop(a)[1] = a /\ Loop(a)[2] = "loop"
  /\ \A a \in Askers : Child(a) \in Caches /\ Child(a)[1] = a /\ Child(a)[2] = "child"
<1>1. Askers \subseteq Agents
  BY CardsAssumption
<1>2. \A a \in Agents : Loop(a) = <<a, "loop">> /\ Loop(a) \in Caches
  BY DEF Caches, Loop
<1>3. \A a \in Askers : Child(a) = <<a, "child">> /\ Child(a) \in Caches
  BY DEF Caches, Child
<1>4. ASSUME NEW k \in Caches
      PROVE  k[1] \in Agents /\ (k = Loop(k[1]) \/ (k = Child(k[1]) /\ k[1] \in Askers))
  <2>1. CASE k \in Agents \X {"loop"}
    <3>1. PICK a \in Agents : k = <<a, "loop">> /\ k[1] = a
      BY <2>1
    <3>2. k = Loop(a)
      BY <3>1 DEF Loop
    <3> QED
      BY <3>1, <3>2
  <2>2. CASE k \in Askers \X {"child"}
    <3>1. PICK a \in Askers : k = <<a, "child">> /\ k[1] = a
      BY <2>2
    <3> QED
      BY <1>1, <3>1 DEF Child
  <2> QED
    BY <2>1, <2>2 DEF Caches
<1> QED
  BY <1>1, <1>2, <1>3, <1>4

\* The greatest of some numbers up to n.
LEMMA GreatestOf ==
  ASSUME NEW n \in Nat, NEW S \in SUBSET (1..n), S # {}
  PROVE  \E m \in S : \A i \in S : i <= m
<1> DEFINE T == {x \in Nat : \E i \in S : x = n - i}
<1>1. T \in SUBSET Nat /\ T # {}
  <2>1. PICK i \in S : TRUE
    OBVIOUS
  <2>2. n - i \in T
    BY <2>1
  <2> QED
    BY <2>2
<1>2. PICK x \in T : \A y \in T : x <= y
  BY <1>1, LeastOf
<1> QED
  BY <1>2

\* What is left of a sequence after its first g elements.
LEMMA RestOf ==
  ASSUME NEW S, NEW s \in Seq(S), NEW g \in 0..Len(s)
  PROVE  /\ SubSeq(s, g + 1, Len(s)) \in Seq(S) /\ Len(SubSeq(s, g + 1, Len(s))) = Len(s) - g
         /\ \A i \in 1..Len(SubSeq(s, g + 1, Len(s))) : SubSeq(s, g + 1, Len(s))[i] = s[g + i]
OBVIOUS

LEMMA NoFarewell ==
  ASSUME CardsShape, NEW k \in Caches, NEW b \in Agents, Reads(k), ~Pops(k, b)
  PROVE  Stays(k, b)
<1> DEFINE rows == Rows(k)
           later == SubSeq(rows, got[k] + 1, Len(rows))
           rs == IF k[2] = "child" THEN rows ELSE queue[k] \o later
<1>1. /\ rows \in Seq(Events) /\ queue[k] \in Seq(Events) /\ got[k] \in Nat
      /\ got[k] <= Len(rows) /\ Len(queue[k]) <= got[k] /\ Settled(k) \in 0..Len(rows)
  BY IsCache DEF CardsShape, FileShape, CacheShape, Reads, Rows, Settled, Applied
<1>2. /\ later \in Seq(Events) /\ Len(later) = Len(rows) - got[k]
      /\ \A i \in 1..Len(later) : later[i] = rows[got[k] + i]
  <2>1. rows \in Seq(Events) /\ got[k] \in 0..Len(rows)
    BY <1>1
  <2> HIDE DEF rows
  <2> QED
    BY <2>1, RestOf
<1>3. Len(rs) = Len(rows) - Settled(k) /\ \A i \in 1..Len(rs) : rs[i] = rows[Settled(k) + i]
  <2>1. CASE k[2] = "child"
    BY <1>1, <2>1 DEF Settled
  <2>2. CASE k[2] # "child"
    <3>1. /\ rs = queue[k] \o later /\ Settled(k) = got[k] - Len(queue[k])
          /\ Len(rs) = Len(queue[k]) + Len(later)
          /\ \A i \in 1..Len(rs) : rs[i] = IF i <= Len(queue[k]) THEN queue[k][i] ELSE later[i - Len(queue[k])]
      <4>1. rs = queue[k] \o later /\ Settled(k) = got[k] - Len(queue[k])
        BY <2>2 DEF Settled, Applied
      <4> HIDE DEF rs, later
      <4>2. /\ Len(queue[k] \o later) = Len(queue[k]) + Len(later)
            /\ \A i \in 1..Len(queue[k]) + Len(later) : (queue[k] \o later)[i] =
                 IF i <= Len(queue[k]) THEN queue[k][i] ELSE later[i - Len(queue[k])]
        <5>1. queue[k] \in Seq(Events) /\ later \in Seq(Events)
          BY <1>1, <1>2
        <5> QED
          BY <5>1, ConcatProperties, Zenon
      <4> QED
        BY <4>1, <4>2
    <3>2. \A i \in 1..Len(queue[k]) : queue[k][i] = rows[got[k] - Len(queue[k]) + i]
      BY DEF Reads
    <3>3. queue[k] \in Seq(Events) /\ Len(queue[k]) \in Nat /\ Len(later) \in Nat /\ Len(rows) \in Nat
      BY <1>1, <1>2
    <3> HIDE DEF rs, later, rows
    <3>4. Len(rs) = Len(rows) - Settled(k)
      BY <1>1, <1>2, <3>1, <3>3
    <3>5. ASSUME NEW i \in 1..Len(rs) PROVE rs[i] = rows[Settled(k) + i]
      <4>1. CASE i <= Len(queue[k])
        BY <1>1, <3>1, <3>2, <3>3, <4>1 DEF Rows
      <4>2. CASE i > Len(queue[k])
        <5>1. i - Len(queue[k]) \in 1..Len(later)
          BY <1>1, <3>1, <3>3, <3>4, <4>2
        <5>2. got[k] + (i - Len(queue[k])) = Settled(k) + i
          BY <1>1, <3>1, <3>3
        <5> QED
          BY <1>2, <3>1, <4>2, <5>1, <5>2
      <4> QED
        BY <3>3, <4>1, <4>2
    <3> QED
      BY <3>4, <3>5
  <2> QED
    BY <2>1, <2>2
<1>a. rs \in Seq(Events)
  <2> HIDE DEF later
  <2> QED
    BY <1>1, <1>2, ConcatProperties
<1>4. /\ DOMAIN rs = 1..Len(rs)
      /\ \A i \in DOMAIN rs : rs[i] = Removed(b) => \E j \in DOMAIN rs : j > i /\ rs[j].of = b
  <2>1. ~\E i \in DOMAIN rs : rs[i] = Removed(b) /\ \A j \in DOMAIN rs : j > i => rs[j].of # b
    BY DEF Pops, Rows
  <2> HIDE DEF rs
  <2> QED
    BY <1>a, <2>1
<1> HIDE DEF rs, later
<1> SUFFICES ASSUME NEW i \in 1..Len(rows), i > Settled(k), rows[i] = Removed(b)
             PROVE  \E j \in 1..Len(rows) : j > i /\ rows[j].of = b /\ ~rows[j].removed
  BY DEF Stays
<1> DEFINE S == {j \in 1..Len(rows) : j > i /\ rows[j].of = b}
<1>5. \A x \in 1..Len(rows) : x > Settled(k) /\ rows[x] = Removed(b) =>
        \E j \in 1..Len(rows) : j > x /\ rows[j].of = b
  <2> SUFFICES ASSUME NEW x \in 1..Len(rows), x > Settled(k), rows[x] = Removed(b)
               PROVE  \E j \in 1..Len(rows) : j > x /\ rows[j].of = b
    OBVIOUS
  <2>1. x - Settled(k) \in DOMAIN rs /\ rs[x - Settled(k)] = Removed(b)
    BY <1>1, <1>3, <1>4
  <2>2. PICK y \in DOMAIN rs : y > x - Settled(k) /\ rs[y].of = b
    BY <1>4, <2>1
  <2> QED
    BY <1>1, <1>3, <1>4, <2>2
<1>6. S \in SUBSET (1..Len(rows)) /\ S # {} /\ Len(rows) \in Nat
  BY <1>1, <1>5
<1>7. PICK m \in S : \A j \in S : j <= m
  BY <1>6, GreatestOf
<1>8. rows[m] # Removed(b)
  <2> SUFFICES ASSUME rows[m] = Removed(b) PROVE FALSE
    OBVIOUS
  <2>1. PICK j \in 1..Len(rows) : j > m /\ rows[j].of = b
    BY <1>1, <1>5, <1>7
  <2> QED
    BY <1>1, <1>7, <2>1
<1>9. rows[m] \in Events /\ rows[m].of = b
  BY <1>1, <1>7
<1>10. ~rows[m].removed
  BY <1>8, <1>9 DEF Events, Removed
<1> QED
  BY <1>7, <1>9, <1>10

\* Whoever is told, or was already, keeps what was relied on while nothing of that changes.
LEMMA HeardStays ==
  ASSUME NEW k \in Caches, NEW b \in Agents, Heard(k, b),
         k[1] \in todo[b] => k[1] \in todo'[b],
         card[b] = runs[b] => card'[b] = runs'[b] /\ runs'[b] = runs[b],
         Rows(k)' = Rows(k), got'[k] = got[k], queue'[k] = queue[k],
         mode'[k] \in {"load", "idle"} =>
           /\ mode[k] \in {"load", "idle"} /\ known'[k][b] = known[k][b]
           /\ b \in names[k] => b \in names'[k]
  PROVE  Heard(k, b)'
<1>1. Stays(k, b) => Stays(k, b)'
  BY DEF Stays, Settled, Applied
<1>2. Due(k, b) => Due(k, b)'
  BY DEF Due, Passed, Applied
<1> QED
  BY <1>1, <1>2 DEF Heard

\* The same for all caches and peers.
LEMMA InformedStays ==
  ASSUME CardsInv,
         \A k \in Caches, b \in Agents :
           k[1] # b /\ pc'[b] # "off" /\ <<k, b>> \notin missed' =>
             /\ pc[b] # "off" /\ <<k, b>> \notin missed
             /\ k[1] \in todo[b] => k[1] \in todo'[b]
             /\ card[b] = runs[b] => card'[b] = runs'[b] /\ runs'[b] = runs[b]
             /\ Rows(k)' = Rows(k) /\ got'[k] = got[k] /\ queue'[k] = queue[k]
             /\ mode'[k] \in {"load", "idle"} =>
                  /\ mode[k] \in {"load", "idle"} /\ known'[k][b] = known[k][b]
                  /\ b \in names[k] => b \in names'[k]
  PROVE  Informed'
BY HeardStays DEF CardsInv, Informed

LEMMA ReadingStays ==
  ASSUME CardsInv,
         \A k \in Caches : /\ Rows(k)' = Rows(k) /\ got'[k] = got[k] /\ queue'[k] = queue[k]
                           /\ Placed(k)'
  PROVE  Reading1'
BY DEF CardsInv, Reading1, Reads

USE DEF files, procs, caches, counts

-----------------------------------------------------------------------------
(* Cards: the steps.                                                        *)

LEMMA Booting ==
  ASSUME CardsInv, NEW a \in Agents, NEW left, pc[a] \notin {"off", "on"}, AfterCast(a, left), Boots(a, left),
         UNCHANGED <<names, queue, got>>
  PROVE  \A k \in Caches : Placed(k)'
<1>1. /\ pc' = [pc EXCEPT ![a] = IF left = {} THEN "on" ELSE "cast"]
      /\ mode' = [mode EXCEPT ![Loop(a)] = IF left = {} THEN "roster" ELSE "off"]
  BY DEF AfterCast, Boots
<1> SUFFICES ASSUME NEW k \in Caches PROVE Placed(k)'
  OBVIOUS
<1>2. Placed(k) /\ k[1] \in Agents /\ Loop(a) \in Caches /\ Loop(a)[1] = a
  BY IsCache DEF CardsInv, Reading1
<1>3. CASE k[1] = a
  <2>1. mode[k] = "off" /\ names[k] = {} /\ queue[k] = <<>>
    BY <1>2, <1>3 DEF Placed
  <2>2. pc'[k[1]] = (IF left = {} THEN "on" ELSE "cast")
    BY <1>1, <1>3 DEF CardsInv, CardsShape, ProcShape
  <2>3. mode'[k] = IF k = Loop(a) /\ left = {} THEN "roster" ELSE "off"
    BY <1>1, <2>1 DEF CardsInv, CardsShape, CacheShape
  <2> QED
    BY <2>1, <2>2, <2>3 DEF Placed
<1>4. CASE k[1] # a
  <2>1. k # Loop(a)
    BY <1>2, <1>4
  <2>2. mode'[k] = mode[k] /\ pc'[k[1]] = pc[k[1]]
    BY <1>1, <1>2, <1>4, <2>1 DEF CardsInv, CardsShape, CacheShape, ProcShape
  <2> QED
    BY <1>2, <2>2 DEF Placed
<1> QED
  BY <1>3, <1>4

LEMMA CardsEnsureLooks ==
  ASSUME CardsInv, NEW a \in Agents, EnsureLooks(a)
  PROVE  CardsInv'
<1>1. CardsShape'
  BY IsCache DEF EnsureLooks, CardsInv, CardsShape, FileShape, ProcShape, CacheShape, AllCards
<1>2. Standing'
  BY DEF EnsureLooks, CardsInv, CardsShape, FileShape, ProcShape, CacheShape, AllCards, Standing
<1>3. Reading1'
  <2>1. \A k \in Caches : Rows(k)' = Rows(k) /\ got'[k] = got[k] /\ queue'[k] = queue[k]
    BY DEF EnsureLooks, Rows
  <2>2. \A k \in Caches : Placed(k)'
    BY IsCache DEF EnsureLooks, CardsInv, CardsShape, FileShape, ProcShape, CacheShape, AllCards, Standing, Reading1, Reads, Placed, Rows
  <2> QED
    BY <2>1, <2>2, ReadingStays
<1>4. Informed'
  BY IsCache, InformedStays DEF EnsureLooks, CardsInv, CardsShape, FileShape, ProcShape, CacheShape, AllCards, Rows
<1> QED
  BY <1>1, <1>2, <1>3, <1>4 DEF CardsInv

LEMMA CardsEnsurePuts ==
  ASSUME CardsInv, NEW a \in Agents, EnsurePuts(a)
  PROVE  CardsInv'
<1>1. CardsShape'
  BY IsCache DEF EnsurePuts, CardsInv, CardsShape, FileShape, ProcShape, CacheShape, AllCards
<1>2. Standing'
  BY IsCache DEF EnsurePuts, CardsInv, CardsShape, FileShape, ProcShape, CacheShape, AllCards, Standing
<1>3. Reading1'
  BY IsCache DEF EnsurePuts, CardsInv, CardsShape, FileShape, ProcShape, CacheShape, AllCards, Reading1, Reads, Placed, Rows
<1>4. Informed'
  <2>1. SUFFICES ASSUME NEW k \in Caches, NEW b \in Agents, k[1] # b, pc'[b] # "off",
                        <<k, b>> \notin missed'
                 PROVE  Heard(k, b)'
    BY DEF Informed
  <2>2. Heard(k, b)
    BY <2>1 DEF EnsurePuts, CardsInv, CardsShape, ProcShape, Informed
  <2>3. CASE k[1] # a
    BY <2>2, <2>3, IsCache, HeardStays DEF EnsurePuts, CardsInv, CardsShape, FileShape, Rows
  <2>4. CASE k[1] = a
    <3>1. Rows(k)' = <<>> /\ mode'[k] = "off"
      BY <2>4, IsCache DEF EnsurePuts, CardsInv, CardsShape, FileShape, CacheShape, Reading1, Placed, Rows
    <3> QED
      BY <2>2, <3>1 DEF Heard, Stays, EnsurePuts
  <2> QED
    BY <2>3, <2>4
<1> QED
  BY <1>1, <1>2, <1>3, <1>4 DEF CardsInv

LEMMA CardsWriteCard ==
  ASSUME CardsInv, NEW a \in Agents, WriteCard(a)
  PROVE  CardsInv'
<1>1. CardsShape'
  BY IsCache DEF WriteCard, AfterCast, Boots, CardsInv, CardsShape, FileShape, ProcShape, CacheShape, AllCards
<1>2. Standing'
  BY IsCache DEF WriteCard, AfterCast, Boots, CardsInv, CardsShape, FileShape, ProcShape, CacheShape, AllCards, Standing
<1>3. Reading1'
  <2>1. \A k \in Caches : Rows(k)' = Rows(k) /\ got'[k] = got[k] /\ queue'[k] = queue[k]
    BY DEF WriteCard, AfterCast, Boots, Rows
  <2>2. \A k \in Caches : Placed(k)'
    BY IsCache DEF WriteCard, AfterCast, Boots, CardsInv, CardsShape, FileShape, ProcShape, CacheShape, AllCards, Standing, Reading1, Reads, Placed, Rows
  <2> QED
    BY <2>1, <2>2, ReadingStays
<1>4. Informed'
  BY IsCache, InformedStays DEF WriteCard, AfterCast, Boots, CardsInv, CardsShape, FileShape, ProcShape, CacheShape, AllCards, Rows
<1> QED
  BY <1>1, <1>2, <1>3, <1>4 DEF CardsInv

LEMMA CardsCastFails ==
  ASSUME CardsInv, NEW a \in Agents, NEW b \in todo[a], CastFails(a, b)
  PROVE  CardsInv'
<1>1. CardsShape'
  BY IsCache DEF CastFails, AfterCast, Boots, CardsInv, CardsShape, FileShape, ProcShape, CacheShape, AllCards
<1>2. Standing'
  <2>1. PICK left \in SUBSET Agents : left = todo[a] \ {b}
    BY DEF CardsInv, CardsShape, ProcShape
  <2>2. /\ pc[a] = "cast" /\ todo' = [todo EXCEPT ![a] = left]
        /\ pc' = [pc EXCEPT ![a] = IF left = {} THEN "on" ELSE "cast"]
        /\ a \notin left /\ UNCHANGED <<files, runs, going, farewell>>
    BY <2>1 DEF CastFails, AfterCast, CardsInv, Standing
  <2> QED
    BY <2>2 DEF CardsInv, CardsShape, ProcShape, Standing
<1>3. Reading1'
  <2>1. \A k \in Caches : Rows(k)' = Rows(k) /\ got'[k] = got[k] /\ queue'[k] = queue[k]
    BY DEF CastFails, AfterCast, Boots, Faulty, Rows
  <2>2. \A k \in Caches : Placed(k)'
    BY Booting DEF CastFails
  <2> QED
    BY <2>1, <2>2, ReadingStays
<1>4. Informed'
  <2>1. SUFFICES ASSUME NEW k \in Caches, NEW c \in Agents, k[1] # c, pc'[c] # "off",
                        <<k, c>> \notin missed'
                 PROVE  Heard(k, c)'
    BY DEF Informed
  <2>2. Heard(k, c)
    BY <2>1 DEF CastFails, AfterCast, CardsInv, CardsShape, ProcShape, Informed
  <2>3. c = a => k[1] # b
    BY <2>1, IsCache DEF CastFails, CachesOf
  <2>4. k[1] \in todo[c] => k[1] \in todo'[c]
    BY <2>3 DEF CastFails, CardsInv, CardsShape, ProcShape
  <2>5. /\ mode'[k] = mode[k] \/ mode'[k] \in {"off", "roster"}
        /\ UNCHANGED <<files, runs, known, names, got, queue>>
    BY IsCache DEF CastFails, Boots, CardsInv, CardsShape, CacheShape
  <2> QED
    BY <2>2, <2>4, <2>5, HeardStays DEF Rows
<1> QED
  BY <1>1, <1>2, <1>3, <1>4 DEF CardsInv

LEMMA CardsLeaveCard ==
  ASSUME CardsInv, NEW a \in Agents, LeaveCard(a)
  PROVE  CardsInv'
<1>1. CardsShape'
  BY IsCache DEF LeaveCard, CardsInv, CardsShape, FileShape, ProcShape, CacheShape, AllCards
<1>2. Standing'
  BY IsCache DEF LeaveCard, CardsInv, CardsShape, FileShape, ProcShape, CacheShape, AllCards, Standing
<1>3. Reading1'
  BY IsCache DEF LeaveCard, CardsInv, CardsShape, FileShape, ProcShape, CacheShape, AllCards, Reading1, Reads, Placed, Rows
<1>4. Informed'
  BY IsCache, InformedStays DEF LeaveCard, CardsInv, CardsShape, FileShape, ProcShape, CacheShape, AllCards, Standing, Rows
<1> QED
  BY <1>1, <1>2, <1>3, <1>4 DEF CardsInv

LEMMA CardsStartChild ==
  ASSUME CardsInv, NEW a \in Askers, StartChild(a)
  PROVE  CardsInv'
<1>1. CardsShape'
  BY IsCache DEF StartChild, CardsInv, CardsShape, FileShape, ProcShape, CacheShape, AllCards
<1>2. Standing'
  BY IsCache DEF StartChild, CardsInv, CardsShape, FileShape, ProcShape, CacheShape, AllCards, Standing
<1>3. Reading1'
  <2>1. \A k \in Caches : Rows(k)' = Rows(k) /\ got'[k] = got[k] /\ queue'[k] = queue[k]
    BY DEF StartChild, Rows
  <2>2. mode[Loop(a)] = "idle" /\ Loop(a) \in Caches /\ Loop(a)[1] = a /\ Child(a)[1] = a
    BY IsCache DEF StartChild
  <2>3. pc[a] = "on" /\ mode[Child(a)] = "off"
    BY <2>2 DEF StartChild, CardsInv, Reading1, Placed
  <2>4. \A k \in Caches : Placed(k)'
    BY <2>2, <2>3 DEF StartChild, CardsInv, CardsShape, CacheShape, Reading1, Placed
  <2> QED
    BY <2>1, <2>4, ReadingStays
<1>4. Informed'
  BY IsCache, InformedStays DEF StartChild, CardsInv, CardsShape, FileShape, ProcShape, CacheShape, AllCards, Rows
<1> QED
  BY <1>1, <1>2, <1>3, <1>4 DEF CardsInv

\* An event more in the inbox of a cache.
LEMMA RowsGrow ==
  ASSUME CardsInv, NEW k \in Caches, NEW c \in Agents, NEW e \in Events,
         Rows(k)' = Append(Rows(k), e), got'[k] = got[k], queue'[k] = queue[k]
  PROVE  /\ Stays(k, c) /\ e # Removed(c) => Stays(k, c)'
         /\ Due(k, c) => Due(k, c)'
         /\ e.of = c /\ ~e.removed => Stays(k, c)' /\ Due(k, c)'
         /\ Reads(k)'
<1>1. /\ Rows(k) \in Seq(Events) /\ got[k] \in Nat /\ queue[k] \in Seq(Events)
      /\ got[k] <= Len(Rows(k)) /\ Len(queue[k]) <= got[k]
  BY IsCache DEF CardsInv, CardsShape, FileShape, CacheShape, Reading1, Reads, Rows
<1>2. PICK n \in Nat : n = Len(Rows(k))
  BY <1>1
<1>3. /\ Len(Rows(k)') = n + 1 /\ Rows(k)'[n + 1] = e
      /\ \A i \in 1..n : Rows(k)'[i] = Rows(k)[i]
  BY <1>1, <1>2
<1>4. Settled(k)' = Settled(k) /\ Passed(k)' <= Passed(k) /\ Passed(k) \in 0..n /\ Passed(k)' \in 0..n
  BY <1>1, <1>2, <1>3 DEF Settled, Passed, Applied
<1>5. Stays(k, c) /\ e # Removed(c) => Stays(k, c)'
  <2> SUFFICES ASSUME Stays(k, c), e # Removed(c), NEW i \in 1..n + 1, i > Settled(k),
                      Rows(k)'[i] = Removed(c)
               PROVE  \E j \in 1..n + 1 : j > i /\ Rows(k)'[j].of = c /\ ~Rows(k)'[j].removed
    BY <1>3, <1>4 DEF Stays
  <2>1. i \in 1..n
    BY <1>3
  <2>2. Rows(k)[i] = Removed(c)
    BY <1>3, <2>1
  <2>3. PICK j \in 1..n : j > i /\ Rows(k)[j].of = c /\ ~Rows(k)[j].removed
    BY <1>2, <2>1, <2>2 DEF Stays
  <2> QED
    BY <1>3, <2>3
<1>6. Due(k, c) => Due(k, c)'
  <2> SUFFICES ASSUME Due(k, c) PROVE Due(k, c)'
    OBVIOUS
  <2>1. PICK i \in 1..n : i > Passed(k) /\ Rows(k)[i].of = c /\ ~Rows(k)[i].removed
    BY <1>2 DEF Due
  <2>2. i \in 1..n + 1 /\ i > Passed(k)' /\ Rows(k)'[i] = Rows(k)[i]
    BY <1>3, <1>4, <2>1
  <2> QED
    BY <1>3, <2>1, <2>2 DEF Due
<1>7. ASSUME e.of = c, ~e.removed PROVE Stays(k, c)' /\ Due(k, c)'
  <2>1. e # Removed(c)
    BY <1>7 DEF Removed
  <2>2. n + 1 \in 1..n + 1 /\ n + 1 > Passed(k)' /\ \A i \in 1..n + 1 : i # n + 1 => n + 1 > i
    BY <1>4
  <2> QED
    BY <1>3, <1>7, <2>1, <2>2 DEF Stays, Due
<1>8. Reads(k)'
  <2>1. \A i \in 1..Len(queue[k]) : got[k] - Len(queue[k]) + i \in 1..n
    BY <1>1, <1>2
  <2> QED
    BY <1>1, <1>2, <1>3, <2>1 DEF CardsInv, Reading1, Reads
<1> QED
  BY <1>5, <1>6, <1>7, <1>8

\* Appending an event to the inbox of b.
LEMMA Appending ==
  ASSUME CardsInv, NEW b \in Agents, NEW e \in Events, Append1(b, e), UNCHANGED <<got, queue>>
  PROVE  /\ box' \in [Agents -> [there : BOOLEAN, rows : Seq(Events)]]
         /\ \A a \in Agents : ~box'[a].there => box'[a].rows = <<>>
         /\ \A k \in Caches : IF k[1] = b THEN Rows(k)' = Append(Rows(k), e) ELSE Rows(k)' = Rows(k)
         /\ \A k \in Caches : Reads(k)'
<1>1. box \in [Agents -> [there : BOOLEAN, rows : Seq(Events)]]
  BY DEF CardsInv, CardsShape, FileShape
<1>2. PICK rows \in Seq(Events) : rows = Append(box[b].rows, e)
  <2>1. box[b].rows \in Seq(Events)
    BY <1>1
  <2>2. Append(box[b].rows, e) \in Seq(Events)
    BY <2>1, AppendProperties
  <2> QED
    BY <2>2
<1>3. box' = [box EXCEPT ![b] = [there |-> TRUE, rows |-> rows]]
  BY <1>1, <1>2 DEF Append1
<1>4. box' \in [Agents -> [there : BOOLEAN, rows : Seq(Events)]]
  BY <1>1, <1>2, <1>3
<1>5. \A a \in Agents : ~box'[a].there => box'[a].rows = <<>>
  BY <1>1, <1>3 DEF CardsInv, Standing
<1>6. ASSUME NEW k \in Caches
      PROVE  IF k[1] = b THEN Rows(k)' = Append(Rows(k), e) ELSE Rows(k)' = Rows(k)
  BY <1>1, <1>2, <1>3, IsCache DEF Rows
<1>7. ASSUME NEW k \in Caches PROVE Reads(k)'
  <2>1. CASE k[1] = b
    BY <1>6, <2>1, RowsGrow
  <2>2. CASE k[1] # b
    BY <1>6, <2>2 DEF CardsInv, Reading1, Reads
  <2> QED
    BY <2>1, <2>2
<1> QED
  BY <1>4, <1>5, <1>6, <1>7

LEMMA CardsCast ==
  ASSUME CardsInv, NEW a \in Agents, NEW b \in todo[a], Cast(a, b)
  PROVE  CardsInv'
<1>0. b \in Agents /\ b # a /\ pc[a] = "cast" /\ runs[a] \in CardsOf /\ card[a] = runs[a]
  BY DEF CardsInv, CardsShape, ProcShape, Standing, Cast
<1>a. PICK left \in SUBSET Agents : left = todo[a] \ {b}
  BY DEF CardsInv, CardsShape, ProcShape
<1>b. /\ todo' = [todo EXCEPT ![a] = left] /\ a \notin left
      /\ pc' = [pc EXCEPT ![a] = IF left = {} THEN "on" ELSE "cast"]
      /\ AfterCast(a, left) /\ Boots(a, left)
      /\ UNCHANGED <<row, card, runs, going, farewell, known, names, workers, got, queue, counts, missed>>
  BY <1>a DEF Cast, AfterCast, CardsInv, Standing
<1>c. PICK e \in Events : e = Updated(a) /\ e.of = a /\ ~e.removed
  <2>1. PICK v \in {c.version : c \in CardsOf} : v = runs[a].version
    BY <1>0
  <2>2. Updated(a) = [of |-> a, version |-> v, removed |-> FALSE]
    BY <2>1 DEF Updated
  <2>3. Updated(a) \in Events /\ Updated(a).of = a /\ ~Updated(a).removed
    BY <2>2 DEF Events
  <2> QED
    BY <2>3
<1>d. /\ box' \in [Agents -> [there : BOOLEAN, rows : Seq(Events)]]
      /\ \A c \in Agents : ~box'[c].there => box'[c].rows = <<>>
      /\ \A k \in Caches : IF k[1] = b THEN Rows(k)' = Append(Rows(k), e) ELSE Rows(k)' = Rows(k)
      /\ \A k \in Caches : Reads(k)'
  <2>1. Append1(b, e) /\ UNCHANGED <<got, queue>>
    BY <1>c DEF Cast
  <2> QED
    BY <1>0, <2>1, Appending
<1>1. CardsShape'
  BY <1>b, <1>d, IsCache DEF Boots, CardsInv, CardsShape, FileShape, ProcShape, CacheShape
<1>2. Standing'
  BY <1>0, <1>b, <1>d DEF CardsInv, CardsShape, ProcShape, Standing
<1>3. Reading1'
  <2>1. \A k \in Caches : Placed(k)'
    BY <1>0, <1>b, Booting
  <2> QED
    BY <1>d, <2>1 DEF Reading1
<1>4. Informed'
  <2>1. SUFFICES ASSUME NEW k \in Caches, NEW c \in Agents, k[1] # c, pc'[c] # "off",
                        <<k, c>> \notin missed'
                 PROVE  Heard(k, c)'
    BY DEF Informed
  <2>2. Heard(k, c)
    BY <1>0, <1>b, <2>1 DEF CardsInv, CardsShape, ProcShape, Informed
  <2>3. mode'[k] \in {"load", "idle"} => mode[k] = mode'[k]
    BY <1>b, IsCache DEF Boots, CardsInv, CardsShape, CacheShape
  <2>4. ~(c = a /\ k[1] = b) => (k[1] \in todo[c] => k[1] \in todo'[c])
    BY <1>a, <1>b DEF CardsInv, CardsShape, ProcShape
  <2>5. CASE k[1] # b
    BY <1>b, <1>d, <2>2, <2>3, <2>4, <2>5, HeardStays
  <2>6. CASE k[1] = b
    <3>1. Rows(k)' = Append(Rows(k), e) /\ got'[k] = got[k] /\ queue'[k] = queue[k]
      BY <1>b, <1>d, <2>6
    <3>2. /\ Stays(k, c) /\ e # Removed(c) => Stays(k, c)'
          /\ Due(k, c) => Due(k, c)'
          /\ e.of = c /\ ~e.removed => Stays(k, c)' /\ Due(k, c)'
      BY <3>1, RowsGrow
    <3>3. CASE c = a
      BY <1>0, <1>b, <1>c, <3>2, <3>3 DEF Heard
    <3>4. CASE c # a
      BY <1>b, <1>c, <2>2, <2>3, <2>4, <3>2, <3>4 DEF Heard, Removed
    <3> QED
      BY <3>3, <3>4
  <2> QED
    BY <2>5, <2>6
<1> QED
  BY <1>1, <1>2, <1>3, <1>4 DEF CardsInv

LEMMA CardsLeaveCast ==
  ASSUME CardsInv, NEW a \in Agents, NEW b \in farewell[a], LeaveCast(a, b)
  PROVE  CardsInv'
<1>0. b \in Agents /\ b # a /\ pc[a] = "off"
  BY DEF CardsInv, CardsShape, ProcShape, Standing, LeaveCast
<1>b. /\ farewell' = [farewell EXCEPT ![a] = @ \ {b}]
      /\ UNCHANGED <<row, card, pc, runs, todo, going, mode, known, names, workers, got, queue, counts, missed>>
  BY DEF LeaveCast
<1>c. PICK e \in Events : e = Removed(a)
  BY DEF Removed, Events
<1>d. /\ box' \in [Agents -> [there : BOOLEAN, rows : Seq(Events)]]
      /\ \A c \in Agents : ~box'[c].there => box'[c].rows = <<>>
      /\ \A k \in Caches : IF k[1] = b THEN Rows(k)' = Append(Rows(k), e) ELSE Rows(k)' = Rows(k)
      /\ \A k \in Caches : Reads(k)'
  <2>1. Append1(b, e) /\ UNCHANGED <<got, queue>>
    BY <1>c DEF LeaveCast
  <2> QED
    BY <1>0, <2>1, Appending
<1>1. CardsShape'
  BY <1>b, <1>d DEF CardsInv, CardsShape, FileShape, ProcShape, CacheShape
<1>2. Standing'
  BY <1>0, <1>b, <1>d DEF CardsInv, CardsShape, ProcShape, Standing
<1>3. Reading1'
  BY <1>b, <1>d DEF CardsInv, Reading1, Placed
<1>4. Informed'
  <2>1. SUFFICES ASSUME NEW k \in Caches, NEW c \in Agents, k[1] # c, pc'[c] # "off",
                        <<k, c>> \notin missed'
                 PROVE  Heard(k, c)'
    BY DEF Informed
  <2>2. Heard(k, c) /\ c # a
    BY <1>0, <1>b, <2>1 DEF CardsInv, Informed
  <2>5. CASE k[1] # b
    BY <1>b, <1>d, <2>2, <2>5, HeardStays
  <2>6. CASE k[1] = b
    <3>1. Rows(k)' = Append(Rows(k), e) /\ got'[k] = got[k] /\ queue'[k] = queue[k]
      BY <1>b, <1>d, <2>6
    <3>2. /\ Stays(k, c) /\ e # Removed(c) => Stays(k, c)'
          /\ Due(k, c) => Due(k, c)'
      BY <3>1, RowsGrow
    <3>3. e # Removed(c)
      BY <1>c, <2>2 DEF Removed
    <3> QED
      BY <1>b, <2>2, <3>2, <3>3 DEF Heard
  <2> QED
    BY <2>5, <2>6
<1> QED
  BY <1>1, <1>2, <1>3, <1>4 DEF CardsInv

\* The caches of an agent whose process has ended.
LEMMA Forgetting ==
  ASSUME CardsInv, NEW a \in Agents, Forget(CachesOf(a))
  PROVE  /\ mode' \in [Caches -> {"off", "roster", "load", "idle"}]
         /\ known' \in [Caches -> [Agents -> AllCards]] /\ names' \in [Caches -> SUBSET Agents]
         /\ got' \in [Caches -> Nat] /\ queue' \in [Caches -> Seq(Events)]
         /\ \A k \in Caches : k[1] # a =>
              /\ mode'[k] = mode[k] /\ known'[k] = known[k] /\ names'[k] = names[k]
              /\ got'[k] = got[k] /\ queue'[k] = queue[k]
         /\ \A k \in Caches : k[1] = a =>
              /\ mode'[k] = "off" /\ names'[k] = {} /\ queue'[k] = <<>>
              /\ got'[k] = IF k[2] = "child" THEN 0 ELSE got[k]
<1>1. <<>> \in Seq(Events) /\ NoneKnown \in [Agents -> AllCards]
  BY DEF NoneKnown, AllCards
<1> QED
  BY <1>1 DEF Forget, CachesOf, CardsInv, CardsShape, CacheShape

\* What stays in the inbox is all a later process relies on.
LEMMA HeardLater ==
  ASSUME CardsInv, NEW a \in Agents, Forget(CachesOf(a)), UNCHANGED box,
         NEW k \in Caches, NEW b \in Agents, k[1] = a
  PROVE  /\ Reads(k)'
         /\ Heard(k, b) /\ todo'[b] = todo[b] /\ card'[b] = card[b] /\ runs'[b] = runs[b] => Heard(k, b)'
<1>1. /\ mode'[k] = "off" /\ queue'[k] = <<>> /\ Rows(k)' = Rows(k)
      /\ got'[k] = IF k[2] = "child" THEN 0 ELSE got[k]
  BY Forgetting DEF Rows
<1>2. /\ got[k] \in Nat /\ queue[k] \in Seq(Events) /\ got[k] <= Len(Rows(k)) /\ Len(queue[k]) <= got[k]
      /\ Len(Rows(k)) \in Nat
  BY IsCache DEF CardsInv, CardsShape, FileShape, CacheShape, Reading1, Reads, Rows
<1>3. Len(queue'[k]) = 0
  BY <1>1
<1>4. Reads(k)'
  BY <1>1, <1>2, <1>3 DEF Reads
<1>5. Settled(k)' >= Settled(k) /\ Settled(k)' \in Nat /\ Settled(k) \in Nat
  BY <1>1, <1>2, <1>3 DEF Settled, Applied
<1>6. Stays(k, b) => Stays(k, b)'
  BY <1>1, <1>2, <1>5 DEF Stays
<1> QED
  BY <1>1, <1>4, <1>6 DEF Heard

LEMMA CardsKill ==
  ASSUME CardsInv, NEW a \in Agents, Kill(a)
  PROVE  CardsInv'
<1>a. /\ pc' = [pc EXCEPT ![a] = "off"] /\ runs' = [runs EXCEPT ![a] = NoCard]
      /\ todo' = [todo EXCEPT ![a] = {}] /\ Forget(CachesOf(a))
      /\ UNCHANGED <<row, card, box, going, farewell, missed>>
  BY DEF Kill, Off
<1>1. CardsShape'
  BY <1>a, Forgetting DEF CardsInv, CardsShape, FileShape, ProcShape, CacheShape, AllCards
<1>2. Standing'
  BY <1>a DEF CardsInv, CardsShape, ProcShape, Standing
<1>3. Reading1'
  <2> SUFFICES ASSUME NEW k \in Caches PROVE Reads(k)' /\ Placed(k)'
    BY DEF Reading1
  <2>1. CASE k[1] = a
    BY <1>a, <2>1, HeardLater, Forgetting DEF Placed, CardsInv, CardsShape, ProcShape
  <2>2. CASE k[1] # a
    <3>1. /\ Rows(k)' = Rows(k) /\ got'[k] = got[k] /\ queue'[k] = queue[k]
          /\ mode'[k] = mode[k] /\ names'[k] = names[k]
      BY <1>a, <2>2, Forgetting DEF Rows
    <3>2. pc'[k[1]] = pc[k[1]]
      BY <1>a, <2>2, IsCache DEF CardsInv, CardsShape, ProcShape
    <3> QED
      BY <3>1, <3>2 DEF CardsInv, Reading1, Reads, Placed
  <2> QED
    BY <2>1, <2>2
<1>4. Informed'
  <2>1. SUFFICES ASSUME NEW k \in Caches, NEW c \in Agents, k[1] # c, pc'[c] # "off",
                        <<k, c>> \notin missed'
                 PROVE  Heard(k, c)'
    BY DEF Informed
  <2>2. c # a /\ Heard(k, c)
    BY <1>a, <2>1 DEF CardsInv, CardsShape, ProcShape, Informed
  <2>3. todo'[c] = todo[c] /\ card'[c] = card[c] /\ runs'[c] = runs[c]
    BY <1>a, <2>2 DEF CardsInv, CardsShape, ProcShape
  <2>4. CASE k[1] = a
    BY <1>a, <2>2, <2>3, <2>4, HeardLater
  <2>5. CASE k[1] # a
    <3>1. /\ Rows(k)' = Rows(k) /\ got'[k] = got[k] /\ queue'[k] = queue[k]
          /\ mode'[k] = mode[k] /\ known'[k] = known[k] /\ names'[k] = names[k]
      BY <1>a, <2>5, Forgetting DEF Rows
    <3> QED
      BY <2>2, <2>3, <3>1, HeardStays
  <2> QED
    BY <2>4, <2>5
<1> QED
  BY <1>1, <1>2, <1>3, <1>4 DEF CardsInv

LEMMA CardsLeave ==
  ASSUME CardsInv, NEW a \in Agents, Leave(a)
  PROVE  CardsInv'
<1>a. /\ pc' = [pc EXCEPT ![a] = "off"] /\ runs' = [runs EXCEPT ![a] = NoCard]
      /\ going' = [going EXCEPT ![a] = "card"] /\ row' = [row EXCEPT ![a] = "none"]
      /\ farewell' = [farewell EXCEPT ![a] = Listed \ {a}] /\ Forget(CachesOf(a))
      /\ UNCHANGED <<card, box, todo, missed>>
  BY DEF Leave, Off
<1>1. CardsShape'
  BY <1>a, Forgetting DEF CardsInv, CardsShape, FileShape, ProcShape, CacheShape, AllCards, Listed
<1>2. Standing'
  BY <1>a DEF CardsInv, CardsShape, FileShape, ProcShape, Standing
<1>3. Reading1'
  <2> SUFFICES ASSUME NEW k \in Caches PROVE Reads(k)' /\ Placed(k)'
    BY DEF Reading1
  <2>1. CASE k[1] = a
    BY <1>a, <2>1, HeardLater, Forgetting DEF Placed, CardsInv, CardsShape, ProcShape
  <2>2. CASE k[1] # a
    <3>1. /\ Rows(k)' = Rows(k) /\ got'[k] = got[k] /\ queue'[k] = queue[k]
          /\ mode'[k] = mode[k] /\ names'[k] = names[k]
      BY <1>a, <2>2, Forgetting DEF Rows
    <3>2. pc'[k[1]] = pc[k[1]]
      BY <1>a, <2>2, IsCache DEF CardsInv, CardsShape, ProcShape
    <3> QED
      BY <3>1, <3>2 DEF CardsInv, Reading1, Reads, Placed
  <2> QED
    BY <2>1, <2>2
<1>4. Informed'
  <2>1. SUFFICES ASSUME NEW k \in Caches, NEW c \in Agents, k[1] # c, pc'[c] # "off",
                        <<k, c>> \notin missed'
                 PROVE  Heard(k, c)'
    BY DEF Informed
  <2>2. c # a /\ Heard(k, c)
    BY <1>a, <2>1 DEF CardsInv, CardsShape, ProcShape, Informed
  <2>3. todo'[c] = todo[c] /\ card'[c] = card[c] /\ runs'[c] = runs[c]
    BY <1>a, <2>2 DEF CardsInv, CardsShape, ProcShape
  <2>4. CASE k[1] = a
    BY <1>a, <2>2, <2>3, <2>4, HeardLater
  <2>5. CASE k[1] # a
    <3>1. /\ Rows(k)' = Rows(k) /\ got'[k] = got[k] /\ queue'[k] = queue[k]
          /\ mode'[k] = mode[k] /\ known'[k] = known[k] /\ names'[k] = names[k]
      BY <1>a, <2>5, Forgetting DEF Rows
    <3> QED
      BY <2>2, <2>3, <3>1, HeardStays
  <2> QED
    BY <2>4, <2>5
<1> QED
  BY <1>1, <1>2, <1>3, <1>4 DEF CardsInv

\* The inbox of an agent without a process goes.
LEMMA Unlinking ==
  ASSUME CardsInv, NEW a \in Agents, Unlinked(a), pc[a] = "off",
         UNCHANGED <<pc, runs, todo, mode, known, names, queue, missed>>,
         \A b \in Agents : b # a => card'[b] = card[b]
  PROVE  /\ box' \in [Agents -> [there : BOOLEAN, rows : Seq(Events)]] /\ got' \in [Caches -> Nat]
         /\ \A b \in Agents : ~box'[b].there => box'[b].rows = <<>>
         /\ Reading1' /\ Informed'
<1>1. <<>> \in Seq(Events)
  OBVIOUS
<1>2. /\ box' = [box EXCEPT ![a] = [there |-> FALSE, rows |-> <<>>]]
      /\ got' = [k \in Caches |-> IF k[1] = a THEN 0 ELSE got[k]]
  BY DEF Unlinked, NoInbox
<1>3. /\ box' \in [Agents -> [there : BOOLEAN, rows : Seq(Events)]] /\ got' \in [Caches -> Nat]
      /\ \A b \in Agents : ~box'[b].there => box'[b].rows = <<>>
  BY <1>1, <1>2 DEF CardsInv, CardsShape, FileShape, CacheShape, Standing
<1>4. \A k \in Caches : k[1] # a => Rows(k)' = Rows(k) /\ got'[k] = got[k]
  BY <1>2, IsCache DEF CardsInv, CardsShape, FileShape, CacheShape, Rows
<1>5. \A k \in Caches : k[1] = a => /\ Rows(k)' = <<>> /\ got'[k] = 0 /\ queue'[k] = <<>> /\ mode'[k] = "off"
                                   /\ Len(<<>>) = 0
  BY <1>2, IsCache DEF CardsInv, CardsShape, FileShape, CacheShape, Rows, Reading1, Placed
<1>6. Reading1'
  <2> SUFFICES ASSUME NEW k \in Caches PROVE Reads(k)' /\ Placed(k)'
    BY DEF Reading1
  <2>1. CASE k[1] = a
    <3>1. Reads(k)'
      BY <1>5, <2>1 DEF Reads
    <3> QED
      BY <1>5, <2>1, <3>1 DEF CardsInv, Reading1, Placed
  <2>2. CASE k[1] # a
    BY <1>4, <2>2 DEF CardsInv, Reading1, Reads, Placed
  <2> QED
    BY <2>1, <2>2
<1>7. Informed'
  <2>1. SUFFICES ASSUME NEW k \in Caches, NEW c \in Agents, k[1] # c, pc'[c] # "off",
                        <<k, c>> \notin missed'
                 PROVE  Heard(k, c)'
    BY DEF Informed
  <2>2. c # a /\ Heard(k, c) /\ card'[c] = card[c]
    BY <2>1 DEF CardsInv, Informed
  <2>3. CASE k[1] = a
    BY <1>5, <2>2, <2>3 DEF Heard, Stays
  <2>4. CASE k[1] # a
    BY <1>4, <2>2, <2>4, HeardStays
  <2> QED
    BY <2>3, <2>4
<1> QED
  BY <1>3, <1>6, <1>7

LEMMA CardsCleanUp ==
  ASSUME CardsInv, NEW a \in Agents, CleanUp(a)
  PROVE  CardsInv'
<1>1. \A b \in Agents : b # a => card'[b] = card[b]
  BY DEF CleanUp, CardsInv, CardsShape, FileShape
<1>2. /\ box' \in [Agents -> [there : BOOLEAN, rows : Seq(Events)]] /\ got' \in [Caches -> Nat]
      /\ \A b \in Agents : ~box'[b].there => box'[b].rows = <<>>
      /\ Reading1' /\ Informed'
  BY <1>1, Unlinking DEF CleanUp
<1>3. CardsShape'
  BY <1>2 DEF CleanUp, CardsInv, CardsShape, FileShape, ProcShape, CacheShape, AllCards
<1>4. Standing'
  BY <1>2 DEF CleanUp, CardsInv, CardsShape, FileShape, Standing
<1> QED
  BY <1>2, <1>3, <1>4 DEF CardsInv

LEMMA CardsLeaveBox ==
  ASSUME CardsInv, NEW a \in Agents, LeaveBox(a)
  PROVE  CardsInv'
<1>1. pc[a] = "off"
  BY DEF LeaveBox, CardsInv, Standing
<1>2. /\ box' \in [Agents -> [there : BOOLEAN, rows : Seq(Events)]] /\ got' \in [Caches -> Nat]
      /\ \A b \in Agents : ~box'[b].there => box'[b].rows = <<>>
      /\ Reading1' /\ Informed'
  BY <1>1, Unlinking DEF LeaveBox
<1>3. CardsShape'
  BY <1>2 DEF LeaveBox, CardsInv, CardsShape, FileShape, ProcShape, CacheShape
<1>4. Standing'
  BY <1>1, <1>2 DEF LeaveBox, CardsInv, CardsShape, ProcShape, Standing
<1> QED
  BY <1>2, <1>3, <1>4 DEF CardsInv

\* Nothing the invariant speaks of changes.
LEMMA CardsRest ==
  ASSUME CardsInv, UNCHANGED <<row, card, box, pc, runs, todo, going, farewell, mode, known, names,
                               workers, got, queue, missed>>
  PROVE  CardsInv'
<1>1. CardsShape'
  BY DEF CardsInv, CardsShape, FileShape, ProcShape, CacheShape
<1>2. Standing'
  BY DEF CardsInv, Standing
<1>3. Reading1'
  BY DEF CardsInv, Reading1, Reads, Placed, Rows
<1>4. Informed'
  BY DEF CardsInv, Informed, Heard, Stays, Due, Settled, Passed, Applied, Rows
<1> QED
  BY <1>1, <1>2, <1>3, <1>4 DEF CardsInv

LEMMA CardsBegin ==
  ASSUME CardsInv, NEW a \in Agents, Begin(a) \/ KillEarly(a)
  PROVE  CardsInv'
BY CardsRest DEF Begin, KillEarly, files, procs, caches

LEMMA CardsStart ==
  ASSUME CardsInv, NEW a \in Agents, NEW c \in CardsOf, Start(a, c)
  PROVE  CardsInv'
<1>a. PICK told \in SUBSET Agents : told = (IF Telling(a, c) THEN Listed \ {a} ELSE {})
  BY DEF Listed
<1>b. /\ pc[a] = "off" /\ going[a] = "no"
      /\ pc' = [pc EXCEPT ![a] = "look"] /\ runs' = [runs EXCEPT ![a] = c]
      /\ row' = [row EXCEPT ![a] = "own"] /\ todo' = [todo EXCEPT ![a] = told] /\ a \notin told
      /\ UNCHANGED <<card, box, going, farewell, mode, known, names, workers, got, queue>>
      /\ missed \subseteq missed'
  BY <1>a DEF Start, Audience
<1>1. CardsShape'
  BY <1>b DEF CardsInv, CardsShape, FileShape, ProcShape, CacheShape, AllCards
<1>2. Standing'
  BY <1>b DEF CardsInv, CardsShape, FileShape, ProcShape, Standing
<1>3. Reading1'
  BY <1>b, IsCache DEF CardsInv, CardsShape, ProcShape, Reading1, Reads, Placed, Rows
<1>4. Informed'
  <2>1. SUFFICES ASSUME NEW k \in Caches, NEW b \in Agents, k[1] # b, pc'[b] # "off",
                        <<k, b>> \notin missed'
                 PROVE  Heard(k, b)'
    BY DEF Informed
  <2>2. CASE b # a
    <3>1. Heard(k, b) /\ todo'[b] = todo[b] /\ runs'[b] = runs[b]
      BY <1>b, <2>1, <2>2 DEF CardsInv, CardsShape, ProcShape, Informed
    <3> QED
      BY <1>b, <3>1, HeardStays DEF Rows
  <2>3. CASE b = a
    <3>1. k[1] \in Listed /\ ~Unaware(k, a, c)
      BY <2>1, <2>3 DEF Start, Other
    <3>2. CASE Telling(a, c)
      BY <1>a, <1>b, <2>1, <2>3, <3>1, <3>2 DEF Heard, CardsInv, CardsShape, ProcShape
    <3>3. CASE ~Telling(a, c)
      <4>1. known[k][a] = c /\ card[a] = c /\ ~Pops(k, a) /\ runs'[a] = c
        BY <1>b, <3>1, <3>3 DEF Unaware, CardsInv, CardsShape, ProcShape
      <4>2. Stays(k, a)
        BY <4>1, NoFarewell DEF CardsInv, Reading1
      <4>3. Stays(k, a)'
        BY <1>b, <4>2 DEF Stays, Rows, Settled, Applied
      <4> QED
        BY <1>b, <2>3, <4>1, <4>3 DEF Heard
    <3> QED
      BY <3>2, <3>3
  <2> QED
    BY <2>2, <2>3
<1> QED
  BY <1>1, <1>2, <1>3, <1>4 DEF CardsInv

\* A step of one cache.
LEMMA OneCache ==
  ASSUME CardsInv, NEW k \in Caches, UNCHANGED <<files, procs>>, CacheShape',
         \A q \in Caches : q # k =>
           /\ mode'[q] = mode[q] /\ known'[q] = known[q] /\ names'[q] = names[q]
           /\ got'[q] = got[q] /\ queue'[q] = queue[q]
           /\ \A b \in Agents : <<q, b>> \in missed' <=> <<q, b>> \in missed,
         Reads(k)', Placed(k)',
         \A b \in Agents : k[1] # b /\ pc[b] # "off" /\ <<k, b>> \notin missed' => Heard(k, b)'
  PROVE  CardsInv'
<1>1. CardsShape' /\ Standing'
  BY DEF CardsInv, CardsShape, FileShape, ProcShape, Standing
<1>2. Reading1'
  <2> SUFFICES ASSUME NEW q \in Caches, q # k PROVE Reads(q)' /\ Placed(q)'
    BY DEF Reading1
  <2>1. Reads(q) /\ Placed(q)
    BY DEF CardsInv, Reading1
  <2>2. Rows(q)' = Rows(q) /\ pc' = pc
    BY DEF Rows
  <2> QED
    BY <2>1, <2>2 DEF Reads, Placed
<1>3. Informed'
  <2>1. SUFFICES ASSUME NEW q \in Caches, NEW b \in Agents, q # k, q[1] # b, pc'[b] # "off",
                        <<q, b>> \notin missed'
                 PROVE  Heard(q, b)'
    BY DEF Informed
  <2>2. Heard(q, b)
    BY <2>1 DEF CardsInv, Informed
  <2> QED
    BY <2>1, <2>2, HeardStays DEF Rows
<1> QED
  BY <1>1, <1>2, <1>3 DEF CardsInv

\* What was relied on still is when more has been applied.
LEMMA HeardMoves ==
  ASSUME CardsInv, NEW k \in Caches, NEW b \in Agents, Stays(k, b), UNCHANGED box,
         Settled(k)' \in Nat, Settled(k)' >= Settled(k)
  PROVE  Stays(k, b)'
<1>1. Rows(k)' = Rows(k) /\ Len(Rows(k)) \in Nat
  BY IsCache DEF Rows, CardsInv, CardsShape, FileShape
<1>2. Settled(k) \in Int
  BY IsCache DEF CardsInv, CardsShape, CacheShape, Settled, Applied
<1> QED
  BY <1>1, <1>2 DEF Stays

LEMMA CardsLoadRoster ==
  ASSUME CardsInv, NEW k \in Caches, LoadRoster(k)
  PROVE  CardsInv'
<1>a. PICK left \in SUBSET Agents : left = Listed \ {k[1]}
  BY DEF Listed
<1>b. PICK m \in {"idle", "load"} : m = IF left = {} THEN "idle" ELSE "load"
  OBVIOUS
<1>c. /\ mode[k] = "roster" /\ mode' = [mode EXCEPT ![k] = m] /\ names' = [names EXCEPT ![k] = left]
      /\ UNCHANGED <<files, procs, known, got, queue, missed>>
  BY <1>a, <1>b DEF LoadRoster, Reading
<1>1. CacheShape'
  BY <1>c DEF CardsInv, CardsShape, CacheShape
<1>2. \A q \in Caches : q # k => mode'[q] = mode[q] /\ names'[q] = names[q]
  BY <1>c DEF CardsInv, CardsShape, CacheShape
<1>3. Reads(k) /\ Placed(k) /\ mode'[k] = m /\ names'[k] = left
  BY <1>c DEF CardsInv, CardsShape, CacheShape, Reading1
<1>4. Reads(k)' /\ Placed(k)'
  BY <1>b, <1>c, <1>3 DEF Reads, Placed, Rows
<1>5. ASSUME NEW b \in Agents, k[1] # b, pc[b] # "off", <<k, b>> \notin missed'
      PROVE  Heard(k, b)'
  <2>1. Heard(k, b) /\ b \in left
    BY <1>a, <1>c, <1>5 DEF CardsInv, Informed, Standing, Listed
  <2>2. Stays(k, b) => Stays(k, b)'
    BY <1>c DEF Stays, Rows, Settled, Applied
  <2> QED
    BY <1>c, <1>3, <2>1, <2>2 DEF Heard
<1> QED
  BY <1>1, <1>2, <1>4, <1>5, <1>c, OneCache

LEMMA CardsReadCard ==
  ASSUME CardsInv, NEW k \in Caches, NEW b \in names[k], ReadCard(k, b)
  PROVE  CardsInv'
<1>0. b \in Agents /\ mode[k] = "load" /\ Reads(k) /\ Placed(k)
  BY DEF CardsInv, CardsShape, CacheShape, Reading1, Placed
<1>a. PICK left \in SUBSET Agents : left = names[k] \ {b}
  BY DEF CardsInv, CardsShape, CacheShape
<1>b. PICK m \in {"idle", "load"} : m = IF left = {} THEN "idle" ELSE "load"
  OBVIOUS
<1>c. /\ mode' = [mode EXCEPT ![k] = m] /\ names' = [names EXCEPT ![k] = left]
      /\ known' = [known EXCEPT ![k][b] = card[b]]
      /\ missed' = IF card[b] = runs[b] /\ ~Pops(k, b) THEN missed \ {<<k, b>>} ELSE missed
      /\ UNCHANGED <<files, procs, got, queue>>
  BY <1>a, <1>b DEF ReadCard, Reading, Holds
<1>1. CacheShape'
  BY <1>0, <1>c DEF CardsInv, CardsShape, CacheShape, FileShape
<1>2. \A q \in Caches : q # k => mode'[q] = mode[q] /\ names'[q] = names[q] /\ known'[q] = known[q]
  BY <1>c DEF CardsInv, CardsShape, CacheShape
<1>d. /\ mode'[k] = m /\ names'[k] = left /\ known'[k][b] = card[b]
      /\ \A c \in Agents : c # b => known'[k][c] = known[k][c]
  BY <1>0, <1>c DEF CardsInv, CardsShape, CacheShape
<1>3. \A q \in Caches, c \in Agents : q # k \/ c # b => (<<q, c>> \in missed' <=> <<q, c>> \in missed)
  BY <1>c
<1>4. Reads(k)' /\ Placed(k)'
  BY <1>0, <1>b, <1>c, <1>d DEF Reads, Placed, Rows
<1>5. ASSUME NEW c \in Agents, k[1] # c, pc[c] # "off", <<k, c>> \notin missed'
      PROVE  Heard(k, c)'
  <2>1. CASE c # b
    <3>1. Heard(k, c)
      BY <1>3, <1>5, <2>1 DEF CardsInv, Informed
    <3>2. c \in names[k] => c \in names'[k]
      BY <1>a, <1>d, <2>1
    <3> QED
      BY <1>0, <1>c, <1>d, <2>1, <3>1, <3>2, HeardStays DEF Rows
  <2>2. CASE c = b
    <3>1. \/ Heard(k, b)
          \/ card[b] = runs[b] /\ Stays(k, b)
      <4>1. CASE <<k, b>> \in missed
        <5>1. card[b] = runs[b] /\ ~Pops(k, b)
          BY <1>5, <1>c, <2>2, <4>1
        <5> QED
          BY <1>0, <5>1, NoFarewell DEF CardsInv
      <4>2. CASE <<k, b>> \notin missed
        BY <1>5, <2>2, <4>2 DEF CardsInv, Informed
      <4> QED
        BY <4>1, <4>2
    <3>2. Stays(k, b) => Stays(k, b)'
      BY <1>c DEF Stays, Rows, Settled, Applied
    <3> QED
      BY <1>c, <1>d, <2>2, <3>1, <3>2 DEF Heard
  <2> QED
    BY <2>1, <2>2
<1> QED
  BY <1>1, <1>2, <1>3, <1>4, <1>5, <1>c, OneCache

LEMMA CardsReadHangs ==
  ASSUME CardsInv, NEW k \in Caches, NEW b \in names[k], ReadHangs(k, b) \/ ReadFails(k, b)
  PROVE  CardsInv'
<1>0. mode[k] = "load" /\ Reads(k) /\ Placed(k)
  BY DEF CardsInv, CardsShape, CacheShape, Reading1, Placed
<1>a. PICK left \in {{}, names[k] \ {b}} : GivesUp(k, left)
  BY DEF ReadHangs, ReadFails
<1>b. PICK m \in {"idle", "load"} : m = IF left = {} THEN "idle" ELSE "load"
  OBVIOUS
<1>c. /\ mode' = [mode EXCEPT ![k] = m] /\ names' = [names EXCEPT ![k] = left]
      /\ missed' = missed \cup {<<k, n>> : n \in names[k] \ left}
      /\ UNCHANGED <<files, procs, known, got, queue>>
  BY <1>a, <1>b DEF GivesUp, Reading
<1>1. CacheShape'
  BY <1>c DEF CardsInv, CardsShape, CacheShape
<1>2. \A q \in Caches : q # k => /\ mode'[q] = mode[q] /\ names'[q] = names[q]
                                /\ \A c \in Agents : <<q, c>> \in missed' <=> <<q, c>> \in missed
  BY <1>c DEF CardsInv, CardsShape, CacheShape
<1>d. mode'[k] = m /\ names'[k] = left
  BY <1>c DEF CardsInv, CardsShape, CacheShape
<1>4. Reads(k)' /\ Placed(k)'
  BY <1>0, <1>b, <1>c, <1>d DEF Reads, Placed, Rows
<1>5. ASSUME NEW c \in Agents, k[1] # c, pc[c] # "off", <<k, c>> \notin missed'
      PROVE  Heard(k, c)'
  <2>1. Heard(k, c)
    BY <1>c, <1>5 DEF CardsInv, Informed
  <2>2. c \in names[k] => c \in names'[k]
    BY <1>c, <1>d, <1>5
  <2> QED
    BY <1>0, <1>c, <2>1, <2>2, HeardStays DEF Rows
<1> QED
  BY <1>1, <1>2, <1>4, <1>5, <1>c, OneCache

LEMMA CardsDrain ==
  ASSUME CardsInv, NEW a \in Agents, Drain(a)
  PROVE  CardsInv'
<1> DEFINE k == Loop(a)
           rows == box[a].rows
           later == SubSeq(rows, got[k] + 1, Len(rows))
<1>0. /\ k \in Caches /\ k[1] = a /\ k[2] = "loop" /\ Rows(k) = rows /\ rows \in Seq(Events)
      /\ mode[k] = "idle" /\ queue[k] = <<>> /\ got[k] \in Nat /\ got[k] < Len(rows)
      /\ Reads(k) /\ Placed(k)
  BY IsCache DEF Drain, CardsInv, CardsShape, FileShape, CacheShape, Reading1, Rows
<1>2. /\ queue' = [queue EXCEPT ![k] = later] /\ got' = [got EXCEPT ![k] = Len(rows)]
      /\ UNCHANGED <<files, procs, mode, known, names, missed>>
  BY DEF Drain
<1> HIDE DEF rows, k
<1>1. /\ later \in Seq(Events) /\ Len(later) = Len(rows) - got[k]
      /\ \A i \in 1..Len(later) : later[i] = rows[got[k] + i]
  BY <1>0
<1> HIDE DEF later
<1>3. CacheShape'
  BY <1>0, <1>1, <1>2 DEF CardsInv, CardsShape, CacheShape
<1>4. \A q \in Caches : q # k => got'[q] = got[q] /\ queue'[q] = queue[q]
  BY <1>2 DEF CardsInv, CardsShape, CacheShape
<1>5. queue'[k] = later /\ got'[k] = Len(rows) /\ Rows(k)' = rows /\ Len(rows) \in Nat /\ Len(<<>>) = 0
  BY <1>0, <1>2 DEF CardsInv, CardsShape, CacheShape, Rows
<1>6. Reads(k)' /\ Placed(k)'
  <2>1. Reads(k)'
    BY <1>0, <1>1, <1>5 DEF Reads
  <2> QED
    BY <1>0, <1>2, <2>1 DEF Placed
<1>7. Settled(k)' = Settled(k) /\ Passed(k)' = Passed(k)
  <2>1. Applied(k) = got[k] - 0 /\ Applied(k)' = Len(rows) - (Len(rows) - got[k])
    BY <1>0, <1>1, <1>5 DEF Applied
  <2>a. Applied(k) = got[k] /\ Applied(k)' = got[k]
    BY <1>0, <1>5, <2>1
  <2> QED
    BY <1>0, <2>a DEF Settled, Passed
<1>8. ASSUME NEW b \in Agents, k[1] # b, pc[b] # "off", <<k, b>> \notin missed'
      PROVE  Heard(k, b)'
  <2>1. Heard(k, b)
    BY <1>0, <1>2, <1>8 DEF CardsInv, Informed
  <2>2. (Stays(k, b) => Stays(k, b)') /\ (Due(k, b) => Due(k, b)')
    BY <1>0, <1>5, <1>7 DEF Stays, Due
  <2> QED
    BY <1>2, <2>1, <2>2 DEF Heard
<1> QED
  BY <1>0, <1>2, <1>3, <1>4, <1>6, <1>8, OneCache

LEMMA CardsAsk ==
  ASSUME CardsInv, NEW a \in Askers, Ask(a)
  PROVE  CardsInv'
<1> DEFINE k == Child(a)
           rows == box[a].rows
<1>0. /\ k \in Caches /\ k[1] = a /\ k[2] = "child" /\ Rows(k) = rows /\ rows \in Seq(Events)
      /\ mode[k] = "idle" /\ queue[k] = <<>> /\ got[k] \in Nat /\ got[k] <= Len(rows)
      /\ Reads(k) /\ Placed(k)
  BY IsCache DEF Ask, CardsInv, CardsShape, FileShape, CacheShape, Reading1, Reads, Rows
<1>2. /\ queue' = [queue EXCEPT ![k] = rows] /\ got' = [got EXCEPT ![k] = Len(rows)]
      /\ UNCHANGED <<files, procs, mode, known, names, missed>>
  BY DEF Ask
<1> HIDE DEF rows, k
<1>3. CacheShape'
  BY <1>0, <1>2 DEF CardsInv, CardsShape, CacheShape
<1>4. \A q \in Caches : q # k => got'[q] = got[q] /\ queue'[q] = queue[q]
  BY <1>2 DEF CardsInv, CardsShape, CacheShape
<1>5. queue'[k] = rows /\ got'[k] = Len(rows) /\ Rows(k)' = rows /\ Len(rows) \in Nat /\ Len(<<>>) = 0
  BY <1>0, <1>2 DEF CardsInv, CardsShape, CacheShape, Rows
<1>6. Reads(k)' /\ Placed(k)'
  <2>1. Reads(k)'
    BY <1>0, <1>5 DEF Reads
  <2> QED
    BY <1>0, <1>2, <2>1 DEF Placed
<1>7. Settled(k)' = Settled(k) /\ Passed(k)' = 0 /\ Passed(k) \in Nat
  BY <1>0, <1>5 DEF Settled, Passed, Applied
<1>8. ASSUME NEW b \in Agents, k[1] # b, pc[b] # "off", <<k, b>> \notin missed'
      PROVE  Heard(k, b)'
  <2>1. Heard(k, b)
    BY <1>0, <1>2, <1>8 DEF CardsInv, Informed
  <2>2. (Stays(k, b) => Stays(k, b)') /\ (Due(k, b) => Due(k, b)')
    BY <1>0, <1>5, <1>7 DEF Stays, Due
  <2> QED
    BY <1>2, <2>1, <2>2 DEF Heard
<1> QED
  BY <1>0, <1>2, <1>3, <1>4, <1>6, <1>8, OneCache

\* What a cache takes from its queue is the next row of its inbox.
LEMMA NextRow ==
  ASSUME CardsInv, NEW k \in Caches, queue[k] # <<>>, UNCHANGED <<files, got>>,
         queue' = [queue EXCEPT ![k] = Tail(@)]
  PROVE  \E n \in Nat, e \in Events :
           /\ e = Head(queue[k]) /\ n + 1 \in 1..Len(Rows(k)) /\ Rows(k)[n + 1] = e
           /\ Rows(k)' = Rows(k) /\ queue'[k] \in Seq(Events) /\ Reads(k)'
           /\ Settled(k) \in 0..n /\ Settled(k)' \in Nat /\ Settled(k)' >= Settled(k)
           /\ Passed(k)' \in 0..n + 1 /\ (Passed(k)' = Passed(k) \/ (Passed(k) = n /\ Passed(k)' = n + 1))
<1> DEFINE q == queue[k]
           n == got[k] - Len(q)
<1>1. /\ Rows(k) \in Seq(Events) /\ q \in Seq(Events) /\ Len(q) \in Nat /\ Len(q) > 0 /\ got[k] \in Nat
      /\ got[k] <= Len(Rows(k)) /\ Len(q) <= got[k] /\ Len(Rows(k)) \in Nat
      /\ \A i \in 1..Len(q) : q[i] = Rows(k)[n + i]
  BY IsCache DEF CardsInv, CardsShape, FileShape, CacheShape, Reading1, Reads, Rows
<1>2. /\ Tail(q) \in Seq(Events) /\ Len(Tail(q)) = Len(q) - 1 /\ Head(q) = q[1] /\ Head(q) \in Events
      /\ \A i \in 1..Len(q) - 1 : Tail(q)[i] = q[i + 1]
  BY <1>1
<1>3. queue'[k] = Tail(q) /\ got'[k] = got[k] /\ Rows(k)' = Rows(k)
  BY DEF CardsInv, CardsShape, CacheShape, Rows
<1>a. Applied(k) = n /\ Applied(k)' = got[k] - Len(Tail(q))
  BY <1>3 DEF Applied
<1> HIDE DEF q
<1>4. n \in Nat /\ n + 1 \in 1..Len(Rows(k)) /\ Rows(k)[n + 1] = Head(q)
  BY <1>1, <1>2
<1>b. got[k] - Len(Tail(q)) = n + 1
  BY <1>1, <1>2
<1> HIDE DEF n
<1>5. Applied(k) = n /\ Applied(k)' = n + 1
  BY <1>a, <1>b
<1>6. Reads(k)'
  <2>1. \A i \in 1..Len(q) - 1 : Tail(q)[i] = Rows(k)[n + 1 + i]
    <3> TAKE i \in 1..Len(q) - 1
    <3>1. i + 1 \in 1..Len(q) /\ n + (i + 1) = n + 1 + i
      BY <1>1, <1>4
    <3> QED
      BY <1>1, <1>2, <3>1
  <2>2. Len(Tail(q)) = Len(q) - 1 /\ Len(Tail(q)) <= got[k]
    BY <1>1, <1>2
  <2> QED
    BY <1>1, <1>3, <1>b, <2>1, <2>2 DEF Reads
<1>7. /\ Settled(k) \in 0..n /\ Settled(k)' \in Nat /\ Settled(k)' >= Settled(k)
      /\ Passed(k)' \in 0..n + 1 /\ (Passed(k)' = Passed(k) \/ (Passed(k) = n /\ Passed(k)' = n + 1))
  BY <1>3, <1>4, <1>5 DEF Settled, Passed
<1> QED
  BY <1>2, <1>3, <1>4, <1>6, <1>7 DEF q

LEMMA CardsApply ==
  ASSUME CardsInv, NEW k \in Caches, Apply(k) \/ ApplyFails(k)
  PROVE  CardsInv'
<1>0. /\ queue[k] # <<>> /\ mode[k] = "idle" /\ names[k] = {} /\ Reads(k) /\ Placed(k)
      /\ queue' = [queue EXCEPT ![k] = Tail(@)] /\ UNCHANGED <<files, procs, mode, names, got>>
  BY DEF Apply, ApplyFails, TakesNext, CardsInv, Reading1, Placed
<1>1. PICK n \in Nat, e \in Events :
           /\ e = Head(queue[k]) /\ n + 1 \in 1..Len(Rows(k)) /\ Rows(k)[n + 1] = e
           /\ Rows(k)' = Rows(k) /\ queue'[k] \in Seq(Events) /\ Reads(k)'
           /\ Settled(k) \in 0..n /\ Settled(k)' \in Nat /\ Settled(k)' >= Settled(k)
           /\ Passed(k)' \in 0..n + 1 /\ (Passed(k)' = Passed(k) \/ (Passed(k) = n /\ Passed(k)' = n + 1))
  BY <1>0, NextRow
<1>2. e.of \in Agents /\ e.removed \in BOOLEAN /\ (e.removed => e = Removed(e.of))
  BY <1>1 DEF Events, Removed
<1>3. \/ e.of = k[1] /\ UNCHANGED <<known, missed>>
      \/ e.of # k[1] /\ e.removed /\ known' = [known EXCEPT ![k][e.of] = NoCard] /\ missed' = missed
      \/ /\ e.of # k[1] /\ ~e.removed /\ known' = known
         /\ missed' = IF known[k][e.of] = runs[e.of] THEN missed ELSE missed \cup {<<k, e.of>>}
      \/ /\ e.of # k[1] /\ ~e.removed /\ known' = [known EXCEPT ![k][e.of] = card[e.of]]
         /\ missed' = IF card[e.of] = runs[e.of] /\ ~Pops(k, e.of) THEN missed \ {<<k, e.of>>} ELSE missed
  BY <1>1, <1>2 DEF Apply, ApplyFails, Keeps, Holds
<1>4. card[e.of] \in AllCards /\ NoCard \in AllCards
  BY <1>2 DEF CardsInv, CardsShape, FileShape, AllCards
<1>5. known' \in [Caches -> [Agents -> AllCards]]
  <2>1. PICK v \in AllCards : known' = known \/ known' = [known EXCEPT ![k][e.of] = v]
    BY <1>3, <1>4
  <2>2. known \in [Caches -> [Agents -> AllCards]]
    BY DEF CardsInv, CardsShape, CacheShape
  <2> QED
    BY <1>2, <2>1, <2>2
<1>6. \A q \in Caches : q # k => queue'[q] = queue[q] /\ known'[q] = known[q]
  BY <1>0, <1>2, <1>3 DEF CardsInv, CardsShape, CacheShape
<1>7. CacheShape'
  BY <1>0, <1>1, <1>5 DEF CardsInv, CardsShape, CacheShape
<1>8. /\ \A c \in Agents : c # e.of => known'[k][c] = known[k][c]
      /\ \A q \in Caches, c \in Agents : q # k \/ c # e.of => (<<q, c>> \in missed' <=> <<q, c>> \in missed)
  BY <1>2, <1>3 DEF CardsInv, CardsShape, CacheShape
<1>9. Placed(k)'
  BY <1>0 DEF Placed
<1>10. ASSUME NEW c \in Agents, k[1] # c, pc[c] # "off", <<k, c>> \notin missed'
       PROVE  Heard(k, c)'
  <2>1. Stays(k, c) => Stays(k, c)'
    BY <1>0, <1>1, HeardMoves
  <2>2. CASE c # e.of
    <3>1. Heard(k, c)
      BY <1>8, <1>10, <2>2 DEF CardsInv, Informed
    <3>2. Due(k, c) => Due(k, c)'
      <4> SUFFICES ASSUME Due(k, c) PROVE Due(k, c)'
        OBVIOUS
      <4>1. PICK i \in 1..Len(Rows(k)) : i > Passed(k) /\ Rows(k)[i].of = c /\ ~Rows(k)[i].removed
        BY DEF Due
      <4>2. i # n + 1
        BY <1>1, <2>2, <4>1
      <4>3. i > Passed(k)'
        BY <1>1, <4>1, <4>2
      <4> QED
        BY <1>1, <4>1, <4>3 DEF Due
    <3> QED
      BY <1>0, <1>8, <2>1, <2>2, <3>1, <3>2 DEF Heard
  <2>3. CASE c = e.of /\ e.removed
    <3>1. Heard(k, c)
      BY <1>3, <1>10, <2>3 DEF CardsInv, Informed
    <3>2. Stays(k, c) => Due(k, c)'
      <4> SUFFICES ASSUME Stays(k, c) PROVE Due(k, c)'
        OBVIOUS
      <4>1. PICK j \in 1..Len(Rows(k)) : j > n + 1 /\ Rows(k)[j].of = c /\ ~Rows(k)[j].removed
        BY <1>1, <1>2, <2>3 DEF Stays
      <4>2. j > Passed(k)'
        BY <1>1, <4>1
      <4> QED
        BY <1>1, <4>1, <4>2 DEF Due
    <3> QED
      BY <1>0, <2>1, <3>1, <3>2 DEF Heard
  <2>4. CASE c = e.of /\ ~e.removed
    <3>1. \/ Heard(k, c)
          \/ card[c] = runs[c] /\ Stays(k, c)
      <4>1. CASE <<k, c>> \in missed
        <5>1. card[c] = runs[c] /\ ~Pops(k, c)
          BY <1>3, <1>10, <2>4, <4>1
        <5> QED
          BY <1>0, <5>1, NoFarewell DEF CardsInv
      <4>2. CASE <<k, c>> \notin missed
        BY <1>10, <4>2 DEF CardsInv, Informed
      <4> QED
        BY <4>1, <4>2
    <3>2. known'[k][c] = runs[c] \/ known'[k][c] = card[c]
      BY <1>2, <1>3, <1>10, <2>4 DEF CardsInv, CardsShape, CacheShape
    <3> QED
      BY <1>0, <2>1, <3>1, <3>2 DEF Heard
  <2> QED
    BY <1>2, <2>2, <2>3, <2>4
<1> QED
  BY <1>0, <1>1, <1>6, <1>7, <1>8, <1>9, <1>10, OneCache

\* The invariant holds at the start, ...
LEMMA CardsStarts == Init => CardsInv
<1> SUFFICES ASSUME Init PROVE CardsInv
  OBVIOUS
<1>1. CardsShape
  <2>1. <<>> \in Seq(Events) /\ NoneKnown \in [Agents -> AllCards]
    BY DEF NoneKnown, AllCards
  <2> QED
    BY <2>1 DEF Init, CardsShape, FileShape, ProcShape, CacheShape, NoInbox
<1>2. Standing
  BY DEF Init, Standing, NoInbox
<1>3. Reading1
  <2> SUFFICES ASSUME NEW k \in Caches PROVE Reads(k) /\ Placed(k)
    BY DEF Reading1
  <2>1. Rows(k) = <<>> /\ got[k] = 0 /\ queue[k] = <<>> /\ Len(<<>>) = 0
    BY IsCache DEF Init, Rows, NoInbox
  <2>2. Reads(k)
    BY <2>1 DEF Reads
  <2> QED
    BY <2>1, <2>2, IsCache DEF Init, Placed
<1>4. Informed
  BY DEF Init, Informed
<1> QED
  BY <1>1, <1>2, <1>3, <1>4 DEF CardsInv

\* ... and after every step.
LEMMA CardsStep == CardsInv /\ [Next]_vars => CardsInv'
<1> SUFFICES ASSUME CardsInv, [Next]_vars PROVE CardsInv'
  OBVIOUS
<1>1. CASE UNCHANGED vars
  BY <1>1, CardsRest DEF vars, files, procs, caches
<1>2. ASSUME NEW a \in Agents,
             \/ Begin(a) \/ KillEarly(a)
             \/ \E c \in CardsOf : Start(a, c)
             \/ EnsureLooks(a) \/ EnsurePuts(a) \/ WriteCard(a)
             \/ \E b \in todo[a] : Cast(a, b) \/ CastFails(a, b)
             \/ \E b \in farewell[a] : LeaveCast(a, b)
             \/ Drain(a)
             \/ Leave(a) \/ LeaveCard(a) \/ LeaveBox(a)
             \/ Kill(a) \/ CleanUp(a)
      PROVE  CardsInv'
  BY <1>2, CardsBegin, CardsStart, CardsEnsureLooks, CardsEnsurePuts, CardsWriteCard, CardsCast, CardsCastFails,
     CardsLeaveCast, CardsDrain, CardsLeave, CardsLeaveCard, CardsLeaveBox, CardsKill, CardsCleanUp
<1>3. ASSUME NEW a \in Askers, StartChild(a) \/ Ask(a) PROVE CardsInv'
  BY <1>3, CardsStartChild, CardsAsk
<1>4. ASSUME NEW k \in Caches,
             \/ LoadRoster(k) \/ Apply(k) \/ ApplyFails(k)
             \/ \E b \in names[k] : ReadCard(k, b) \/ ReadHangs(k, b) \/ ReadFails(k, b)
      PROVE  CardsInv'
  BY <1>4, CardsLoadRoster, CardsApply, CardsReadCard, CardsReadHangs
<1> QED
  BY <1>1, <1>2, <1>3, <1>4 DEF Next

(* A cache that has caught up with its inbox holds the card of every peer     *)
(* that is up, as that peer wrote it, unless the change could not reach it    *)
(* (register, deregister, PeerCapabilityCache).                               *)
THEOREM CachesKnowTheirPeers == Spec => []KnowsItsPeers
<1>1. CardsInv => KnowsItsPeers
  <2> SUFFICES ASSUME CardsInv, NEW k \in Caches, NEW b \in Agents, mode[k] = "idle", queue[k] = <<>>,
                      got[k] = Len(box[k[1]].rows), mode[Loop(b)] = "idle", k[1] # b,
                      <<k, b>> \notin missed
               PROVE  known[k][b] = runs[b]
    BY DEF KnowsItsPeers
  <2>1. pc[b] = "on" /\ todo[b] = {} /\ names[k] = {}
    BY IsCache DEF CardsInv, Reading1, Placed, Standing
  <2>2. known[k][b] = runs[b] \/ Due(k, b)
    BY <2>1 DEF CardsInv, Informed, Heard
  <2>3. Passed(k) = Len(Rows(k)) /\ Len(Rows(k)) \in Nat
    BY IsCache DEF Passed, Applied, Rows, CardsInv, CardsShape, FileShape
  <2> QED
    BY <2>2, <2>3 DEF Due
<1> QED
  BY <1>1, CardsStarts, CardsStep, PTL DEF Spec

-----------------------------------------------------------------------------
(* Installer: the inductive invariant.                                      *)

Modes == {"none", "tmux", "auto"}
SettingsOk ==
  {s \in [there : BOOLEAN, env : [Setup!EnvKeys -> {"none", "ours", "moved", "user"}], block : BOOLEAN,
          perm : {"none", "bare", "list"}, allow : SUBSET Entries, rest : Nat] :
     (s.perm # "list" => s.allow = {}) /\ (~s.there => s = Setup!NoSettings)}
ClaudeOk ==
  {c \in [there : BOOLEAN, mode : Modes, rest : Nat] : ~c.there => c = Setup!NoClaude}
Receipts ==
  {r \in [there : BOOLEAN, bad : BOOLEAN, set : BOOLEAN, orig : Modes, madeSettings : BOOLEAN,
          madeClaude : BOOLEAN, added : SUBSET Entries, madePerm : BOOLEAN, madeAllow : BOOLEAN] :
     ~r.there => r = Setup!NoReceipt}
Hosts == [mux : BOOLEAN, uv : BOOLEAN, at : [Providers -> {"on", "uv", "away"}]]

Asking == {"i_tmux", "i_list", "i_offer", "i_check"}
Installing == {"i_write", "i_mode", "i_prompt", "i_claude", "i_receipt", "i_undo", "i_plugin"}
Removing == {"u_receipt", "u_mode", "u_claude", "u_delete", "u_settings"}

SetupShape ==
  /\ settings \in SettingsOk /\ claude \in ClaudeOk /\ receipt \in Receipts /\ dataDir \in BOOLEAN
  /\ doing \in {"idle", "i_read", "u_read"} \cup Asking \cup Installing \cup Removing
  /\ memory \in [old : SettingsOk, new : SettingsOk, cl : ClaudeOk, rec : Receipts,
                 begin : SettingsOk \X ClaudeOk, mc : Hosts \cup {Setup!NoMachine},
                 todo : SUBSET Providers, told : SUBSET Providers]
  /\ doing = "idle" => memory = Setup!Nothing
  /\ touches \in Nat
  /\ ghost \in [s : SettingsOk, c : ClaudeOk]
  /\ ghost.s.env["command"] \in {"none", "user"} /\ ghost.s.env["legacy"] \in {"none", "moved"}

\* What has been reported installed is found, and is not offered again.
Reported ==
  /\ doing \in {"i_tmux", "i_list", "i_offer"} => memory.mc \in Hosts
  /\ doing \in Asking /\ memory.mc # Setup!NoMachine => memory.told \subseteq Setup!Found(memory.mc)
  /\ doing = "i_offer" => memory.todo # {} /\ memory.todo \cap memory.told = {}

\* While nobody else writes, the files are those the install began with, or its
\* copy is.
Begun ==
  touches = 0 =>
    /\ doing \in Asking \cup {"i_read", "i_write"} => settings = memory.begin[1]
    /\ doing \in {"i_write", "i_mode", "i_prompt", "i_claude", "i_receipt", "i_undo"} =>
         memory.old = memory.begin[1]
    /\ doing \in Asking \cup {"i_read", "i_write", "i_mode", "i_prompt", "i_claude"}
         \/ (doing = "i_undo" /\ "unreceipted" \notin excuses) => claude = memory.begin[2]

\* What others wrote is in the files and in every copy that may be written back,
\* and no receipt names an entry of theirs.
HasTheirs(s) ==
  /\ s.rest = ghost.s.rest /\ ghost.s.allow \subseteq s.allow
  /\ s.env["keep"] = ghost.s.env["keep"]

Guarded ==
  "stale" \notin excuses =>
    /\ HasTheirs(settings) /\ claude.rest = ghost.c.rest
    /\ Setup!HoldsSettings => HasTheirs(memory.old)
    /\ doing = "i_write" => HasTheirs(memory.new)
    /\ Setup!HoldsClaude => memory.cl.rest = ghost.c.rest
    /\ receipt.added \cap ghost.s.allow = {} /\ memory.rec.added \cap ghost.s.allow = {}

\* Settings without us, and settings in which we are, as the receipt says.
Alike(s) ==
  /\ s.there = ghost.s.there \/ (s.env["command"] = "ours" /\ s.there)
  /\ s.rest = ghost.s.rest /\ s.env["keep"] = ghost.s.env["keep"]
  /\ s.env["legacy"] \in {"none", ghost.s.env["legacy"]}
Pure(s) ==
  /\ Alike(s) /\ s.perm = ghost.s.perm /\ s.allow = ghost.s.allow
  /\ s.env["command"] \in {"none", ghost.s.env["command"]}
Ours(s, r) ==
  /\ Alike(s) /\ s.env["command"] = "ours" /\ s.allow = ghost.s.allow \cup r.added
  /\ r.added \cap ghost.s.allow = {}
  /\ IF r.madeAllow
     THEN /\ s.perm = "list" /\ ghost.s.perm = (IF r.madePerm THEN "none" ELSE "bare") /\ r.added # {}
     ELSE s.perm = ghost.s.perm
  /\ IF r.madeSettings THEN ghost.s.there => ghost.s.rest > 0 ELSE ghost.s.there
\* The same for teammateMode.
ModeOurs(r) ==
  IF r.set
  THEN /\ claude.there /\ claude.mode = "tmux" /\ claude.rest = ghost.c.rest
       /\ r.orig # "tmux" /\ ghost.c.mode = r.orig
       /\ IF r.madeClaude THEN ghost.c.there => ghost.c.rest > 0 ELSE ghost.c.there
  ELSE claude = ghost.c /\ ghost.c.mode = "tmux"
NoneLeft == claude = ghost.c /\ (dataDir => ghost.c.mode = "tmux") /\ receipt = Setup!NoReceipt

\* Where one install or uninstall has come to, if nothing went wrong.
Unspoilt == excuses = {} =>
  /\ ~receipt.bad
  /\ doing \in {"idle", "u_read", "u_receipt"} \cup Asking \cup {"i_read"} =>
       IF receipt.there /\ doing \notin Asking \cup {"i_read"}
       THEN Ours(settings, receipt) /\ ModeOurs(receipt)
       ELSE NoneLeft /\ Pure(settings)
  /\ doing = "idle" /\ last = "uninstalled" => ~receipt.there /\ settings.env["legacy"] = "none"
  /\ doing \in {"i_write", "i_mode", "i_prompt", "i_claude", "i_undo"} => NoneLeft /\ Pure(memory.old)
  /\ doing = "i_write" => settings = memory.old
  /\ doing \in {"i_mode", "i_prompt", "i_claude", "i_receipt"} => settings = memory.new
  /\ doing \in {"i_write", "i_mode", "i_prompt", "i_claude", "i_receipt"} =>
       /\ memory.rec = Setup!NoReceipt
       /\ \E noAllow \in BOOLEAN : memory.new = Setup!WithUs(memory.old, noAllow)
  /\ doing \in {"i_prompt", "i_claude"} => memory.cl = claude /\ claude.mode # "tmux"
  /\ doing = "i_receipt" =>
       /\ Pure(memory.old) /\ memory.cl = ghost.c
       /\ claude = [ghost.c EXCEPT !.there = TRUE, !.mode = "tmux"]
       /\ receipt = Setup!NoReceipt
       /\ dataDir => ghost.c.mode = "tmux"
  /\ doing = "i_plugin" => receipt.there /\ Ours(settings, receipt) /\ ModeOurs(receipt)
  /\ doing \in Removing => settings = memory.old
  /\ doing \in {"u_receipt", "u_mode", "u_claude", "u_delete"} => memory.rec = receipt
  /\ doing \in {"u_mode", "u_claude"} =>
       receipt.there /\ receipt.set /\ Ours(settings, receipt) /\ ModeOurs(receipt)
  /\ doing = "u_claude" => memory.cl = claude
  /\ doing = "u_delete" =>
       /\ receipt.there /\ Ours(settings, receipt) /\ claude = ghost.c
       /\ ~receipt.set => ghost.c.mode = "tmux"
  /\ doing = "u_settings" =>
       NoneLeft /\ IF memory.rec.there THEN Ours(settings, memory.rec) ELSE Pure(settings)

SetupInv == SetupShape /\ Reported /\ Begun /\ Guarded /\ Unspoilt

-----------------------------------------------------------------------------
(* Installer: what the commands make of a file.                             *)

LEMMA WithUsIs ==
  ASSUME NEW s \in SettingsOk, NEW noAllow \in BOOLEAN
  PROVE  /\ Setup!WithUs(s, noAllow) \in SettingsOk
         /\ Setup!WithUs(s, noAllow).there /\ Setup!WithUs(s, noAllow).rest = s.rest
         /\ Setup!WithUs(s, noAllow).env["command"] = "ours"
         /\ Setup!WithUs(s, noAllow).env["keep"] = s.env["keep"]
         /\ Setup!WithUs(s, noAllow).env["legacy"] \in {"none", s.env["legacy"]}
         /\ \/ Setup!WithUs(s, noAllow).perm = s.perm /\ Setup!WithUs(s, noAllow).allow = s.allow
            \/ /\ Setup!WithUs(s, noAllow).perm = "list"
               /\ Setup!WithUs(s, noAllow).allow = s.allow \cup Entries
<1>1. PICK env \in [Setup!EnvKeys -> {"none", "ours", "moved", "user"}] :
        env = [k \in Setup!EnvKeys |-> IF k = "command" THEN "ours"
                                ELSE IF k = "legacy" /\ Setup!Managed(s.env[k]) THEN "none"
                                ELSE s.env[k]]
  BY DEF SettingsOk
<1>2. PICK perm \in {"none", "bare", "list"} : perm = IF noAllow THEN s.perm ELSE "list"
  BY DEF SettingsOk
<1>3. PICK allow \in SUBSET Entries : allow = IF noAllow THEN s.allow ELSE s.allow \cup Entries
  BY DEF SettingsOk
<1>4. Setup!WithUs(s, noAllow) = [s EXCEPT !.there = TRUE, !.block = TRUE, !.env = env,
                                           !.perm = perm, !.allow = allow]
  BY <1>1, <1>2, <1>3 DEF Setup!WithUs, SettingsOk
<1>5. env["command"] = "ours" /\ env["keep"] = s.env["keep"] /\ env["legacy"] \in {"none", s.env["legacy"]}
  BY <1>1 DEF Setup!EnvKeys
<1> QED
  BY <1>2, <1>3, <1>4, <1>5 DEF SettingsOk

\* What is left of settings without us, if they are not unlinked.
Left(s, r) ==
  [s EXCEPT !.allow = s.allow \ r.added,
     !.perm = IF s.allow \cap r.added # {} /\ s.allow = s.allow \cap r.added /\ r.madeAllow
              THEN IF r.madePerm THEN "none" ELSE "bare" ELSE s.perm,
     !.env = Setup!Stripped(s),
     !.block = \E k \in Setup!EnvKeys : Setup!Stripped(s)[k] # "none"]

LEMMA StrippedIs ==
  ASSUME NEW s \in SettingsOk
  PROVE  /\ Setup!Stripped(s) \in [Setup!EnvKeys -> {"none", "ours", "moved", "user"}]
         /\ Setup!Stripped(s)["keep"] = s.env["keep"]
         /\ \A k \in {"command", "legacy"} :
              Setup!Stripped(s)[k] = IF Setup!Managed(s.env[k]) THEN "none" ELSE s.env[k]
BY DEF Setup!Stripped, SettingsOk, Setup!EnvKeys

LEMMA LeftIs ==
  ASSUME NEW s \in SettingsOk, NEW r \in Receipts
  PROVE  /\ Left(s, r) \in SettingsOk \/ ~s.there
         /\ Left(s, r).there = s.there /\ Left(s, r).rest = s.rest /\ Left(s, r).env = Setup!Stripped(s)
         /\ Left(s, r).allow = s.allow \ r.added
         /\ Left(s, r).perm = IF s.allow \cap r.added # {} /\ s.allow = s.allow \cap r.added /\ r.madeAllow
                              THEN IF r.madePerm THEN "none" ELSE "bare" ELSE s.perm
         /\ Left(s, r).block <=> \E k \in Setup!EnvKeys : Setup!Stripped(s)[k] # "none"
<1>1. PICK perm \in {"none", "bare", "list"} :
        perm = IF s.allow \cap r.added # {} /\ s.allow = s.allow \cap r.added /\ r.madeAllow
               THEN IF r.madePerm THEN "none" ELSE "bare" ELSE s.perm
  BY DEF SettingsOk
<1>2. PICK allow \in SUBSET Entries : allow = s.allow \ r.added
  BY DEF SettingsOk
<1>3. PICK block \in BOOLEAN : block <=> \E k \in Setup!EnvKeys : Setup!Stripped(s)[k] # "none"
  OBVIOUS
<1>4. Left(s, r) = [s EXCEPT !.allow = allow, !.perm = perm, !.env = Setup!Stripped(s), !.block = block]
  BY <1>1, <1>2, <1>3 DEF Left
<1>5. perm # "list" => allow = {}
  BY <1>1, <1>2 DEF SettingsOk
<1> DEFINE t == Left(s, r)
<1>6. /\ t.there = s.there /\ t.rest = s.rest /\ t.env = Setup!Stripped(s) /\ t.allow = allow
      /\ t.perm = perm /\ t.block = block
      /\ t \in [there : BOOLEAN, env : [Setup!EnvKeys -> {"none", "ours", "moved", "user"}], block : BOOLEAN,
               perm : {"none", "bare", "list"}, allow : SUBSET Entries, rest : Nat]
  BY <1>4, StrippedIs DEF SettingsOk
<1>7. t \in SettingsOk \/ ~s.there
  BY <1>5, <1>6 DEF SettingsOk
<1> HIDE DEF t
<1>8. t.block <=> \E k \in Setup!EnvKeys : Setup!Stripped(s)[k] # "none"
  BY <1>3, <1>6
<1> QED
  BY <1>1, <1>2, <1>6, <1>7, <1>8 DEF t

LEMMA WithoutUsIs ==
  ASSUME NEW s \in SettingsOk, NEW r \in Receipts
  PROVE  /\ Setup!WithoutUs(s, r) \in SettingsOk
         /\ \/ /\ Setup!WithoutUs(s, r) = s
               /\ Setup!Stripped(s) = s.env /\ Left(s, r).allow = s.allow
            \/ /\ Setup!WithoutUs(s, r) = Setup!NoSettings
               /\ r.madeSettings /\ ~Left(s, r).block /\ Left(s, r).perm = "none" /\ s.rest = 0
            \/ /\ Setup!WithoutUs(s, r) = Left(s, r)
               /\ ~(r.madeSettings /\ ~Left(s, r).block /\ Left(s, r).perm = "none" /\ s.rest = 0)
<1>1. Setup!WithoutUs(s, r) =
        IF Setup!Stripped(s) = s.env /\ Left(s, r).allow = s.allow THEN s
        ELSE IF r.madeSettings /\ ~Left(s, r).block /\ Left(s, r).perm = "none" /\ Left(s, r).rest = 0
             THEN Setup!NoSettings ELSE Left(s, r)
  <2>1. Left(s, r) = [Setup!Disallowed(s, r) EXCEPT !.env = Setup!Stripped(s),
                        !.block = \E k \in Setup!EnvKeys : Setup!Stripped(s)[k] # "none"]
    BY DEF Left, Setup!Disallowed, SettingsOk
  <2> QED
    BY <2>1 DEF Setup!WithoutUs
<1>2. Setup!NoSettings \in SettingsOk
  BY DEF SettingsOk, Setup!NoSettings, Setup!EnvKeys
<1>3. ~s.there => Setup!Stripped(s) = s.env /\ Left(s, r).allow = s.allow
  <2> SUFFICES ASSUME s = Setup!NoSettings
               PROVE  Setup!Stripped(s) = s.env /\ Left(s, r).allow = s.allow
    BY DEF SettingsOk
  <2> QED
    BY LeftIs DEF Setup!NoSettings, Setup!Stripped, Setup!EnvKeys, Setup!Managed
<1> QED
  BY <1>1, <1>2, <1>3, LeftIs
-----------------------------------------------------------------------------
(* Installer: what is found after an offer.                                 *)

LEMMA LookedIs ==
  ASSUME NEW mc \in Hosts
  PROVE  Setup!Looked(mc) \in Hosts /\ Setup!Found(mc) \subseteq Setup!Found(Setup!Looked(mc))
BY DEF Hosts, Setup!Looked, Setup!Resolved, Setup!UvTools, Setup!Found, Setup!OnPath

LEMMA MuxIs ==
  ASSUME NEW mc \in Hosts, NEW x \in BOOLEAN
  PROVE  [mc EXCEPT !.mux = x] \in Hosts /\ Setup!Found([mc EXCEPT !.mux = x]) = Setup!Found(mc)
BY DEF Hosts, Setup!UvTools, Setup!Found, Setup!OnPath

LEMMA InstalledIs ==
  ASSUME NEW mc \in Hosts, NEW p \in Providers, NEW where \in Setup!Lands(p, mc),
         NEW told \in SUBSET Providers, told \subseteq Setup!Found(mc), p \notin told,
         NEW mc1, mc1 = Setup!Installed(p, mc, where), NEW mc2, mc2 = Setup!Resolved(p, mc1)
  PROVE  mc2 \in Hosts /\ told \cup Setup!Tells(p, mc1) \subseteq Setup!Found(mc2)
<1>1. where \in {"on", "uv", "away"}
  BY DEF Setup!Lands
<1>2. PICK now \in Hosts : /\ now = [mc EXCEPT !.at[p] = where]
                           /\ now.uv = mc.uv /\ \A q \in Providers \ {p} : now.at[q] = mc.at[q]
  <2>1. PICK places \in [Providers -> {"on", "uv", "away"}] : places = [mc.at EXCEPT ![p] = where]
    BY <1>1 DEF Hosts
  <2>2. \A q \in Providers \ {p} : places[q] = mc.at[q]
    BY <2>1 DEF Hosts
  <2>3. [mc EXCEPT !.at[p] = where] = [mc EXCEPT !.at = places]
    BY <2>1 DEF Hosts
  <2> QED
    BY <2>2, <2>3 DEF Hosts
<1>3. told \subseteq Setup!Found(now)
  BY <1>2 DEF Setup!Found, Setup!OnPath, Setup!UvTools
<1>4. Setup!Refreshed(now) \in Hosts /\ Setup!Found(now) \subseteq Setup!Found(Setup!Refreshed(now))
  BY DEF Hosts, Setup!Refreshed, Setup!Found, Setup!OnPath, Setup!UvTools
<1>5. mc1 \in Hosts /\ told \subseteq Setup!Found(mc1)
  BY <1>2, <1>3, <1>4 DEF Setup!Installed
<1>6. mc2 \in Hosts /\ Setup!Found(mc1) \subseteq Setup!Found(mc2)
  BY <1>5 DEF Hosts, Setup!Resolved, Setup!UvTools, Setup!Found, Setup!OnPath
<1>7. Setup!Tells(p, mc1) \subseteq Setup!Found(mc2)
  <2> SUFFICES ASSUME Setup!Resolves(p, mc1) PROVE mc2.at[p] = "on"
    BY DEF Setup!Tells, Setup!Found, Setup!OnPath
  <2> QED
    BY <1>5 DEF Hosts, Setup!Resolves, Setup!Resolved, Setup!UvTools
<1> QED
  BY <1>5, <1>6, <1>7

LEMMA FirstIs ==
  ASSUME NEW S \in SUBSET Providers, S # {}
  PROVE  Setup!First(S) \in S
BY ProgramsAssumption DEF Setup!First

-----------------------------------------------------------------------------
(* Installer: the steps of an install.                                      *)

USE DEF Setup!files, Setup!past, Asking, Installing, Removing

LEMMA SetupStarts == Setup!Init => SetupInv
<1> SUFFICES ASSUME Setup!Init PROVE SetupInv
  OBVIOUS
<1>1. /\ settings \in Setup!UserSettings /\ claude \in Setup!UserClaude
      /\ receipt = Setup!NoReceipt /\ dataDir = FALSE /\ doing = "idle" /\ memory = Setup!Nothing
      /\ touches = 0 /\ ghost = [s |-> settings, c |-> claude] /\ excuses = {} /\ last = "none"
  BY DEF Setup!Init
<1>2. /\ settings \in SettingsOk /\ settings.env["command"] \in {"none", "user"}
      /\ settings.env["legacy"] \in {"none", "moved"}
  <2>1. CASE settings = Setup!NoSettings
    BY <2>1 DEF SettingsOk, Setup!NoSettings, Setup!EnvKeys
  <2>2. CASE settings # Setup!NoSettings
    <3>1. /\ settings \in [there : {TRUE}, block : BOOLEAN, perm : {"none", "bare", "list"},
             env : [command : {"none", "user"}, legacy : {"none", "moved"}, keep : {"none", "user"}],
             allow : SUBSET Entries, rest : {0, 1}]
          /\ settings.perm # "list" => settings.allow = {}
      BY <1>1, <2>2 DEF Setup!UserSettings
    <3>2. PICK env \in [command : {"none", "user"}, legacy : {"none", "moved"}, keep : {"none", "user"}] :
            env = settings.env
      BY <3>1
    <3>3. env \in [Setup!EnvKeys -> {"none", "ours", "moved", "user"}]
      BY DEF Setup!EnvKeys
    <3>4. settings \in [there : BOOLEAN, env : [Setup!EnvKeys -> {"none", "ours", "moved", "user"}],
             block : BOOLEAN, perm : {"none", "bare", "list"}, allow : SUBSET Entries, rest : Nat]
      <4>1. PICK t \in {TRUE}, block \in BOOLEAN, perm \in {"none", "bare", "list"},
                 allow \in SUBSET Entries, rest \in {0, 1} :
              settings = [there |-> t, block |-> block, perm |-> perm, env |-> env, allow |-> allow,
                          rest |-> rest]
        BY <3>1, <3>2
      <4> QED
        BY <4>1, <3>3
    <3>5. settings.env["command"] \in {"none", "user"} /\ settings.env["legacy"] \in {"none", "moved"}
      BY <3>2
    <3> QED
      BY <3>1, <3>4, <3>5 DEF SettingsOk
  <2> QED
    BY <2>1, <2>2
<1>3. claude \in ClaudeOk
  <2>1. CASE claude = Setup!NoClaude
    BY <2>1 DEF ClaudeOk, Setup!NoClaude, Modes
  <2>2. CASE claude # Setup!NoClaude
    <3>1. claude \in [there : {TRUE}, mode : {"none", "tmux", "auto"}, rest : {0, 1}]
      BY <1>1, <2>2 DEF Setup!UserClaude
    <3>2. claude \in [there : BOOLEAN, mode : Modes, rest : Nat] /\ claude.there
      <4>1. PICK t \in {TRUE}, kind \in Modes, rest \in {0, 1} :
              claude = [there |-> t, mode |-> kind, rest |-> rest]
        BY <3>1 DEF Modes
      <4> QED
        BY <4>1
    <3> QED
      BY <3>2 DEF ClaudeOk
  <2> QED
    BY <2>1, <2>2
<1>4. Setup!NoSettings \in SettingsOk /\ Setup!NoClaude \in ClaudeOk /\ Setup!NoReceipt \in Receipts
  BY DEF SettingsOk, ClaudeOk, Receipts, Setup!NoSettings, Setup!NoClaude, Setup!NoReceipt, Setup!EnvKeys, Modes
<1>5. SetupShape
  BY <1>1, <1>2, <1>3, <1>4 DEF SetupShape, Setup!Nothing
<1>6. Reported /\ Begun
  BY <1>1 DEF Reported, Begun
<1>7. Guarded
  BY <1>1 DEF Guarded, HasTheirs, Setup!HoldsSettings, Setup!HoldsClaude, Setup!NoReceipt, Setup!Nothing
<1>8. Unspoilt
  BY <1>1 DEF Unspoilt, NoneLeft, Pure, Alike, Setup!NoReceipt
<1> QED
  BY <1>5, <1>6, <1>7, <1>8 DEF SetupInv

\* While install asks, only what it knows of the machine changes.
LEMMA AskingOn ==
  ASSUME SetupInv, doing \in Asking, doing' \in Asking \cup {"i_read"},
         UNCHANGED <<settings, claude, receipt, dataDir, touches, ghost, excuses>>,
         NEW mc \in Hosts \cup {Setup!NoMachine}, NEW left \in SUBSET Providers,
         NEW told \in SUBSET Providers,
         memory' = [memory EXCEPT !.mc = mc, !.todo = left, !.told = told], Reported'
  PROVE  SetupInv'
<1>1. /\ memory'.old = memory.old /\ memory'.new = memory.new /\ memory'.cl = memory.cl
      /\ memory'.rec = memory.rec /\ memory'.begin = memory.begin
  BY DEF SetupInv, SetupShape
<1>2. SetupShape'
  BY DEF SetupInv, SetupShape
<1>3. Begun'
  BY <1>1 DEF SetupInv, Begun
<1>4. Guarded'
  BY <1>1 DEF SetupInv, Guarded, HasTheirs, Setup!HoldsSettings, Setup!HoldsClaude
<1>5. Unspoilt'
  BY <1>1 DEF SetupInv, Unspoilt, NoneLeft, Pure, Alike
<1> QED
  BY <1>2, <1>3, <1>4, <1>5 DEF SetupInv

LEMMA SetupInstall ==
  ASSUME SetupInv, NEW asks \in BOOLEAN, Setup!Install(asks)
  PROVE  SetupInv'
<1>1. PICK mc \in Hosts \cup {Setup!NoMachine} :
        /\ memory' = [memory EXCEPT !.begin = <<settings, claude>>, !.mc = mc]
        /\ doing' = "i_tmux" => mc \in Hosts
  BY DEF Setup!Install, Setup!Machines, Hosts
<1>2. /\ doing = "idle" /\ memory = Setup!Nothing /\ doing' \in {"i_tmux", "i_check"}
      /\ UNCHANGED <<settings, claude, receipt, dataDir, touches, ghost>> /\ excuses \subseteq excuses'
      /\ receipt.there => excuses' # {}
  BY DEF Setup!Install, SetupInv, SetupShape
<1>3. /\ memory'.old = memory.old /\ memory'.new = memory.new /\ memory'.cl = memory.cl
      /\ memory'.rec = memory.rec /\ memory'.begin = <<settings, claude>> /\ memory'.mc = mc
      /\ memory'.todo = {} /\ memory'.told = {}
  BY <1>1, <1>2 DEF SetupInv, SetupShape, Setup!Nothing
<1>4. SetupShape'
  BY <1>1, <1>2 DEF SetupInv, SetupShape
<1>5. Reported'
  BY <1>1, <1>2, <1>3 DEF Reported
<1>6. Begun'
  BY <1>2, <1>3 DEF Begun
<1>7. Guarded'
  BY <1>2, <1>3 DEF SetupInv, Guarded, HasTheirs, Setup!HoldsSettings, Setup!HoldsClaude
<1>8. Unspoilt'
  BY <1>2, <1>3 DEF SetupInv, Unspoilt, NoneLeft, Pure, Alike
<1> QED
  BY <1>4, <1>5, <1>6, <1>7, <1>8 DEF SetupInv

LEMMA SetupOfferTmux ==
  ASSUME SetupInv, Setup!OfferTmux
  PROVE  SetupInv'
<1>1. memory.mc \in Hosts /\ doing = "i_tmux" /\ doing' = "i_list"
  BY DEF Setup!OfferTmux, SetupInv, Reported
<1>2. PICK mux \in BOOLEAN : memory' = [memory EXCEPT !.mc.mux = mux]
  BY <1>1 DEF Setup!OfferTmux, Hosts, SetupInv, SetupShape
<1>3. PICK mc \in Hosts : mc = [memory.mc EXCEPT !.mux = mux] /\ Setup!Found(mc) = Setup!Found(memory.mc)
  BY <1>1, MuxIs
<1>4. memory' = [memory EXCEPT !.mc = mc, !.todo = memory.todo, !.told = memory.told]
  BY <1>2, <1>3 DEF SetupInv, SetupShape
<1>5. memory'.mc = mc /\ memory'.told = memory.told /\ memory.todo \in SUBSET Providers
      /\ memory.told \in SUBSET Providers
  BY <1>4 DEF SetupInv, SetupShape
<1>6. memory.told \subseteq Setup!Found(memory.mc)
  BY <1>1 DEF SetupInv, Reported, Hosts, Setup!NoMachine
<1>7. Reported'
  BY <1>1, <1>3, <1>5, <1>6 DEF Reported
<1> QED
  BY <1>1, <1>4, <1>5, <1>7, AskingOn DEF Setup!OfferTmux

LEMMA SetupListMissing ==
  ASSUME SetupInv, Setup!ListMissing
  PROVE  SetupInv'
<1>1. memory.mc \in Hosts /\ doing = "i_list" /\ doing' \in {"i_check", "i_offer"}
  BY DEF Setup!ListMissing, SetupInv, Reported
<1>2. PICK mc \in Hosts : mc = Setup!Looked(memory.mc) /\ Setup!Found(memory.mc) \subseteq Setup!Found(mc)
  BY <1>1, LookedIs
<1>3. PICK left \in SUBSET Providers : left = Providers \ Setup!Found(memory.mc)
  OBVIOUS
<1>4. memory' = [memory EXCEPT !.todo = left, !.mc = mc]
  BY <1>2, <1>3 DEF Setup!ListMissing, Setup!Missing
<1>5. /\ memory' = [memory EXCEPT !.mc = mc, !.todo = left, !.told = memory.told]
      /\ memory'.mc = mc /\ memory'.told = memory.told /\ memory'.todo = left
      /\ memory.told \in SUBSET Providers
  BY <1>4 DEF SetupInv, SetupShape
<1>6. memory.told \subseteq Setup!Found(memory.mc)
  BY <1>1 DEF SetupInv, Reported, Hosts, Setup!NoMachine
<1>7. Reported'
  BY <1>1, <1>2, <1>3, <1>5, <1>6 DEF Reported, Setup!ListMissing
<1>8. /\ doing' \in Asking \cup {"i_read"} /\ doing \in Asking
      /\ UNCHANGED <<settings, claude, receipt, dataDir, touches, ghost, excuses>>
  BY <1>1 DEF Setup!ListMissing
<1> QED
  BY <1>5, <1>7, <1>8, AskingOn

LEMMA SetupOfferProgram ==
  ASSUME SetupInv, Setup!OfferProgram
  PROVE  SetupInv'
<1>1. /\ memory.mc \in Hosts /\ doing = "i_offer" /\ doing' \in {"i_check", "i_offer"}
      /\ memory.todo # {} /\ memory.todo \cap memory.told = {} /\ memory.todo \in SUBSET Providers
      /\ memory.told \in SUBSET Providers
  BY DEF Setup!OfferProgram, SetupInv, Reported, SetupShape
<1>2. memory.told \subseteq Setup!Found(memory.mc)
  BY <1>1 DEF SetupInv, Reported, Hosts, Setup!NoMachine
<1>3. PICK p \in memory.todo : p = Setup!First(memory.todo)
  BY <1>1, FirstIs
<1>4. PICK left \in SUBSET Providers : left = memory.todo \ {p}
  BY <1>1
<1>5. \E mc \in Hosts, told \in SUBSET Providers :
        /\ memory' = [memory EXCEPT !.mc = mc, !.todo = left, !.told = told]
        /\ told \subseteq Setup!Found(mc) /\ told \subseteq memory.told \cup {p}
  <2>1. CASE memory' = [memory EXCEPT !.todo = left]
    <3>1. memory' = [memory EXCEPT !.mc = memory.mc, !.todo = left, !.told = memory.told]
      BY <2>1 DEF SetupInv, SetupShape
    <3> QED
      BY <1>1, <1>2, <3>1
  <2>2. ASSUME NEW where \in Setup!Lands(p, memory.mc), NEW mc1, mc1 = Setup!Installed(p, memory.mc, where),
               memory' = [memory EXCEPT !.todo = left, !.mc = Setup!Resolved(p, mc1),
                                        !.told = @ \cup Setup!Tells(p, mc1)]
        PROVE  \E mc \in Hosts, told \in SUBSET Providers :
                 /\ memory' = [memory EXCEPT !.mc = mc, !.todo = left, !.told = told]
                 /\ told \subseteq Setup!Found(mc) /\ told \subseteq memory.told \cup {p}
    <3>1. PICK mc \in Hosts : /\ mc = Setup!Resolved(p, mc1)
                              /\ memory.told \cup Setup!Tells(p, mc1) \subseteq Setup!Found(mc)
      BY <1>1, <1>2, <2>2, InstalledIs
    <3>2. PICK told \in SUBSET Providers : told = memory.told \cup Setup!Tells(p, mc1)
      BY <1>1 DEF Setup!Tells
    <3>3. memory' = [memory EXCEPT !.mc = mc, !.todo = left, !.told = told]
      BY <2>2, <3>1, <3>2 DEF SetupInv, SetupShape
    <3> QED
      BY <3>1, <3>2, <3>3 DEF Setup!Tells
  <2> QED
    BY <1>3, <1>4, <2>1, <2>2 DEF Setup!OfferProgram
<1>6. PICK mc \in Hosts, told \in SUBSET Providers :
        /\ memory' = [memory EXCEPT !.mc = mc, !.todo = left, !.told = told]
        /\ told \subseteq Setup!Found(mc) /\ told \subseteq memory.told \cup {p}
  BY <1>5
<1>7. memory'.mc = mc /\ memory'.told = told /\ memory'.todo = left
  BY <1>6 DEF SetupInv, SetupShape
<1>8. Reported'
  BY <1>1, <1>4, <1>6, <1>7 DEF Reported, Setup!OfferProgram
<1> QED
  BY <1>1, <1>6, <1>8, AskingOn DEF Setup!OfferProgram

LEMMA NothingIs ==
  /\ Setup!Nothing \in [old : SettingsOk, new : SettingsOk, cl : ClaudeOk, rec : Receipts,
                        begin : SettingsOk \X ClaudeOk, mc : Hosts \cup {Setup!NoMachine},
                        todo : SUBSET Providers, told : SUBSET Providers]
  /\ Setup!Nothing.rec = Setup!NoReceipt
BY DEF SettingsOk, ClaudeOk, Receipts, Setup!Nothing, Setup!NoSettings, Setup!NoClaude, Setup!NoReceipt,
       Setup!EnvKeys, Modes

\* A command that ends where nothing was written and nothing is left.
LEMMA Ending ==
  ASSUME SetupInv, doing' = "idle", memory' = Setup!Nothing, last' # "uninstalled",
         UNCHANGED <<settings, claude, receipt, dataDir, touches, ghost>>,
         excuses \subseteq excuses',
         excuses' = {} => doing \in Asking \cup {"i_read", "i_write", "i_plugin"}
  PROVE  SetupInv'
<1>2. SetupShape'
  BY NothingIs DEF SetupInv, SetupShape
<1>3. Reported' /\ Begun'
  BY DEF Reported, Begun
<1>4. Guarded'
  BY NothingIs DEF SetupInv, Guarded, HasTheirs, Setup!HoldsSettings, Setup!HoldsClaude, Setup!NoReceipt
<1>5. Unspoilt'
  BY DEF SetupInv, Unspoilt, NoneLeft, Pure, Alike, Ours, ModeOurs, Setup!NoReceipt
<1> QED
  BY <1>2, <1>3, <1>4, <1>5 DEF SetupInv

LEMMA SetupCheck ==
  ASSUME SetupInv, Setup!Check
  PROVE  SetupInv'
<1>1. CASE doing' = "i_read" /\ memory' = [memory EXCEPT !.mc = Setup!NoMachine, !.told = {}]
  <2>1. memory' = [memory EXCEPT !.mc = Setup!NoMachine, !.todo = memory.todo, !.told = {}]
        /\ memory.todo \in SUBSET Providers
    BY <1>1 DEF SetupInv, SetupShape
  <2>2. Reported'
    BY <1>1 DEF Reported
  <2>3. /\ doing' \in Asking \cup {"i_read"} /\ doing \in Asking
        /\ UNCHANGED <<settings, claude, receipt, dataDir, touches, ghost, excuses>>
    BY <1>1 DEF Setup!Check
  <2>4. PICK left \in SUBSET Providers, mc \in Hosts \cup {Setup!NoMachine}, told \in SUBSET Providers :
          left = memory.todo /\ mc = Setup!NoMachine /\ told = {}
    BY <2>1
  <2> QED
    BY <2>1, <2>2, <2>3, <2>4, AskingOn
<1>2. CASE Setup!Done("refused")
  BY <1>2, Ending DEF Setup!Check, Setup!Done
<1> QED
  BY <1>1, <1>2 DEF Setup!Check

LEMMA SetupRegisterPlugin ==
  ASSUME SetupInv, Setup!RegisterPlugin
  PROVE  SetupInv'
BY Ending DEF Setup!RegisterPlugin, Setup!Done

LEMMA SetupReadSettings ==
  ASSUME SetupInv, NEW noAllow \in BOOLEAN, Setup!ReadSettings(noAllow)
  PROVE  SetupInv'
<1>1. /\ settings \in SettingsOk /\ receipt \in Receipts /\ Setup!NoReceipt \in Receipts
      /\ Setup!NoReceipt.added = {}
  BY DEF SetupInv, SetupShape, Receipts, Setup!NoReceipt, Modes
<1>2. PICK new \in SettingsOk :
        /\ new = Setup!WithUs(settings, noAllow)
        /\ new.rest = settings.rest /\ settings.allow \subseteq new.allow
        /\ new.env["keep"] = settings.env["keep"]
  BY <1>1, WithUsIs
<1>3. PICK rec \in Receipts : rec = IF receipt.bad THEN Setup!NoReceipt ELSE receipt
  BY <1>1
<1>4. /\ memory' = [memory EXCEPT !.old = settings, !.new = new, !.rec = rec]
      /\ doing = "i_read" /\ doing' = IF new = settings THEN "i_mode" ELSE "i_write"
      /\ UNCHANGED <<settings, claude, receipt, dataDir, touches, ghost, excuses>>
  BY <1>2, <1>3 DEF Setup!ReadSettings
<1>5. /\ memory'.old = settings /\ memory'.new = new /\ memory'.rec = rec /\ memory'.cl = memory.cl
      /\ memory'.begin = memory.begin
  BY <1>4 DEF SetupInv, SetupShape
<1>6. SetupShape'
  BY <1>1, <1>4 DEF SetupInv, SetupShape
<1>7. Reported' /\ Begun'
  BY <1>4, <1>5 DEF SetupInv, Reported, Begun
<1>8. Guarded'
  BY <1>1, <1>2, <1>3, <1>4, <1>5 DEF SetupInv, Guarded, HasTheirs, Setup!HoldsSettings, Setup!HoldsClaude
<1>9. Unspoilt'
  BY <1>2, <1>3, <1>4, <1>5 DEF SetupInv, Unspoilt, NoneLeft, Pure, Alike
<1> QED
  BY <1>6, <1>7, <1>8, <1>9 DEF SetupInv

LEMMA SetupWriteSettings ==
  ASSUME SetupInv, Setup!WriteSettings
  PROVE  SetupInv'
<1>1. /\ doing = "i_write" /\ doing' = "i_mode" /\ settings' = memory.new
      /\ UNCHANGED <<claude, receipt, dataDir, memory, touches, ghost, excuses>>
  BY DEF Setup!WriteSettings
<1>2. SetupShape'
  BY <1>1 DEF SetupInv, SetupShape
<1>3. Reported' /\ Begun'
  BY <1>1 DEF SetupInv, Reported, Begun
<1>4. Guarded'
  BY <1>1 DEF SetupInv, Guarded, HasTheirs, Setup!HoldsSettings, Setup!HoldsClaude
<1>5. Unspoilt'
  BY <1>1 DEF SetupInv, Unspoilt, NoneLeft, Pure, Alike
<1> QED
  BY <1>2, <1>3, <1>4, <1>5 DEF SetupInv

InMode(c, kind) == [c EXCEPT !.there = TRUE, !.mode = kind]

LEMMA ModeSet ==
  ASSUME NEW c \in ClaudeOk, NEW kind \in Modes
  PROVE  /\ InMode(c, kind) \in ClaudeOk /\ InMode(c, kind).there /\ InMode(c, kind).mode = kind
         /\ InMode(c, kind).rest = c.rest
         /\ \A e \in ClaudeOk : e.there /\ e.mode = kind /\ e.rest = c.rest => InMode(c, kind) = e
<1> DEFINE d == InMode(c, kind)
<1>1. PICK there \in BOOLEAN : there = TRUE
  OBVIOUS
<1>2. d = [c EXCEPT !.there = there, !.mode = kind]
  BY <1>1, Zenon DEF InMode
<1> HIDE DEF d
<1>3. /\ d.there /\ d.mode = kind /\ d.rest = c.rest
      /\ d \in [there : BOOLEAN, mode : Modes, rest : Nat]
  BY <1>1, <1>2 DEF ClaudeOk
<1>4. ASSUME NEW e \in [there : BOOLEAN, mode : Modes, rest : Nat], e.there, e.mode = kind, e.rest = c.rest
      PROVE  d = e
  BY <1>3, <1>4
<1>5. /\ d \in ClaudeOk /\ d.there /\ d.mode = kind /\ d.rest = c.rest
      /\ \A e \in ClaudeOk : e.there /\ e.mode = kind /\ e.rest = c.rest => d = e
  BY <1>3, <1>4 DEF ClaudeOk
<1> QED
  BY <1>5 DEF d

LEMMA SetupReadMode ==
  ASSUME SetupInv, Setup!ReadMode
  PROVE  SetupInv'
<1>1. claude \in ClaudeOk /\ claude.mode \in Modes
  BY DEF SetupInv, SetupShape, ClaudeOk
<1>2. /\ doing = "i_mode" /\ memory' = [memory EXCEPT !.cl = claude]
      /\ UNCHANGED <<settings, claude, receipt, dataDir, touches, ghost, excuses>>
  BY DEF Setup!ReadMode
<1>3. /\ claude.mode = "none" => doing' = "i_claude"
      /\ claude.mode = "tmux" => doing' = "i_receipt"
      /\ claude.mode = "auto" => doing' = "i_prompt"
  BY Zenon DEF Setup!ReadMode
<1>4. /\ memory'.old = memory.old /\ memory'.new = memory.new /\ memory'.rec = memory.rec
      /\ memory'.cl = claude /\ memory'.begin = memory.begin
      /\ doing' \in {"i_claude", "i_receipt", "i_prompt"}
  BY <1>1, <1>2, <1>3 DEF SetupInv, SetupShape, Modes
<1>5. SetupShape'
  BY <1>1, <1>2, <1>4 DEF SetupInv, SetupShape
<1>6. Reported' /\ Begun'
  BY <1>2, <1>4 DEF SetupInv, Reported, Begun
<1>7. Guarded'
  BY <1>2, <1>4 DEF SetupInv, Guarded, HasTheirs, Setup!HoldsSettings, Setup!HoldsClaude
<1>8. claude.mode = "tmux" => claude = [claude EXCEPT !.there = TRUE, !.mode = "tmux"]
  <2>1. claude.mode = "tmux" => claude.there
    BY <1>1 DEF ClaudeOk, Setup!NoClaude
  <2>2. claude.mode = "tmux" => InMode(claude, "tmux") = claude
    BY <1>1, <2>1, ModeSet
  <2> QED
    BY <2>2, Zenon DEF InMode
<1>9. Unspoilt'
  <2> SUFFICES ASSUME excuses = {} PROVE Unspoilt'
    BY <1>2 DEF Unspoilt
  <2>1. /\ NoneLeft /\ Pure(memory.old) /\ settings = memory.new /\ memory.rec = Setup!NoReceipt
        /\ \E noAllow \in BOOLEAN : memory.new = Setup!WithUs(memory.old, noAllow)
        /\ ~receipt.bad
    BY <1>2 DEF SetupInv, Unspoilt
  <2>2. NoneLeft' /\ Pure(memory.old)'
    BY <1>2, <1>4, <2>1 DEF NoneLeft, Pure, Alike
  <2>3. doing' = "i_receipt" => claude = [ghost.c EXCEPT !.there = TRUE, !.mode = "tmux"]
    BY <1>1, <1>3, <1>8, <2>1 DEF NoneLeft, Modes
  <2>4. doing' \in {"i_prompt", "i_claude"} => claude.mode # "tmux"
    BY <1>1, <1>3
  <2> QED
    BY <1>2, <1>4, <2>1, <2>2, <2>3, <2>4 DEF Unspoilt, NoneLeft
<1> QED
  BY <1>5, <1>6, <1>7, <1>9 DEF SetupInv

LEMMA SetupPrompt ==
  ASSUME SetupInv, NEW yes \in BOOLEAN, Setup!Prompt(yes)
  PROVE  SetupInv'
<1>1. /\ doing = "i_prompt" /\ doing' \in {"i_claude", "i_undo"}
      /\ UNCHANGED <<settings, claude, receipt, dataDir, memory, touches, ghost, excuses>>
  BY DEF Setup!Prompt
<1>2. SetupShape'
  BY <1>1 DEF SetupInv, SetupShape
<1>3. Reported' /\ Begun'
  BY <1>1 DEF SetupInv, Reported, Begun
<1>4. Guarded'
  BY <1>1 DEF SetupInv, Guarded, HasTheirs, Setup!HoldsSettings, Setup!HoldsClaude
<1>5. Unspoilt'
  BY <1>1 DEF SetupInv, Unspoilt, NoneLeft, Pure, Alike
<1> QED
  BY <1>2, <1>3, <1>4, <1>5 DEF SetupInv

LEMMA SetupWriteMode ==
  ASSUME SetupInv, Setup!WriteMode
  PROVE  SetupInv'
<1>1. /\ doing = "i_claude" /\ doing' = "i_receipt"
      /\ claude' = [memory.cl EXCEPT !.there = TRUE, !.mode = "tmux"]
      /\ UNCHANGED <<settings, receipt, dataDir, memory, touches, ghost, excuses>>
  BY DEF Setup!WriteMode
<1>2. memory.cl \in ClaudeOk /\ claude' \in ClaudeOk /\ claude'.rest = memory.cl.rest
  BY <1>1 DEF SetupInv, SetupShape, ClaudeOk, Modes
<1>3. SetupShape'
  BY <1>1, <1>2 DEF SetupInv, SetupShape
<1>4. Reported' /\ Begun'
  BY <1>1 DEF SetupInv, Reported, Begun
<1>5. Guarded'
  BY <1>1, <1>2 DEF SetupInv, Guarded, HasTheirs, Setup!HoldsSettings, Setup!HoldsClaude
<1>6. Unspoilt'
  <2> SUFFICES ASSUME excuses = {} PROVE Unspoilt'
    BY <1>1 DEF Unspoilt
  <2>1. /\ NoneLeft /\ Pure(memory.old) /\ settings = memory.new /\ memory.rec = Setup!NoReceipt
        /\ \E noAllow \in BOOLEAN : memory.new = Setup!WithUs(memory.old, noAllow)
        /\ ~receipt.bad /\ memory.cl = claude
    BY <1>1 DEF SetupInv, Unspoilt
  <2>2. Pure(memory.old)'
    BY <1>1, <2>1 DEF Pure, Alike
  <2> QED
    BY <1>1, <2>1, <2>2 DEF Unspoilt, NoneLeft
<1> QED
  BY <1>3, <1>4, <1>5, <1>6 DEF SetupInv

\* What the receipt says of the settings that were written.
LEMMA ReceiptIs ==
  ASSUME SetupInv, NEW orig \in Modes, NEW set \in BOOLEAN, NEW r, r = Setup!Receipt(orig, set)
  PROVE  /\ r \in Receipts /\ r.there /\ ~r.bad /\ r.set = set /\ r.orig = orig
         /\ r.madeSettings = ~memory.old.there /\ r.madeClaude = ~memory.cl.there
         /\ r.added = memory.rec.added \cup (memory.new.allow \ memory.old.allow)
         /\ r.madePerm <=> memory.rec.madePerm \/ (memory.old.perm = "none" /\ memory.new.perm = "list")
         /\ r.madeAllow <=> memory.rec.madeAllow \/ (memory.old.perm # "list" /\ memory.new.perm = "list")
<1>1. memory.old \in SettingsOk /\ memory.new \in SettingsOk /\ memory.rec \in Receipts /\ memory.cl \in ClaudeOk
  BY DEF SetupInv, SetupShape
<1>2. PICK added \in SUBSET Entries : added = memory.rec.added \cup (memory.new.allow \ memory.old.allow)
  BY <1>1 DEF SettingsOk, Receipts
<1>3. PICK madePerm \in BOOLEAN :
        madePerm = (memory.rec.madePerm \/ (memory.old.perm = "none" /\ memory.new.perm = "list"))
  BY <1>1 DEF Receipts
<1>4. PICK madeAllow \in BOOLEAN :
        madeAllow = (memory.rec.madeAllow \/ (memory.old.perm # "list" /\ memory.new.perm = "list"))
  BY <1>1 DEF Receipts
<1>5. PICK madeSettings \in BOOLEAN : madeSettings = ~memory.old.there
  OBVIOUS
<1>6. PICK madeClaude \in BOOLEAN : madeClaude = ~memory.cl.there
  OBVIOUS
<1>7. r = [there |-> TRUE, bad |-> FALSE, set |-> set, orig |-> orig, madeSettings |-> madeSettings,
           madeClaude |-> madeClaude, added |-> added, madePerm |-> madePerm, madeAllow |-> madeAllow]
  BY <1>2, <1>3, <1>4, <1>5, <1>6 DEF Setup!Receipt
<1>8. /\ r \in Receipts /\ r.there /\ ~r.bad /\ r.set = set /\ r.orig = orig
      /\ r.madeSettings = madeSettings /\ r.madeClaude = madeClaude /\ r.added = added
      /\ r.madePerm = madePerm /\ r.madeAllow = madeAllow
  BY <1>7 DEF Receipts
<1> QED
  BY <1>2, <1>3, <1>4, <1>5, <1>6, <1>8

LEMMA SetupWriteReceipt ==
  ASSUME SetupInv, Setup!WriteReceipt
  PROVE  SetupInv'
<1>1. /\ doing = "i_receipt" /\ doing' = "i_plugin" /\ dataDir' \in BOOLEAN
      /\ UNCHANGED <<settings, claude, memory, touches, ghost, excuses>>
  BY DEF Setup!WriteReceipt
<1>2. PICK set \in BOOLEAN, orig \in Modes :
        /\ receipt' = Setup!Receipt(orig, set) /\ orig = memory.cl.mode /\ (set <=> orig # "tmux")
  BY DEF Setup!WriteReceipt, SetupInv, SetupShape, ClaudeOk, Modes
<1>3. PICK r : r = receipt'
  OBVIOUS
<1>4. /\ r \in Receipts /\ r.there /\ ~r.bad /\ r.set = set /\ r.orig = orig
      /\ r.madeSettings = ~memory.old.there /\ r.madeClaude = ~memory.cl.there
      /\ r.added = memory.rec.added \cup (memory.new.allow \ memory.old.allow)
      /\ r.madePerm <=> memory.rec.madePerm \/ (memory.old.perm = "none" /\ memory.new.perm = "list")
      /\ r.madeAllow <=> memory.rec.madeAllow \/ (memory.old.perm # "list" /\ memory.new.perm = "list")
  BY <1>2, <1>3, ReceiptIs
<1>5. SetupShape'
  BY <1>1, <1>3, <1>4 DEF SetupInv, SetupShape
<1>6. Reported' /\ Begun'
  BY <1>1 DEF SetupInv, Reported, Begun
<1>7. Guarded'
  <2> SUFFICES ASSUME "stale" \notin excuses PROVE Guarded'
    BY <1>1 DEF Guarded
  <2>1. /\ HasTheirs(settings) /\ HasTheirs(memory.old) /\ memory.rec.added \cap ghost.s.allow = {}
        /\ claude.rest = ghost.c.rest
    BY <1>1 DEF SetupInv, Guarded, Setup!HoldsSettings
  <2>2. r.added \cap ghost.s.allow = {}
    BY <1>4, <2>1 DEF HasTheirs
  <2> QED
    BY <1>1, <1>3, <2>1, <2>2 DEF Guarded, HasTheirs, Setup!HoldsSettings, Setup!HoldsClaude
<1>8. Unspoilt'
  <2> SUFFICES ASSUME excuses = {} PROVE Unspoilt'
    BY <1>1 DEF Unspoilt
  <2>1. /\ Pure(memory.old) /\ settings = memory.new /\ memory.rec = Setup!NoReceipt
        /\ memory.cl = ghost.c /\ claude = [ghost.c EXCEPT !.there = TRUE, !.mode = "tmux"]
    BY <1>1 DEF SetupInv, Unspoilt
  <2>2. PICK noAllow \in BOOLEAN : memory.new = Setup!WithUs(memory.old, noAllow)
    BY <1>1 DEF SetupInv, Unspoilt
  <2>3. memory.old \in SettingsOk /\ ghost.c \in ClaudeOk
        /\ ghost.s.env["command"] \in {"none", "user"}
    BY DEF SetupInv, SetupShape
  <2>4. /\ settings.there /\ settings.rest = memory.old.rest /\ settings.env["command"] = "ours"
        /\ settings.env["keep"] = memory.old.env["keep"]
        /\ settings.env["legacy"] \in {"none", memory.old.env["legacy"]}
        /\ \/ settings.perm = memory.old.perm /\ settings.allow = memory.old.allow
           \/ settings.perm = "list" /\ settings.allow = memory.old.allow \cup Entries
    BY <2>1, <2>2, <2>3, WithUsIs
  <2>5. /\ ~memory.rec.madePerm /\ ~memory.rec.madeAllow /\ memory.rec.added = {}
    BY <2>1 DEF Setup!NoReceipt
  <2>6. Alike(settings)
    BY <2>1, <2>4 DEF Pure, Alike
  <2>7. r.added \cap ghost.s.allow = {} /\ settings.allow = ghost.s.allow \cup r.added
    BY <1>4, <2>1, <2>4, <2>5 DEF Pure
  <2>8. IF r.madeAllow
        THEN /\ settings.perm = "list" /\ ghost.s.perm = (IF r.madePerm THEN "none" ELSE "bare")
             /\ r.added # {}
        ELSE settings.perm = ghost.s.perm
    <3>1. memory.old.perm \in {"none", "bare", "list"} /\ (memory.old.perm # "list" => memory.old.allow = {})
      BY <2>3 DEF SettingsOk
    <3>2. r.madeAllow => Entries \subseteq r.added
      BY <1>4, <2>1, <2>4, <2>5, <3>1
    <3> QED
      BY <1>4, <2>1, <2>4, <2>5, <3>1, <3>2, InstallerAssumption DEF Pure
  <2>9. IF r.madeSettings THEN ghost.s.there => ghost.s.rest > 0 ELSE ghost.s.there
    BY <1>4, <2>1, <2>3 DEF Pure, Alike
  <2>10. Ours(settings, r)
    BY <2>4, <2>6, <2>7, <2>8, <2>9 DEF Ours
  <2>11. claude.there /\ claude.mode = "tmux" /\ claude.rest = ghost.c.rest
         /\ (ghost.c.mode = "tmux" => claude = ghost.c)
    <3>1. claude = InMode(ghost.c, "tmux")
      BY <2>1, Zenon DEF InMode
    <3>2. ghost.c.mode = "tmux" => ghost.c.there
      BY <2>3 DEF ClaudeOk, Setup!NoClaude
    <3> QED
      BY <2>3, <3>1, <3>2, ModeSet DEF Modes
  <2>12. ModeOurs(r)
    BY <1>2, <1>4, <2>1, <2>11 DEF ModeOurs
  <2> QED
    BY <1>1, <1>3, <1>4, <2>10, <2>12 DEF Unspoilt, Ours, Alike, ModeOurs
<1> QED
  BY <1>5, <1>6, <1>7, <1>8 DEF SetupInv

LEMMA SetupUndo ==
  ASSUME SetupInv, Setup!Undo
  PROVE  SetupInv'
<1>1. /\ doing = "i_undo" /\ doing' = "idle" /\ settings' = memory.old /\ memory' = Setup!Nothing
      /\ last' = "refused" /\ UNCHANGED <<claude, receipt, dataDir, touches, ghost, excuses>>
  BY DEF Setup!Undo, Setup!Done
<1>2. SetupShape'
  BY <1>1, NothingIs DEF SetupInv, SetupShape
<1>3. Reported' /\ Begun'
  BY <1>1 DEF Reported, Begun
<1>4. Guarded'
  BY <1>1, NothingIs DEF SetupInv, Guarded, HasTheirs, Setup!HoldsSettings, Setup!HoldsClaude, Setup!NoReceipt
<1>5. Unspoilt'
  BY <1>1 DEF SetupInv, Unspoilt, NoneLeft, Pure, Alike, Setup!NoReceipt
<1> QED
  BY <1>2, <1>3, <1>4, <1>5 DEF SetupInv

-----------------------------------------------------------------------------
(* Installer: the steps of an uninstall.                                    *)

LEMMA SetupUninstall ==
  ASSUME SetupInv, Setup!Uninstall
  PROVE  SetupInv'
<1>1. /\ doing = "idle" /\ doing' = "u_read"
      /\ UNCHANGED <<settings, claude, receipt, dataDir, memory, touches, ghost, excuses>>
  BY DEF Setup!Uninstall
<1>2. SetupShape'
  BY <1>1 DEF SetupInv, SetupShape
<1>3. Reported' /\ Begun'
  BY <1>1 DEF SetupInv, Reported, Begun
<1>4. Guarded'
  BY <1>1 DEF SetupInv, Guarded, HasTheirs, Setup!HoldsSettings, Setup!HoldsClaude
<1>5. Unspoilt'
  BY <1>1 DEF SetupInv, Unspoilt, NoneLeft, Pure, Alike, Ours, ModeOurs
<1> QED
  BY <1>2, <1>3, <1>4, <1>5 DEF SetupInv

LEMMA SetupPeek ==
  ASSUME SetupInv, Setup!Peek
  PROVE  SetupInv'
<1>1. settings \in SettingsOk /\ Setup!NoReceipt \in Receipts /\ Setup!NoReceipt.added = {}
  BY DEF SetupInv, SetupShape, Receipts, Setup!NoReceipt, Modes
<1>2. PICK rec \in Receipts : rec = IF receipt.bad THEN Setup!NoReceipt ELSE receipt
  BY <1>1 DEF SetupInv, SetupShape
<1>3. /\ memory' = [memory EXCEPT !.old = settings, !.rec = rec] /\ doing = "u_read" /\ doing' = "u_receipt"
      /\ UNCHANGED <<settings, claude, receipt, dataDir, touches, ghost, excuses>>
  BY <1>2 DEF Setup!Peek
<1>4. memory'.old = settings /\ memory'.rec = rec
  BY <1>3 DEF SetupInv, SetupShape
<1>5. SetupShape'
  BY <1>1, <1>3 DEF SetupInv, SetupShape
<1>6. Reported' /\ Begun'
  BY <1>3 DEF SetupInv, Reported, Begun
<1>7. Guarded'
  BY <1>1, <1>2, <1>3, <1>4 DEF SetupInv, Guarded, HasTheirs, Setup!HoldsSettings, Setup!HoldsClaude
<1>8. Unspoilt'
  BY <1>2, <1>3, <1>4 DEF SetupInv, Unspoilt, NoneLeft, Pure, Alike, Ours, ModeOurs
<1> QED
  BY <1>5, <1>6, <1>7, <1>8 DEF SetupInv

LEMMA SetupReadReceipt ==
  ASSUME SetupInv, Setup!ReadReceipt
  PROVE  SetupInv'
<1>1. doing = "u_receipt" /\ UNCHANGED <<settings, claude, receipt, dataDir, touches, ghost, excuses>>
  BY DEF Setup!ReadReceipt
<1>2. CASE receipt.bad
  <2>1. doing' = "idle" /\ memory' = Setup!Nothing /\ last' = "failed"
    BY <1>2 DEF Setup!ReadReceipt, Setup!Done
  <2>2. excuses # {}
    BY <1>2 DEF SetupInv, Unspoilt
  <2> QED
    BY <1>1, <2>1, <2>2, Ending
<1>3. CASE ~receipt.bad
  <2>1. /\ doing' = IF ~receipt.there THEN "u_settings" ELSE IF receipt.set THEN "u_mode" ELSE "u_delete"
        /\ UNCHANGED memory
    BY <1>3 DEF Setup!ReadReceipt
  <2>2. SetupShape'
    BY <1>1, <2>1 DEF SetupInv, SetupShape
  <2>3. Reported' /\ Begun'
    BY <1>1, <2>1 DEF SetupInv, Reported, Begun
  <2>4. Guarded'
    BY <1>1, <2>1 DEF SetupInv, Guarded, HasTheirs, Setup!HoldsSettings, Setup!HoldsClaude
  <2>5. Unspoilt'
    BY <1>1, <1>3, <2>1 DEF SetupInv, Unspoilt, NoneLeft, Pure, Alike, Ours, ModeOurs
  <2> QED
    BY <2>2, <2>3, <2>4, <2>5 DEF SetupInv
<1> QED
  BY <1>2, <1>3

LEMMA SetupRevertMode ==
  ASSUME SetupInv, Setup!RevertMode
  PROVE  SetupInv'
<1>1. /\ doing = "u_mode" /\ memory' = [memory EXCEPT !.cl = claude]
      /\ doing' = IF claude.mode = receipt.orig THEN "u_delete" ELSE "u_claude"
      /\ UNCHANGED <<settings, claude, receipt, dataDir, touches, ghost, excuses>>
  BY DEF Setup!RevertMode
<1>2. memory'.old = memory.old /\ memory'.rec = memory.rec /\ memory'.cl = claude
  BY <1>1 DEF SetupInv, SetupShape
<1>3. SetupShape'
  BY <1>1 DEF SetupInv, SetupShape
<1>4. Reported' /\ Begun'
  BY <1>1 DEF SetupInv, Reported, Begun
<1>5. Guarded'
  BY <1>1, <1>2 DEF SetupInv, Guarded, HasTheirs, Setup!HoldsSettings, Setup!HoldsClaude
<1>6. Unspoilt'
  BY <1>1, <1>2 DEF SetupInv, Unspoilt, NoneLeft, Pure, Alike, Ours, ModeOurs
<1> QED
  BY <1>3, <1>4, <1>5, <1>6 DEF SetupInv

LEMMA SetupWriteBack ==
  ASSUME SetupInv, Setup!WriteBack
  PROVE  SetupInv'
<1>1. /\ doing = "u_claude" /\ doing' = "u_delete"
      /\ claude' = IF receipt.madeClaude /\ receipt.orig = "none" /\ memory.cl.rest = 0 THEN Setup!NoClaude
                   ELSE InMode(memory.cl, receipt.orig)
      /\ UNCHANGED <<settings, receipt, dataDir, memory, touches, ghost, excuses>>
  BY Zenon DEF Setup!WriteBack, InMode
<1>2. /\ memory.cl \in ClaudeOk /\ receipt \in Receipts /\ receipt.orig \in Modes /\ ghost.c \in ClaudeOk
      /\ Setup!NoClaude \in ClaudeOk /\ Setup!NoClaude.rest = 0
  BY DEF SetupInv, SetupShape, Receipts, ClaudeOk, Setup!NoClaude, Modes
<1>3. claude' \in ClaudeOk /\ claude'.rest = memory.cl.rest
  BY <1>1, <1>2, ModeSet
<1>4. SetupShape'
  BY <1>1, <1>3 DEF SetupInv, SetupShape
<1>5. Reported' /\ Begun'
  BY <1>1 DEF SetupInv, Reported, Begun
<1>6. Guarded'
  BY <1>1, <1>3 DEF SetupInv, Guarded, HasTheirs, Setup!HoldsSettings, Setup!HoldsClaude
<1>7. Unspoilt'
  <2> SUFFICES ASSUME excuses = {} PROVE Unspoilt'
    BY <1>1 DEF Unspoilt
  <2>1. /\ receipt.there /\ receipt.set /\ Ours(settings, receipt) /\ ModeOurs(receipt)
        /\ memory.cl = claude /\ settings = memory.old /\ memory.rec = receipt /\ ~receipt.bad
    BY <1>1 DEF SetupInv, Unspoilt
  <2>2. /\ memory.cl.rest = ghost.c.rest /\ ghost.c.mode = receipt.orig
        /\ IF receipt.madeClaude THEN ghost.c.there => ghost.c.rest > 0 ELSE ghost.c.there
    BY <2>1 DEF ModeOurs
  <2>3. claude' = ghost.c
    <3>1. CASE receipt.madeClaude /\ receipt.orig = "none" /\ memory.cl.rest = 0
      <4>1. ~ghost.c.there
        BY <2>2, <3>1
      <4> QED
        BY <1>1, <1>2, <3>1, <4>1 DEF ClaudeOk
    <3>2. CASE ~(receipt.madeClaude /\ receipt.orig = "none" /\ memory.cl.rest = 0)
      <4>1. ghost.c.there
        BY <1>2, <2>2, <3>2 DEF ClaudeOk, Setup!NoClaude
      <4> QED
        BY <1>1, <1>2, <2>2, <3>2, <4>1, ModeSet
    <3> QED
      BY <3>1, <3>2
  <2>4. Ours(settings, receipt)'
    BY <1>1, <2>1 DEF Ours, Alike
  <2> QED
    BY <1>1, <2>1, <2>3, <2>4 DEF Unspoilt
<1> QED
  BY <1>4, <1>5, <1>6, <1>7 DEF SetupInv

LEMMA SetupDeleteReceipt ==
  ASSUME SetupInv, Setup!DeleteReceipt
  PROVE  SetupInv'
<1>1. /\ doing = "u_delete" /\ doing' = "u_settings" /\ receipt' = Setup!NoReceipt
      /\ dataDir' = (dataDir /\ ~receipt.set)
      /\ UNCHANGED <<settings, claude, memory, touches, ghost, excuses>>
  BY DEF Setup!DeleteReceipt
<1>2. Setup!NoReceipt \in Receipts /\ Setup!NoReceipt.added = {} /\ ~Setup!NoReceipt.bad
  BY DEF Receipts, Setup!NoReceipt, Modes
<1>3. SetupShape'
  <2>1. dataDir' \in BOOLEAN
    BY <1>1
  <2> QED
    BY <1>1, <1>2, <2>1 DEF SetupInv, SetupShape
<1>4. Reported' /\ Begun'
  BY <1>1 DEF SetupInv, Reported, Begun
<1>5. Guarded'
  BY <1>1, <1>2 DEF SetupInv, Guarded, HasTheirs, Setup!HoldsSettings, Setup!HoldsClaude
<1>6. Unspoilt'
  <2> SUFFICES ASSUME excuses = {} PROVE Unspoilt'
    BY <1>1 DEF Unspoilt
  <2>1. /\ receipt.there /\ Ours(settings, receipt) /\ claude = ghost.c /\ settings = memory.old
        /\ memory.rec = receipt /\ (~receipt.set => ghost.c.mode = "tmux")
    BY <1>1 DEF SetupInv, Unspoilt
  <2>2. NoneLeft'
    BY <1>1, <2>1 DEF NoneLeft
  <2>3. memory'.rec.there /\ Ours(settings, memory.rec)'
    BY <1>1, <2>1 DEF Ours, Alike
  <2> QED
    BY <1>1, <1>2, <2>1, <2>2, <2>3 DEF Unspoilt
<1> QED
  BY <1>3, <1>4, <1>5, <1>6 DEF SetupInv

\* Taken out of settings that hold what others wrote, we leave that there.
LEMMA StripKeeps ==
  ASSUME NEW s \in SettingsOk, NEW r \in Receipts, HasTheirs(s), r.added \cap ghost.s.allow = {}
  PROVE  HasTheirs(Setup!WithoutUs(s, r))
<1>1. Left(s, r).allow = s.allow \ r.added /\ Left(s, r).rest = s.rest
      /\ Left(s, r).env["keep"] = s.env["keep"]
  BY LeftIs, StrippedIs
<1>2. HasTheirs(Left(s, r))
  BY <1>1 DEF HasTheirs
<1>3. ASSUME ~Left(s, r).block, Left(s, r).perm = "none", s.rest = 0
      PROVE  HasTheirs(Setup!NoSettings)
  <2>1. s.env["keep"] = "none"
    BY <1>3, LeftIs, StrippedIs DEF Setup!EnvKeys
  <2>2. Left(s, r).allow = {}
    BY <1>1, <1>3, LeftIs DEF SettingsOk, Setup!NoSettings
  <2> QED
    BY <1>1, <1>2, <1>3, <2>1, <2>2 DEF HasTheirs, Setup!NoSettings, Setup!EnvKeys
<1> QED
  BY <1>2, <1>3, WithoutUsIs

\* Settings in which we are, as the receipt says, become those without us.
LEMMA StripOurs ==
  ASSUME SetupShape, NEW s \in SettingsOk, NEW r \in Receipts, Ours(s, r)
  PROVE  Pure(Setup!WithoutUs(s, r)) /\ Setup!WithoutUs(s, r).env["legacy"] = "none"
<1>1. /\ ghost.s \in SettingsOk /\ ghost.s.env["command"] \in {"none", "user"}
      /\ ghost.s.env["legacy"] \in {"none", "moved"}
  BY DEF SetupShape
<1>2. /\ s.env["command"] = "ours" /\ s.allow = ghost.s.allow \cup r.added /\ s.rest = ghost.s.rest
      /\ r.added \cap ghost.s.allow = {} /\ s.env["keep"] = ghost.s.env["keep"]
      /\ s.env["legacy"] \in {"none", ghost.s.env["legacy"]}
      /\ s.there = ghost.s.there \/ s.there
  BY DEF Ours, Alike
<1>3. /\ Setup!Stripped(s)["command"] = "none" /\ Setup!Stripped(s)["legacy"] = "none"
      /\ Setup!Stripped(s)["keep"] = ghost.s.env["keep"]
  BY <1>1, <1>2, StrippedIs DEF Setup!Managed
<1>4. Left(s, r).allow = ghost.s.allow
  <2>1. Left(s, r).allow = s.allow \ r.added
    BY LeftIs
  <2> QED
    BY <1>2, <2>1
<1>5. Left(s, r).perm = ghost.s.perm
  <2>1. CASE r.madeAllow
    <3>1. /\ s.perm = "list" /\ ghost.s.perm = (IF r.madePerm THEN "none" ELSE "bare") /\ r.added # {}
      BY <2>1 DEF Ours
    <3>2. ghost.s.allow = {}
      BY <1>1, <3>1 DEF SettingsOk
    <3>3. s.allow \cap r.added # {} /\ s.allow = s.allow \cap r.added
      BY <1>2, <3>1, <3>2
    <3> QED
      BY <2>1, <3>1, <3>3, LeftIs
  <2>2. CASE ~r.madeAllow
    BY <2>2, LeftIs DEF Ours
  <2> QED
    BY <2>1, <2>2
<1>6. Left(s, r).block <=> ghost.s.env["keep"] # "none"
  BY <1>3, LeftIs DEF Setup!EnvKeys
<1>7. ~ghost.s.there => /\ ghost.s.rest = 0 /\ ghost.s.env["keep"] = "none" /\ ghost.s.perm = "none"
                        /\ ghost.s.allow = {}
  BY <1>1 DEF SettingsOk, Setup!NoSettings, Setup!EnvKeys
<1>8. IF r.madeSettings THEN ghost.s.there => ghost.s.rest > 0 ELSE ghost.s.there
  BY DEF Ours
<1>9. CASE Setup!WithoutUs(s, r) = s /\ Setup!Stripped(s) = s.env
  BY <1>2, <1>3, <1>9
<1>10. CASE Setup!WithoutUs(s, r) = Setup!NoSettings /\ r.madeSettings /\ s.rest = 0
  <2>1. ~ghost.s.there
    BY <1>2, <1>8, <1>10
  <2>2. /\ ~Setup!NoSettings.there /\ Setup!NoSettings.rest = 0 /\ Setup!NoSettings.perm = "none"
        /\ Setup!NoSettings.allow = {} /\ Setup!NoSettings.env["keep"] = "none"
        /\ Setup!NoSettings.env["legacy"] = "none" /\ Setup!NoSettings.env["command"] = "none"
    BY DEF Setup!NoSettings, Setup!EnvKeys
  <2>3. Setup!NoSettings.there = ghost.s.there
    BY <1>1, <2>1, <2>2 DEF SettingsOk
  <2> QED
    BY <1>7, <1>10, <2>1, <2>2, <2>3 DEF Pure, Alike
<1>11. CASE /\ Setup!WithoutUs(s, r) = Left(s, r)
            /\ ~(r.madeSettings /\ ~Left(s, r).block /\ Left(s, r).perm = "none" /\ s.rest = 0)
  <2>1. ghost.s.there
    BY <1>2, <1>5, <1>6, <1>7, <1>8, <1>11
  <2>2. /\ Left(s, r).there = s.there /\ Left(s, r).rest = ghost.s.rest
        /\ Left(s, r).env["keep"] = ghost.s.env["keep"] /\ Left(s, r).env["legacy"] = "none"
        /\ Left(s, r).env["command"] = "none"
    BY <1>2, <1>3, LeftIs
  <2>3. Left(s, r).there = ghost.s.there
    BY <1>1, <1>2, <2>1, <2>2 DEF SettingsOk
  <2> QED
    BY <1>4, <1>5, <1>11, <2>2, <2>3 DEF Pure, Alike
<1> QED
  BY <1>9, <1>10, <1>11, WithoutUsIs

\* Settings without us stay without us.
LEMMA StripPure ==
  ASSUME SetupShape, NEW s \in SettingsOk, Pure(s)
  PROVE  /\ Pure(Setup!WithoutUs(s, Setup!NoReceipt))
         /\ Setup!WithoutUs(s, Setup!NoReceipt).env["legacy"] = "none"
<1>1. /\ ghost.s \in SettingsOk /\ ghost.s.env["command"] \in {"none", "user"}
      /\ ghost.s.env["legacy"] \in {"none", "moved"}
  BY DEF SetupShape
<1>2. PICK r \in Receipts : r = Setup!NoReceipt /\ r.added = {} /\ ~r.madeSettings /\ ~r.madeAllow
  <2>1. /\ Setup!NoReceipt \in Receipts /\ Setup!NoReceipt.added = {} /\ ~Setup!NoReceipt.madeSettings
        /\ ~Setup!NoReceipt.madeAllow
    BY DEF Receipts, Setup!NoReceipt, Modes
  <2> QED
    BY <2>1
<1>3. /\ s.env["command"] \in {"none", ghost.s.env["command"]} /\ s.there = ghost.s.there
      /\ s.env["legacy"] \in {"none", ghost.s.env["legacy"]}
      /\ s.env["keep"] = ghost.s.env["keep"] /\ s.rest = ghost.s.rest /\ s.perm = ghost.s.perm
      /\ s.allow = ghost.s.allow
  BY <1>1 DEF Pure, Alike
<1>4. /\ Setup!Stripped(s)["command"] \in {"none", ghost.s.env["command"]}
      /\ Setup!Stripped(s)["legacy"] = "none" /\ Setup!Stripped(s)["keep"] = ghost.s.env["keep"]
  BY <1>1, <1>3, StrippedIs DEF Setup!Managed
<1>5. CASE Setup!WithoutUs(s, r) = s /\ Setup!Stripped(s) = s.env
  BY <1>2, <1>4, <1>5
<1>6. CASE Setup!WithoutUs(s, r) = Left(s, r)
  <2>1. /\ Left(s, r).there = s.there /\ Left(s, r).rest = s.rest /\ Left(s, r).env = Setup!Stripped(s)
        /\ Left(s, r).allow = s.allow /\ Left(s, r).perm = s.perm
    <3>1. /\ Left(s, r).allow = s.allow \ r.added
          /\ Left(s, r).perm = IF s.allow \cap r.added # {} /\ s.allow = s.allow \cap r.added /\ r.madeAllow
                               THEN IF r.madePerm THEN "none" ELSE "bare" ELSE s.perm
      BY LeftIs
    <3>2. Left(s, r).perm = s.perm
      BY <1>2, <3>1
    <3>3. Left(s, r).allow = s.allow
      BY <1>2, <3>1
    <3> QED
      BY <3>2, <3>3, LeftIs
  <2> QED
    BY <1>2, <1>3, <1>4, <1>6, <2>1 DEF Pure, Alike
<1> QED
  BY <1>2, <1>5, <1>6, WithoutUsIs

LEMMA SetupStripSettings ==
  ASSUME SetupInv, Setup!StripSettings
  PROVE  SetupInv'
<1>1. memory.old \in SettingsOk /\ memory.rec \in Receipts /\ SetupShape
  BY DEF SetupInv, SetupShape
<1>2. PICK s \in SettingsOk : s = Setup!WithoutUs(memory.old, memory.rec)
  BY <1>1, WithoutUsIs
<1>3. /\ doing = "u_settings" /\ doing' = "idle" /\ memory' = Setup!Nothing
      /\ settings' = IF s = memory.old THEN settings ELSE s
      /\ UNCHANGED <<claude, receipt, dataDir, touches, ghost, excuses>>
  BY <1>2 DEF Setup!StripSettings, Setup!Done
<1>4. SetupShape'
  BY <1>3, NothingIs DEF SetupInv, SetupShape
<1>5. Reported' /\ Begun'
  BY <1>3 DEF Reported, Begun
<1>6. Guarded'
  <2> SUFFICES ASSUME "stale" \notin excuses PROVE Guarded'
    BY <1>3 DEF Guarded
  <2>1. /\ HasTheirs(settings) /\ HasTheirs(memory.old) /\ memory.rec.added \cap ghost.s.allow = {}
        /\ claude.rest = ghost.c.rest /\ receipt.added \cap ghost.s.allow = {}
    BY <1>3 DEF SetupInv, Guarded, Setup!HoldsSettings
  <2>2. HasTheirs(s)
    BY <1>1, <1>2, <2>1, StripKeeps
  <2>3. HasTheirs(settings)'
    BY <1>3, <2>1, <2>2 DEF HasTheirs
  <2> QED
    BY <1>3, <2>1, <2>3, NothingIs DEF Guarded, Setup!HoldsSettings, Setup!HoldsClaude, Setup!NoReceipt
<1>7. Unspoilt'
  <2> SUFFICES ASSUME excuses = {} PROVE Unspoilt'
    BY <1>3 DEF Unspoilt
  <2>1. /\ settings = memory.old /\ NoneLeft /\ ~receipt.bad
        /\ IF memory.rec.there THEN Ours(memory.old, memory.rec) ELSE Pure(memory.old)
    BY <1>3 DEF SetupInv, Unspoilt
  <2>2. Pure(s) /\ s.env["legacy"] = "none"
    BY <1>1, <1>2, <2>1, StripOurs, StripPure DEF Receipts
  <2>3. settings' = s
    BY <1>3, <2>1
  <2>4. NoneLeft' /\ Pure(settings)' /\ ~receipt.there
    BY <1>3, <2>1, <2>2, <2>3 DEF NoneLeft, Pure, Alike, Setup!NoReceipt
  <2> QED
    BY <1>3, <2>1, <2>2, <2>3, <2>4 DEF Unspoilt
<1> QED
  BY <1>4, <1>5, <1>6, <1>7 DEF SetupInv

-----------------------------------------------------------------------------
(* Installer: what goes wrong, and what others do.                          *)

LEMMA SetupFail ==
  ASSUME SetupInv, Setup!Fail
  PROVE  SetupInv'
<1>1. /\ doing \notin {"idle", "i_tmux", "i_list", "i_offer", "i_check", "i_prompt", "i_plugin"}
      /\ UNCHANGED <<settings, claude, receipt, dataDir, touches, ghost>> /\ excuses \subseteq excuses'
  BY DEF Setup!Fail
<1>2. /\ doing = "i_undo" => "undo" \in excuses'
      /\ doing = "i_receipt" => "unreceipted" \in excuses'
      /\ doing \in {"u_read", "u_receipt", "u_mode", "u_claude", "u_delete", "u_settings"} =>
           "halfway" \in excuses'
  BY Zenon DEF Setup!Fail
<1>3. CASE doing \in {"i_mode", "i_claude", "i_receipt"}
  <2>1. doing' = "i_undo" /\ UNCHANGED memory
    BY <1>3 DEF Setup!Fail
  <2>2. SetupShape'
    BY <1>1, <2>1 DEF SetupInv, SetupShape
  <2>3. Reported' /\ Begun'
    BY <1>1, <1>2, <1>3, <2>1 DEF SetupInv, Reported, Begun
  <2>4. Guarded'
    BY <1>1, <1>3, <2>1 DEF SetupInv, Guarded, HasTheirs, Setup!HoldsSettings, Setup!HoldsClaude
  <2>5. Unspoilt'
    BY <1>1, <1>2, <1>3, <2>1 DEF SetupInv, Unspoilt, NoneLeft, Pure, Alike
  <2> QED
    BY <2>2, <2>3, <2>4, <2>5 DEF SetupInv
<1>4. CASE doing \notin {"i_mode", "i_claude", "i_receipt"}
  <2>1. doing' = "idle" /\ memory' = Setup!Nothing /\ last' \in {"refused", "failed"}
    BY <1>4 DEF Setup!Fail, Setup!Done
  <2>2. excuses' = {} => doing \in {"i_read", "i_write"}
    BY <1>1, <1>2, <1>4 DEF SetupInv, SetupShape
  <2> QED
    BY <1>1, <2>1, <2>2, Ending
<1> QED
  BY <1>3, <1>4

LEMMA SetupKill ==
  ASSUME SetupInv, Setup!Kill
  PROVE  SetupInv'
<1>1. /\ doing' = "idle" /\ memory' = Setup!Nothing /\ last' = "killed" /\ "killed" \in excuses'
      /\ UNCHANGED <<settings, claude, receipt, dataDir, touches, ghost>> /\ excuses \subseteq excuses'
  BY DEF Setup!Kill, Setup!Done
<1> QED
  BY <1>1, Ending

\* Where a file may still be written from a copy, an edit of it is excused.
LEMMA EditedIs ==
  ASSUME SetupInv, NEW holds, NEW also, Setup!Edited(holds, also)
  PROVE  /\ UNCHANGED <<receipt, dataDir, doing, memory, last>> /\ touches' = touches + 1
         /\ touches' \in Nat /\ touches' # 0 /\ excuses \subseteq excuses' /\ also \subseteq excuses'
         /\ holds => "stale" \in excuses'
BY DEF Setup!Edited, SetupInv, SetupShape

LEMMA SettlesSettings ==
  ASSUME NEW s \in SettingsOk
  PROVE  /\ Setup!Settles(s) \in SettingsOk /\ Setup!Settles(s).there /\ Setup!Settles(s).rest = s.rest + 1
         /\ Setup!Settles(s).env = s.env /\ Setup!Settles(s).perm = s.perm
         /\ Setup!Settles(s).allow = s.allow
<1> DEFINE t == Setup!Settles(s)
<1>1. PICK there \in BOOLEAN : there = TRUE
  OBVIOUS
<1>2. PICK rest \in Nat : rest = s.rest + 1
  BY DEF SettingsOk
<1>3. t = [s EXCEPT !.there = there, !.rest = rest]
  BY <1>1, <1>2, Zenon DEF Setup!Settles
<1> HIDE DEF t
<1>4. /\ t \in [there : BOOLEAN, env : [Setup!EnvKeys -> {"none", "ours", "moved", "user"}], block : BOOLEAN,
               perm : {"none", "bare", "list"}, allow : SUBSET Entries, rest : Nat]
      /\ t.there /\ t.rest = rest /\ t.env = s.env /\ t.perm = s.perm /\ t.allow = s.allow
  BY <1>1, <1>3 DEF SettingsOk
<1>5. t \in SettingsOk
  BY <1>4 DEF SettingsOk
<1> QED
  BY <1>2, <1>4, <1>5 DEF t

LEMMA SettlesClaude ==
  ASSUME NEW c \in ClaudeOk
  PROVE  /\ Setup!Settles(c) \in ClaudeOk /\ Setup!Settles(c).there /\ Setup!Settles(c).rest = c.rest + 1
         /\ Setup!Settles(c).mode = c.mode
<1> DEFINE t == Setup!Settles(c)
<1>1. PICK there \in BOOLEAN : there = TRUE
  OBVIOUS
<1>2. PICK rest \in Nat : rest = c.rest + 1
  BY DEF ClaudeOk
<1>3. t = [c EXCEPT !.there = there, !.rest = rest]
  BY <1>1, <1>2, Zenon DEF Setup!Settles
<1> HIDE DEF t
<1>4. t \in [there : BOOLEAN, mode : Modes, rest : Nat] /\ t.there /\ t.rest = rest /\ t.mode = c.mode
  BY <1>1, <1>3 DEF ClaudeOk
<1>5. t \in ClaudeOk
  BY <1>4 DEF ClaudeOk
<1> QED
  BY <1>2, <1>4, <1>5 DEF t

LEMMA SetupEditSettings ==
  ASSUME SetupInv, Setup!EditSettings
  PROVE  SetupInv'
<1>1. /\ UNCHANGED <<receipt, dataDir, doing, memory, last, claude>> /\ touches' \in Nat /\ touches' # 0
      /\ excuses \subseteq excuses' /\ (Setup!HoldsSettings => "stale" \in excuses')
      /\ settings' = Setup!Settles(settings) /\ ghost' = [ghost EXCEPT !.s = Setup!Settles(ghost.s)]
  BY EditedIs DEF Setup!EditSettings
<1>2. settings \in SettingsOk /\ ghost.s \in SettingsOk
  BY DEF SetupInv, SetupShape
<1>3. ghost'.s = Setup!Settles(ghost.s) /\ ghost'.c = ghost.c /\ ghost' \in [s : SettingsOk, c : ClaudeOk]
  BY <1>1, <1>2, SettlesSettings DEF SetupInv, SetupShape
<1>4. /\ settings' \in SettingsOk /\ settings'.there /\ settings'.rest = settings.rest + 1
      /\ settings'.env = settings.env /\ settings'.perm = settings.perm /\ settings'.allow = settings.allow
      /\ ghost'.s.there /\ ghost'.s.rest = ghost.s.rest + 1
      /\ ghost'.s.env = ghost.s.env /\ ghost'.s.perm = ghost.s.perm /\ ghost'.s.allow = ghost.s.allow
  BY <1>1, <1>2, <1>3, SettlesSettings
<1>5. SetupShape'
  BY <1>1, <1>3, <1>4 DEF SetupInv, SetupShape
<1>6. Reported' /\ Begun'
  BY <1>1 DEF SetupInv, Reported, Begun
<1>7. Guarded'
  BY <1>1, <1>3, <1>4 DEF SetupInv, Guarded, HasTheirs, Setup!HoldsSettings, Setup!HoldsClaude
<1>8. Unspoilt'
  <2> SUFFICES ASSUME excuses' = {} PROVE Unspoilt'
    BY DEF Unspoilt
  <2>1. excuses = {} /\ ~Setup!HoldsSettings
    BY <1>1
  <2>2. Pure(settings) => Pure(settings)'
    BY <1>4 DEF Pure, Alike
  <2>3. Ours(settings, receipt) => Ours(settings, receipt)'
    <3>1. ghost'.s.rest > 0
      BY <1>2, <1>4 DEF SettingsOk
    <3>2. Alike(settings) => Alike(settings)'
      BY <1>4 DEF Alike
    <3> QED
      BY <1>1, <1>4, <3>1, <3>2 DEF Ours
  <2>4. ModeOurs(receipt) => ModeOurs(receipt)'
    BY <1>1, <1>3 DEF ModeOurs
  <2>5. NoneLeft => NoneLeft'
    BY <1>1, <1>3 DEF NoneLeft
  <2> QED
    BY <1>1, <1>4, <2>1, <2>2, <2>3, <2>4, <2>5 DEF SetupInv, SetupShape, Unspoilt, Setup!HoldsSettings
<1> QED
  BY <1>5, <1>6, <1>7, <1>8 DEF SetupInv

LEMMA SetupDrift ==
  ASSUME SetupInv, Setup!Drift
  PROVE  SetupInv'
<1>1. /\ UNCHANGED <<receipt, dataDir, doing, memory, last, claude, ghost>> /\ touches' \in Nat
      /\ touches' # 0 /\ excuses \subseteq excuses' /\ "drift" \in excuses'
      /\ Setup!HoldsSettings => "stale" \in excuses'
      /\ settings.env["command"] = "ours"
  BY EditedIs DEF Setup!Drift
<1>2. settings \in SettingsOk /\ settings.there
  BY <1>1 DEF SetupInv, SetupShape, SettingsOk, Setup!NoSettings, Setup!EnvKeys
<1>3. PICK env \in [Setup!EnvKeys -> {"none", "ours", "moved", "user"}] :
        env = [settings.env EXCEPT !["command"] = "none"] /\ env["keep"] = settings.env["keep"]
  <2>1. [settings.env EXCEPT !["command"] = "none"] \in [Setup!EnvKeys -> {"none", "ours", "moved", "user"}]
    BY <1>2 DEF SettingsOk
  <2>2. [settings.env EXCEPT !["command"] = "none"]["keep"] = settings.env["keep"]
    BY <1>2 DEF SettingsOk, Setup!EnvKeys
  <2> QED
    BY <2>1, <2>2
<1>4. settings' = [settings EXCEPT !.env = env]
  BY <1>2, <1>3 DEF Setup!Drift, SettingsOk
<1>5. /\ settings' \in SettingsOk /\ settings'.rest = settings.rest /\ settings'.allow = settings.allow
      /\ settings'.env = env
  BY <1>2, <1>4 DEF SettingsOk
<1>6. SetupShape'
  BY <1>1, <1>5 DEF SetupInv, SetupShape
<1>7. Reported' /\ Begun'
  BY <1>1 DEF SetupInv, Reported, Begun
<1>8. Guarded'
  BY <1>1, <1>3, <1>5 DEF SetupInv, Guarded, HasTheirs, Setup!HoldsSettings, Setup!HoldsClaude
<1>9. Unspoilt'
  BY <1>1 DEF Unspoilt
<1> QED
  BY <1>6, <1>7, <1>8, <1>9 DEF SetupInv

LEMMA SetupEditClaude ==
  ASSUME SetupInv, Setup!EditClaude
  PROVE  SetupInv'
<1>1. /\ UNCHANGED <<receipt, dataDir, doing, memory, last, settings>> /\ touches' \in Nat /\ touches' # 0
      /\ excuses \subseteq excuses' /\ (Setup!HoldsClaude => "stale" \in excuses')
      /\ claude' = Setup!Settles(claude) /\ ghost' = [ghost EXCEPT !.c = Setup!Settles(ghost.c)]
  BY EditedIs DEF Setup!EditClaude
<1>2. claude \in ClaudeOk /\ ghost.c \in ClaudeOk
  BY DEF SetupInv, SetupShape
<1>3. ghost'.c = Setup!Settles(ghost.c) /\ ghost'.s = ghost.s /\ ghost' \in [s : SettingsOk, c : ClaudeOk]
  BY <1>1, <1>2, SettlesClaude DEF SetupInv, SetupShape
<1>4. /\ claude' \in ClaudeOk /\ claude'.there /\ claude'.rest = claude.rest + 1 /\ claude'.mode = claude.mode
      /\ ghost'.c.there /\ ghost'.c.rest = ghost.c.rest + 1 /\ ghost'.c.mode = ghost.c.mode
  BY <1>1, <1>2, <1>3, SettlesClaude
<1>5. SetupShape'
  BY <1>1, <1>3, <1>4 DEF SetupInv, SetupShape
<1>6. Reported' /\ Begun'
  BY <1>1 DEF SetupInv, Reported, Begun
<1>7. Guarded'
  BY <1>1, <1>3, <1>4 DEF SetupInv, Guarded, HasTheirs, Setup!HoldsSettings, Setup!HoldsClaude
<1>8. Unspoilt'
  <2> SUFFICES ASSUME excuses' = {} PROVE Unspoilt'
    BY DEF Unspoilt
  <2>1. excuses = {} /\ ~Setup!HoldsClaude
    BY <1>1
  <2>2. Pure(settings)' = Pure(settings) /\ Pure(memory.old)' = Pure(memory.old)
    BY <1>1, <1>3 DEF Pure, Alike
  <2>3. Ours(settings, receipt)' = Ours(settings, receipt) /\ Ours(settings, memory.rec)' = Ours(settings, memory.rec)
    BY <1>1, <1>3 DEF Ours, Alike
  <2>4. ModeOurs(receipt) => ModeOurs(receipt)'
    <3>1. ghost'.c.rest > 0
      BY <1>2, <1>4 DEF ClaudeOk
    <3> QED
      BY <1>1, <1>3, <1>4, <3>1 DEF ModeOurs
  <2>5. (claude = ghost.c => claude' = ghost'.c) /\ (NoneLeft => NoneLeft')
    BY <1>1, <1>3, <1>4 DEF NoneLeft
  <2> QED
    BY <1>1, <1>4, <2>1, <2>2, <2>3, <2>4, <2>5 DEF SetupInv, SetupShape, Unspoilt, Setup!HoldsClaude
<1> QED
  BY <1>5, <1>6, <1>7, <1>8 DEF SetupInv

LEMMA SetupChangeMode ==
  ASSUME SetupInv, Setup!ChangeMode
  PROVE  SetupInv'
<1>1. /\ UNCHANGED <<receipt, dataDir, doing, memory, last, settings>> /\ touches' \in Nat /\ touches' # 0
      /\ excuses \subseteq excuses' /\ "mode" \in excuses' /\ (Setup!HoldsClaude => "stale" \in excuses')
      /\ claude' = [claude EXCEPT !.mode = "auto"] /\ claude.there
  BY EditedIs DEF Setup!ChangeMode
<1>2. claude \in ClaudeOk /\ ghost.c \in ClaudeOk
  BY DEF SetupInv, SetupShape
<1>3. claude' \in ClaudeOk /\ claude'.rest = claude.rest
  BY <1>1, <1>2 DEF ClaudeOk, Modes
<1>4. ghost' = [ghost EXCEPT !.c = InMode(ghost.c, "auto")]
  BY Zenon DEF Setup!ChangeMode, InMode, SetupInv, SetupShape
<1>5. /\ ghost' \in [s : SettingsOk, c : ClaudeOk] /\ ghost'.s = ghost.s /\ ghost'.c.rest = ghost.c.rest
  BY <1>2, <1>4, ModeSet DEF SetupInv, SetupShape, Modes
<1>6. SetupShape'
  BY <1>1, <1>3, <1>5 DEF SetupInv, SetupShape
<1>7. Reported' /\ Begun'
  BY <1>1 DEF SetupInv, Reported, Begun
<1>8. Guarded'
  BY <1>1, <1>3, <1>5 DEF SetupInv, Guarded, HasTheirs, Setup!HoldsSettings, Setup!HoldsClaude
<1>9. Unspoilt'
  BY <1>1 DEF Unspoilt
<1> QED
  BY <1>6, <1>7, <1>8, <1>9 DEF SetupInv

LEMMA SetupSpoil ==
  ASSUME SetupInv, Setup!Spoil
  PROVE  SetupInv'
<1>1. /\ UNCHANGED <<settings, claude, dataDir, doing, memory, last, ghost>> /\ touches' = touches + 1
      /\ "stale" \in excuses' /\ receipt.there
  BY DEF Setup!Spoil
<1>2. receipt' \in Receipts
  <2>1. PICK bad \in BOOLEAN : receipt' = [receipt EXCEPT !.bad = bad]
    BY Zenon DEF Setup!Spoil
  <2> QED
    BY <1>1, <2>1 DEF SetupInv, SetupShape, Receipts
<1>3. SetupShape' /\ touches' # 0
  BY <1>1, <1>2 DEF SetupInv, SetupShape
<1>4. Reported' /\ Begun'
  BY <1>1, <1>3 DEF SetupInv, Reported, Begun
<1>5. Guarded' /\ Unspoilt'
  BY <1>1 DEF Guarded, Unspoilt
<1> QED
  BY <1>3, <1>4, <1>5 DEF SetupInv

LEMMA SetupStep == SetupInv /\ [Setup!Next]_Setup!vars => SetupInv'
<1> SUFFICES ASSUME SetupInv, [Setup!Next]_Setup!vars PROVE SetupInv'
  OBVIOUS
<1>1. CASE Setup!Next
  BY <1>1, SetupInstall, SetupOfferTmux, SetupListMissing, SetupOfferProgram, SetupCheck,
     SetupRegisterPlugin, SetupReadSettings, SetupWriteSettings, SetupReadMode, SetupPrompt,
     SetupWriteMode, SetupWriteReceipt, SetupUndo, SetupUninstall, SetupPeek, SetupReadReceipt,
     SetupRevertMode, SetupWriteBack, SetupDeleteReceipt, SetupStripSettings, SetupFail, SetupKill,
     SetupEditSettings, SetupDrift, SetupEditClaude, SetupChangeMode, SetupSpoil DEF Setup!Next
<1>2. CASE UNCHANGED Setup!vars
  <2>1. UNCHANGED <<settings, claude, receipt, dataDir, doing, memory, last, touches, ghost, excuses>>
    BY <1>2 DEF Setup!vars
  <2>2. SetupShape' /\ Reported' /\ Begun'
    BY <2>1 DEF SetupInv, SetupShape, Reported, Begun
  <2>3. Guarded'
    BY <2>1 DEF SetupInv, Guarded, HasTheirs, Setup!HoldsSettings, Setup!HoldsClaude
  <2>4. Unspoilt'
    BY <2>1 DEF SetupInv, Unspoilt, NoneLeft, Pure, Alike, Ours, ModeOurs
  <2> QED
    BY <2>2, <2>3, <2>4 DEF SetupInv
<1> QED
  BY <1>1, <1>2

\* What others put into settings.json and .claude.json is never lost, at
\* whatever step a command fails or is killed, unless it was written between a
\* command's load and its write of that file (_rollback_settings_file,
\* _atomic_write_json).
THEOREM InstallKeepsEdits == SetupSpec => []EditsKept
<1>1. SetupInv => EditsKept
  BY DEF SetupInv, Guarded, HasTheirs, EditsKept, Setup!EditsKept
<1> QED
  BY SetupStarts, SetupStep, <1>1, PTL DEF SetupSpec, Setup!Spec

\* An uninstall that follows one install leaves no trace of it in the three
\* files, unless something the excuses name went wrong
\* (uninstall, uninstall_teammate_mode).
THEOREM UninstallLeavesNoTrace == SetupSpec => []NoTrace
<1>1. SetupInv => NoTrace
  <2> SUFFICES ASSUME SetupInv, last = "uninstalled", doing = "idle", excuses = {}
               PROVE  /\ Setup!Untouched(settings, ghost.s) /\ claude = ghost.c /\ ~receipt.there
                      /\ dataDir => ghost.c.mode = "tmux"
    BY DEF NoTrace, Setup!NoTrace
  <2>1. /\ NoneLeft /\ Pure(settings) /\ ~receipt.there /\ settings.env["legacy"] = "none"
    BY DEF SetupInv, Unspoilt
  <2>2. ghost.s.env["command"] \in {"none", "user"} /\ ghost.s.env["legacy"] \in {"none", "moved"}
    BY DEF SetupInv, SetupShape
  <2> QED
    BY <2>1, <2>2 DEF NoneLeft, Pure, Alike, Setup!Untouched, Setup!Managed
<1> QED
  BY SetupStarts, SetupStep, <1>1, PTL DEF SetupSpec, Setup!Spec

\* An install that gives up leaves the settings as it found them, unless its own
\* rollback fails, and teammateMode too, unless the mode was written and the
\* receipt could not be; and no program it has just reported installed is then
\* missing (install, _rollback_settings_file, _wait_for_binary).
THEOREM InstallIsAllOrNothing == SetupSpec => AllOrNothing
<1> DEFINE Refusal ==
      last' = "refused" /\ doing # "idle" /\ doing' = "idle" =>
       /\ excuses' \cap {"stale", "undo"} = {} /\ touches = 0 =>
            /\ settings' = memory.begin[1]
            /\ "unreceipted" \notin excuses => claude' = memory.begin[2]
       /\ doing = "i_check" /\ memory.mc # Setup!NoMachine => memory.told \subseteq Setup!Found(memory.mc)
<1>1. SetupInv /\ [Setup!Next]_Setup!vars => [Refusal]_Setup!vars
  <2> SUFFICES ASSUME SetupInv, Setup!Next, last' = "refused", doing # "idle", doing' = "idle"
               PROVE  Refusal
    OBVIOUS
  <2>1. Setup!Check \/ Setup!Undo \/ Setup!Fail
    <3>1. ~Setup!RegisterPlugin /\ ~Setup!StripSettings /\ ~Setup!Kill
      BY DEF Setup!RegisterPlugin, Setup!StripSettings, Setup!Kill, Setup!Done
    <3>2. ~Setup!ReadReceipt
      BY DEF Setup!ReadReceipt, Setup!Done
    <3>3. ~Setup!OfferTmux /\ ~Setup!ListMissing /\ ~Setup!OfferProgram /\ ~Setup!WriteSettings
          /\ ~Setup!WriteMode /\ ~Setup!WriteReceipt /\ ~Setup!Uninstall /\ ~Setup!Peek
          /\ ~Setup!RevertMode /\ ~Setup!WriteBack /\ ~Setup!DeleteReceipt
      BY DEF Setup!OfferTmux, Setup!ListMissing, Setup!OfferProgram, Setup!WriteSettings, Setup!WriteMode,
             Setup!WriteReceipt, Setup!Uninstall, Setup!Peek, Setup!RevertMode, Setup!WriteBack,
             Setup!DeleteReceipt
    <3>4. ~Setup!ReadMode
      <4>1. claude.mode \in Modes
        BY DEF SetupInv, SetupShape, ClaudeOk
      <4>2. Setup!ReadMode => /\ claude.mode = "none" => doing' = "i_claude"
                              /\ claude.mode = "tmux" => doing' = "i_receipt"
                              /\ claude.mode = "auto" => doing' = "i_prompt"
        BY Zenon DEF Setup!ReadMode
      <4> QED
        BY <4>1, <4>2 DEF Modes
    <3>5. \A b \in BOOLEAN : ~Setup!Install(b) /\ ~Setup!ReadSettings(b) /\ ~Setup!Prompt(b)
      BY DEF Setup!Install, Setup!ReadSettings, Setup!Prompt
    <3>6. ~Setup!EditSettings /\ ~Setup!Drift /\ ~Setup!EditClaude /\ ~Setup!ChangeMode /\ ~Setup!Spoil
      BY DEF Setup!EditSettings, Setup!Drift, Setup!EditClaude, Setup!ChangeMode, Setup!Spoil, Setup!Edited
    <3> QED
      BY <3>1, <3>2, <3>3, <3>4, <3>5, <3>6 DEF Setup!Next
  <2>2. CASE Setup!Check
    BY <2>2 DEF Setup!Check, SetupInv, Begun, Reported
  <2>3. CASE Setup!Undo
    BY <2>3 DEF Setup!Undo, SetupInv, Begun
  <2>4. CASE Setup!Fail
    <3>1. /\ doing \notin {"idle", "i_tmux", "i_list", "i_offer", "i_check", "i_prompt", "i_plugin"}
          /\ UNCHANGED <<settings, claude>> /\ doing \notin {"i_mode", "i_claude", "i_receipt"}
          /\ doing \in {"i_read", "i_write", "i_undo"}
      BY <2>4 DEF Setup!Fail, Setup!Done
    <3>2. doing = "i_undo" => "undo" \in excuses'
      BY <2>4, Zenon DEF Setup!Fail
    <3> QED
      BY <3>1, <3>2 DEF SetupInv, Begun
  <2> QED
    BY <2>1, <2>2, <2>3, <2>4
<1> QED
  BY SetupStarts, SetupStep, <1>1, PTL DEF SetupSpec, Setup!Spec, AllOrNothing, Setup!AllOrNothing

=============================================================================
