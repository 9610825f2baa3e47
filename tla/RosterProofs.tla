---------------------------- MODULE RosterProofs ----------------------------
(* Theorems about Roster, for any adapters, teammates and bounds.           *)
EXTENDS Roster, TLAPS

-----------------------------------------------------------------------------
(* Types. *)

\* Everybody's place, whatever the step is.
LEMMA SomeName == Nobody \in Names /\ Adapters \subseteq Names /\ Natives \subseteq Names
  BY RosterAssumption DEF Nobody, Names

Ops == {"register", "deregister", "lead", "kill", "cli"}

\* What a step leaves alone keeps its type.
LEMMA Untouched ==
  ASSUME TypeOK
  PROVE  /\ UNCHANGED <<fs, sections>> => FilesOK'
         /\ UNCHANGED people => PeopleOK'
         /\ UNCHANGED session => SessionOK'
         /\ UNCHANGED operator => OperatorOK'
         /\ UNCHANGED down => DownOK'
         /\ UNCHANGED history => HistoryOK'
<1>1. UNCHANGED <<fs, sections>> => FilesOK'
  BY DEF TypeOK, FilesOK, fs
<1>2. UNCHANGED people => PeopleOK'
  BY DEF TypeOK, PeopleOK, people
<1>3. UNCHANGED session => SessionOK'
  BY DEF TypeOK, SessionOK, session
<1>4. UNCHANGED operator => OperatorOK'
  BY DEF TypeOK, OperatorOK, operator
<1>5. UNCHANGED down => DownOK'
  BY DEF TypeOK, DownOK, down
<1>6. UNCHANGED history => HistoryOK'
  BY DEF TypeOK, HistoryOK
<1> QED
  BY <1>1, <1>2, <1>3, <1>4, <1>5, <1>6

\* A process goes somewhere else.
LEMMA Goes ==
  ASSUME TypeOK, NEW n \in Names,
         NEW p \in {"out", "starting", "registering", "joining", "up",
                    "leaving", "deregistering", "left", "dead"},
         Proc(n, p), asked' \subseteq asked, owns' \subseteq owns
  PROVE  PeopleOK'
  BY DEF TypeOK, PeopleOK, Proc

\* A section that begins is the only one at the lock's file.
LEMMA Entered ==
  ASSUME TypeOK, NEW op \in Ops, NEW n \in Names, LockFree, Enter(op, n),
         UNCHANGED <<team, board, gen, rows>>
  PROVE  FilesOK'
<1> DEFINE new == [op |-> op, name |-> n, read |-> rows, gen |-> gen]
<1>1. new \in Section /\ new.gen = gen
  BY DEF TypeOK, FilesOK, Section, Ops
<1>2. dir' = TRUE /\ sections' = sections \union {new}
  BY DEF Enter
<1> HIDE DEF new
<1> QED
  BY <1>1, <1>2 DEF TypeOK, FilesOK, LockFree

LEMMA SectionTypes ==
  ASSUME TypeOK, NEW s \in sections
  PROVE  /\ s.read \in [Names -> Row] /\ s.name \in Names /\ s.op \in Ops /\ s.gen \in Nat
         /\ \A n \in Names, r \in Row : [s.read EXCEPT ![n] = r] \in [Names -> Row]
<1>1. s \in Section
  BY DEF TypeOK, FilesOK
<1> QED
  BY <1>1 DEF Section, Ops

\* One that ends leaves the others, and rows.
LEMMA Ended ==
  ASSUME TypeOK, sections' \subseteq sections, UNCHANGED <<board, gen>>,
         \/ UNCHANGED <<team, dir, rows>>
         \/ \E new \in [Names -> Row] : WriteMaking(new) \/ Write(new)
  PROVE  FilesOK'
<1>1. /\ team' \in BOOLEAN /\ dir' \in BOOLEAN /\ (team' => dir') /\ rows' \in [Names -> Row]
  <2>1. ASSUME NEW new \in [Names -> Row], WriteMaking(new) \/ Write(new)
        PROVE  team' = TRUE /\ dir' = TRUE /\ rows' = new
    BY <2>1 DEF WriteMaking, Write, TypeOK, FilesOK
  <2> QED
    <3>1. CASE UNCHANGED <<team, dir, rows>>
      BY <3>1 DEF TypeOK, FilesOK
    <3>2. CASE \E new \in [Names -> Row] : WriteMaking(new) \/ Write(new)
      BY <2>1, <3>2
    <3> QED
      BY <3>1, <3>2
<1>2. /\ sections' \subseteq Section /\ \A s, t \in sections' : s # t => s.gen # t.gen
      /\ board' \in BOOLEAN /\ gen' \in Nat
  BY DEF TypeOK, FilesOK
<1> QED
  BY <1>1, <1>2 DEF FilesOK

\* The directory is made.
LEMMA Made ==
  ASSUME TypeOK, dir' \in {dir, TRUE}, UNCHANGED <<team, board, gen, rows, sections>>
  PROVE  FilesOK'
  BY DEF TypeOK, FilesOK

LEMMA TypesAdapter ==
  ASSUME TypeOK, NEW n \in Names,
         Start(n) \/ Adapter(n) \/ Work(n) \/ Crash(n)
  PROVE  TypeOK'
<1>1. CASE Start(n)
  <2>1. PeopleOK'
    BY <1>1, Goes DEF Start
  <2>2. HistoryOK'
    BY <1>1 DEF Start, TypeOK, HistoryOK
  <2> QED
    BY <1>1, <2>1, <2>2, Untouched DEF Start, TypeOK
<1>2. CASE RegisterBegin(n)
  <2>1. PeopleOK'
    BY <1>2, Goes DEF RegisterBegin
  <2>2. FilesOK'
    BY <1>2, Entered, Made DEF RegisterBegin, Ops
  <2> QED
    BY <1>2, <2>1, <2>2, Untouched DEF RegisterBegin, TypeOK
<1>3. CASE RegisterEnd(n)
  <2>1. PeopleOK'
    BY <1>3, Goes DEF RegisterEnd
  <2>2. FilesOK'
    BY <1>3, Ended, SectionTypes DEF RegisterEnd, Of, Row
  <2>3. HistoryOK'
    <3>1. \/ UNCHANGED history
          \/ history' = [history EXCEPT !.removed = @ \ {n},
                            !.back = IF kill = "off" THEN @ ELSE @ \union {n}]
      BY <1>3 DEF RegisterEnd
    <3>2. PICK b : b = IF kill = "off" THEN history.back ELSE history.back \union {n}
      OBVIOUS
    <3>3. b \in SUBSET Names
      BY <3>2 DEF TypeOK, HistoryOK
    <3>4. \/ UNCHANGED history
          \/ history' = [history EXCEPT !.removed = history.removed \ {n}, !.back = b]
      BY <3>1, <3>2
    <3> QED
      BY <3>3, <3>4 DEF TypeOK, HistoryOK
  <2> QED
    BY <1>3, <2>1, <2>2, <2>3, Untouched DEF RegisterEnd, TypeOK
<1>4. CASE Join(n)
  <2>1. PeopleOK'
    BY <1>4, Goes DEF Join
  <2> QED
    BY <1>4, <2>1, Made, Untouched DEF Join, TypeOK
<1>5. CASE Work(n)
  <2>1. PeopleOK'
    BY <1>5 DEF Work, TypeOK, PeopleOK
  <2> QED
    BY <1>5, <2>1, Untouched DEF Work, TypeOK
<1>6. CASE Leave(n)
  <2>1. PeopleOK'
    BY <1>6, Goes DEF Leave
  <2> QED
    BY <1>6, <2>1, Untouched DEF Leave, TypeOK
<1>7. CASE DeregisterBegin(n)
  <2>1. PeopleOK'
    BY <1>7, Goes DEF DeregisterBegin
  <2>2. FilesOK'
    BY <1>7, Entered, Made DEF DeregisterBegin, Ops
  <2> QED
    BY <1>7, <2>1, <2>2, Untouched DEF DeregisterBegin, TypeOK
<1>8. CASE DeregisterEnd(n)
  <2>1. PeopleOK'
    BY <1>8, Goes DEF DeregisterEnd
  <2>2. FilesOK'
    BY <1>8, Ended, SectionTypes DEF DeregisterEnd, Of, Row
  <2> QED
    BY <1>8, <2>1, <2>2, Untouched DEF DeregisterEnd, TypeOK
<1>9. CASE Crash(n)
  <2>1. PeopleOK'
    BY <1>9, Goes DEF Crash
  <2>2. FilesOK'
    BY <1>9, Ended DEF Crash, fs
  <2>3. HistoryOK'
    BY <1>9 DEF Crash, TypeOK, HistoryOK
  <2> QED
    BY <1>9, <2>1, <2>2, <2>3, Untouched DEF Crash, TypeOK
<1> QED
  BY <1>1, <1>2, <1>3, <1>4, <1>5, <1>6, <1>7, <1>8, <1>9 DEF Adapter

\* The lead's session goes on.
LEMMA Calls ==
  ASSUME TypeOK, NEW n \in Names,
         NEW pc \in {"idle", "isolate", "add", "adding", "pane", "set", "setting", "undo",
                     "undoing", "remove", "removing", "reset", "teams", "tasks", "team"},
         Lead(pc, n), active' \in BOOLEAN
  PROVE  SessionOK'
  BY DEF Lead, SessionOK

LEMMA LeadIs ==
  ASSUME TypeOK
  PROVE  lead.name \in Names /\ active \in BOOLEAN /\ board \in BOOLEAN
  BY DEF TypeOK, SessionOK, FilesOK

LEMMA TypesRemoval ==
  ASSUME TypeOK, NEW next, NEW failed, RemoveTeams(next, failed),
         UNCHANGED <<board, sections, proc, owns>>
  PROVE  FilesOK' /\ PeopleOK' /\ HistoryOK'
<1>1. CASE dir
  <2>1. /\ team' = FALSE /\ gen' = gen + 1 /\ rows' = Empty /\ asked' = {} /\ dir' \in BOOLEAN
        /\ history' = [history EXCEPT !.removed = Names, !.torn = @ \/ sections # {}]
    BY <1>1 DEF RemoveTeams
  <2>2. Empty \in [Names -> Row]
    BY DEF Empty, Row
  <2>3. FilesOK'
    <3>1. board' \in BOOLEAN /\ gen' \in Nat /\ sections' \subseteq Section
      BY <2>1 DEF TypeOK, FilesOK
    <3>2. \A s, t \in sections' : s # t => s.gen # t.gen
      BY DEF TypeOK, FilesOK
    <3> QED
      BY <2>1, <2>2, <3>1, <3>2 DEF FilesOK
  <2>4. PeopleOK'
    BY <2>1 DEF TypeOK, PeopleOK
  <2>5. HistoryOK'
    BY <2>1 DEF TypeOK, HistoryOK
  <2> QED
    BY <2>3, <2>4, <2>5
<1>2. CASE ~dir
  BY <1>2, Untouched DEF RemoveTeams, fs, people
<1> QED
  BY <1>1, <1>2 DEF TypeOK, FilesOK

LEMMA TypesLead ==
  ASSUME TypeOK, TeamCreate \/ TeamDelete \/ DeleteTeams \/ DeleteTasks \/ Lifespan
  PROVE  TypeOK'
<1>1. CASE TeamCreate
  <2>1. FilesOK'
    <3>1. Empty \in [Names -> Row]
      BY DEF Empty, Row
    <3> QED
      BY <1>1, <3>1 DEF TeamCreate, WriteMaking, TypeOK, FilesOK
  <2>2. SessionOK'
    BY <1>1 DEF TeamCreate, TypeOK, SessionOK
  <2>3. HistoryOK'
    <3>1. PICK c \in Nat : c = history.creates + 1
      BY DEF TypeOK, HistoryOK
    <3>2. PICK all \in SUBSET Names : all = Names
      OBVIOUS
    <3>3. history' = [history EXCEPT !.creates = c, !.removed = all]
      BY <1>1, <3>1, <3>2 DEF TeamCreate
    <3> QED
      BY <3>3 DEF TypeOK, HistoryOK
  <2> QED
    BY <1>1, <2>1, <2>2, <2>3, Untouched DEF TeamCreate, TypeOK
<1>2. CASE TeamDelete
  <2>1. SessionOK'
    BY <1>2, Calls, SomeName, LeadIs DEF TeamDelete
  <2> QED
    BY <1>2, <2>1, Untouched DEF TeamDelete, TypeOK
<1>3. CASE DeleteTeams
  <2>1. FilesOK' /\ PeopleOK' /\ HistoryOK'
    BY <1>3, TypesRemoval DEF DeleteTeams
  <2>2. SessionOK'
    BY <1>3, Calls, SomeName, LeadIs DEF DeleteTeams, RemoveTeams, Back
  <2> QED
    BY <1>3, <2>1, <2>2, Untouched DEF DeleteTeams, TypeOK
<1>4. CASE DeleteTasks
  <2>1. FilesOK' /\ PeopleOK'
    BY <1>4 DEF DeleteTasks, TypeOK, FilesOK, PeopleOK
  <2>2. SessionOK'
    BY <1>4, Calls, SomeName, LeadIs DEF DeleteTasks, Back
  <2> QED
    BY <1>4, <2>1, <2>2, Untouched DEF DeleteTasks, TypeOK
<1>5. CASE Lifespan
  <2>1. FilesOK'
    BY <1>5, Ended DEF Lifespan, fs
  <2>2. SessionOK'
    BY <1>5, Calls, SomeName DEF Lifespan, Back
  <2>3. HistoryOK'
    BY <1>5 DEF Lifespan, TypeOK, HistoryOK
  <2> QED
    BY <1>5, <2>1, <2>2, <2>3, Untouched DEF Lifespan, TypeOK
<1> QED
  BY <1>1, <1>2, <1>3, <1>4, <1>5

LEMMA TypesSpawn ==
  ASSUME TypeOK,
         \/ \E n \in Names : SpawnTeammate(n)
         \/ Isolate \/ AddBegin \/ AddEnd \/ StartPane \/ SetPaneBegin \/ SetPaneEnd
  PROVE  TypeOK'
<1>1. ASSUME NEW n \in Names, SpawnTeammate(n) PROVE TypeOK'
  <2>1. SessionOK'
    BY <1>1, Calls, LeadIs DEF SpawnTeammate
  <2>2. HistoryOK'
    BY <1>1 DEF SpawnTeammate, TypeOK, HistoryOK
  <2> QED
    BY <1>1, <2>1, <2>2, Untouched DEF SpawnTeammate, TypeOK
<1>2. CASE Isolate
  <2>1. SessionOK'
    BY <1>2, Calls, LeadIs, SomeName DEF Isolate, Back
  <2> QED
    BY <1>2, <2>1, Untouched DEF Isolate, TypeOK
<1>3. CASE AddBegin
  <2>1. SessionOK'
    BY <1>3, Calls, LeadIs, SomeName DEF AddBegin, Back
  <2>2. FilesOK'
    BY <1>3, Entered, Made, LeadIs DEF AddBegin, Ops
  <2> QED
    BY <1>3, <2>1, <2>2, Untouched DEF AddBegin, TypeOK
<1>4. CASE AddEnd
  <2>1. SessionOK'
    BY <1>4, Calls, LeadIs, SomeName DEF AddEnd, Back
  <2>2. FilesOK'
    BY <1>4, Ended, SectionTypes, LeadIs DEF AddEnd, Of, Row
  <2>3. HistoryOK'
    <3>1. \/ UNCHANGED history
          \/ history' = [history EXCEPT !.back = IF kill = "off" THEN @ ELSE @ \union {lead.name},
                                        !.removed = @ \ {lead.name}]
      BY <1>4 DEF AddEnd
    <3>2. PICK b : b = IF kill = "off" THEN history.back ELSE history.back \union {lead.name}
      OBVIOUS
    <3>3. b \in SUBSET Names
      BY <3>2, LeadIs DEF TypeOK, HistoryOK
    <3>4. \/ UNCHANGED history
          \/ history' = [history EXCEPT !.removed = history.removed \ {lead.name}, !.back = b]
      BY <3>1, <3>2
    <3> QED
      BY <3>3, <3>4 DEF TypeOK, HistoryOK
  <2> QED
    BY <1>4, <2>1, <2>2, <2>3, Untouched DEF AddEnd, TypeOK
<1>5. CASE StartPane
  <2>1. SessionOK'
    BY <1>5, Calls, LeadIs DEF StartPane
  <2>2. PeopleOK'
    BY <1>5, Goes, LeadIs, Untouched DEF StartPane, people
  <2> QED
    BY <1>5, <2>1, <2>2, Made, Untouched DEF StartPane, TypeOK
<1>6. CASE SetPaneBegin
  <2>1. SessionOK'
    BY <1>6, Calls, LeadIs DEF SetPaneBegin
  <2>2. FilesOK'
    BY <1>6, Entered, Made, LeadIs DEF SetPaneBegin, Ops
  <2> QED
    BY <1>6, <2>1, <2>2, Untouched DEF SetPaneBegin, TypeOK
<1>7. CASE SetPaneEnd
  <2>1. SessionOK'
    BY <1>7, Calls, LeadIs, SomeName DEF SetPaneEnd, Back
  <2>2. FilesOK'
    <3>1. PICK s \in sections :
            /\ sections' = sections \ {s}
            /\ \/ Write([s.read EXCEPT ![lead.name] = IF @ = "none" THEN @ ELSE "pane"])
               \/ UNCHANGED <<team, dir, rows>>
      BY <1>7 DEF SetPaneEnd, Of
    <3>2. [s.read EXCEPT ![lead.name] = IF @ = "none" THEN @ ELSE "pane"] \in [Names -> Row]
      BY SectionTypes, LeadIs DEF Row
    <3> QED
      BY <1>7, <3>1, <3>2, Ended DEF SetPaneEnd
  <2> QED
    BY <1>7, <2>1, <2>2, Untouched DEF SetPaneEnd, TypeOK
<1> QED
  BY <1>1, <1>2, <1>3, <1>4, <1>5, <1>6, <1>7

LEMMA TypesRemove ==
  ASSUME TypeOK,
         \/ RemoveBegin \/ RemoveEnd \/ ResetTasks
         \/ \E n \in Names : KillTeammate(n)
  PROVE  TypeOK'
<1>1. CASE RemoveBegin
  <2>1. SessionOK'
    BY <1>1, Calls, LeadIs, SomeName DEF RemoveBegin, Back
  <2>2. FilesOK'
    BY <1>1, Entered, Made, LeadIs DEF RemoveBegin, Ops
  <2> QED
    BY <1>1, <2>1, <2>2, Untouched DEF RemoveBegin, TypeOK
<1>2. CASE RemoveEnd
  <2>1. SessionOK'
    BY <1>2, Calls, LeadIs, SomeName DEF RemoveEnd, Back
  <2>2. FilesOK'
    BY <1>2, Ended, SectionTypes, LeadIs DEF RemoveEnd, Of, Row
  <2>3. HistoryOK'
    BY <1>2, LeadIs DEF RemoveEnd, Mark, TypeOK, HistoryOK
  <2> QED
    BY <1>2, <2>1, <2>2, <2>3, Untouched DEF RemoveEnd, TypeOK
<1>3. CASE ResetTasks
  <2>1. SessionOK'
    BY <1>3, Calls, LeadIs, SomeName DEF ResetTasks, Back
  <2>2. PeopleOK'
    BY <1>3 DEF ResetTasks, TypeOK, PeopleOK
  <2> QED
    BY <1>3, <2>1, <2>2, Untouched DEF ResetTasks, TypeOK
<1>4. ASSUME NEW n \in Names, KillTeammate(n) PROVE TypeOK'
  <2>1. SessionOK'
    BY <1>4, Calls, LeadIs DEF KillTeammate
  <2>2. PeopleOK'
    BY <1>4, Goes, Untouched DEF KillTeammate, people
  <2> QED
    BY <1>4, <2>1, <2>2, Untouched DEF KillTeammate, TypeOK
<1> QED
  BY <1>1, <1>2, <1>3, <1>4

LEMMA TypesForce ==
  ASSUME TypeOK, NEW n \in Names, Forced(n)
  PROVE  TypeOK'
<1>1. CASE ForceKill(n)
  <2>1. PeopleOK'
    BY <1>1, Goes, Untouched DEF ForceKill, people
  <2>2. DownOK'
    BY <1>1 DEF ForceKill, Stage, fixed, TypeOK, DownOK
  <2> QED
    BY <1>1, <2>1, <2>2, Untouched DEF ForceKill, TypeOK
<1>2. CASE ForceRemoveBegin(n)
  <2>1. FilesOK'
    BY <1>2, Entered, Made DEF ForceRemoveBegin, Ops
  <2>2. DownOK'
    BY <1>2 DEF ForceRemoveBegin, Stage, fixed, TypeOK, DownOK
  <2> QED
    BY <1>2, <2>1, <2>2, Untouched DEF ForceRemoveBegin, TypeOK
<1>3. CASE ForceRemoveEnd(n)
  <2>1. FilesOK'
    BY <1>3, Ended, SectionTypes DEF ForceRemoveEnd, Of, Row
  <2>2. DownOK'
    BY <1>3 DEF ForceRemoveEnd, Stage, fixed, TypeOK, DownOK
  <2>3. HistoryOK'
    BY <1>3 DEF ForceRemoveEnd, Mark, TypeOK, HistoryOK
  <2> QED
    BY <1>3, <2>1, <2>2, <2>3, Untouched DEF ForceRemoveEnd, TypeOK
<1>4. CASE ForceReset(n) \/ ForceClean(n)
  <2>1. PeopleOK'
    BY <1>4 DEF ForceReset, ForceClean, TypeOK, PeopleOK
  <2>2. DownOK'
    BY <1>4 DEF ForceReset, ForceClean, Stage, fixed, TypeOK, DownOK, Row
  <2> QED
    BY <1>4, <2>1, <2>2, Untouched DEF ForceReset, ForceClean, TypeOK
<1> QED
  BY <1>1, <1>2, <1>3, <1>4 DEF Forced

LEMMA TypesTeardown ==
  ASSUME TypeOK, Teardown \/ \E by \in {"lead", "operator"} : KillStart(by)
  PROVE  TypeOK'
<1>1. ASSUME NEW by, KillStart(by) PROVE TypeOK'
  <2>1. SessionOK'
    BY <1>1, Calls, LeadIs, SomeName, Untouched DEF KillStart, session
  <2>2. DownOK'
    BY <1>1 DEF KillStart, Listed, TypeOK, DownOK
  <2> QED
    BY <1>1, <2>1, <2>2, Untouched DEF KillStart, TypeOK
<1>2. CASE KillReturns
  <2>1. SessionOK'
    BY <1>2, Calls, LeadIs, SomeName DEF KillReturns, Back
  <2>2. DownOK'
    BY <1>2 DEF KillReturns, fixed, TypeOK, DownOK
  <2> QED
    BY <1>2, <2>1, <2>2, Untouched DEF KillReturns, TypeOK
<1>3. CASE AskAll
  <2>1. FilesOK'
    BY <1>3, Made DEF AskAll, TypeOK, FilesOK
  <2>2. PeopleOK'
    BY <1>3 DEF AskAll, TypeOK, PeopleOK, DownOK
  <2>3. DownOK'
    BY <1>3 DEF AskAll, fixed, TypeOK, DownOK
  <2> QED
    BY <1>3, <2>1, <2>2, <2>3, Untouched DEF AskAll, TypeOK
<1>4. CASE WaitEnds
  <2>1. DownOK'
    BY <1>4 DEF WaitEnds, TypeOK, DownOK
  <2> QED
    BY <1>4, <2>1, Untouched DEF WaitEnds, TypeOK
<1>5. CASE PickRemaining
  <2>1. DownOK'
    BY <1>5 DEF PickRemaining, Row, TypeOK, FilesOK, DownOK
  <2> QED
    BY <1>5, <2>1, Untouched DEF PickRemaining, TypeOK
<1>6. CASE ForcedAll \/ PurgeReads
  <2>1. DownOK'
    BY <1>6 DEF ForcedAll, PurgeReads, fixed, TypeOK, DownOK
  <2> QED
    BY <1>6, <2>1, Untouched DEF ForcedAll, PurgeReads, TypeOK
<1>7. CASE PurgeTeams
  <2>1. FilesOK' /\ PeopleOK' /\ HistoryOK'
    BY <1>7, TypesRemoval DEF PurgeTeams
  <2>2. DownOK'
    BY <1>7 DEF PurgeTeams, RemoveTeams, fixed, TypeOK, DownOK
  <2> QED
    BY <1>7, <2>1, <2>2, Untouched DEF PurgeTeams, TypeOK
<1>8. CASE PurgeTasks
  <2>1. FilesOK' /\ PeopleOK'
    BY <1>8 DEF PurgeTasks, TypeOK, FilesOK, PeopleOK
  <2>2. DownOK'
    BY <1>8 DEF PurgeTasks, fixed, TypeOK, DownOK
  <2> QED
    BY <1>8, <2>1, <2>2, Untouched DEF PurgeTasks, TypeOK
<1>9. CASE TeamKillCompleted
  <2>1. FilesOK'
    BY <1>9, Made DEF TeamKillCompleted
  <2>2. DownOK'
    BY <1>9 DEF TeamKillCompleted, fixed, TypeOK, DownOK
  <2> QED
    BY <1>9, <2>1, <2>2, Untouched DEF TeamKillCompleted, TypeOK
<1> QED
  BY <1>1, <1>2, <1>3, <1>4, <1>5, <1>6, <1>7, <1>8, <1>9 DEF Teardown

LEMMA TypesOperator ==
  ASSUME TypeOK, PruneLook \/ TeamAgent \/ TeamPatch \/ Commands
  PROVE  TypeOK'
<1>1. OperatorOK'
  <2>1. plan' = plan /\ (\/ \E live \in SUBSET Names : cli' = [pc |-> "looked", live |-> live]
                         \/ \E pc \in {"pruning", "patch", "patching", "done"} : Cli(pc))
    BY DEF PruneLook, TeamAgent, TeamPatch, Commands, PruneBegin, PruneEnd, PatchBegin, PatchEnd,
           Panes, Names
  <2> QED
    BY <2>1 DEF Cli, TypeOK, OperatorOK
<1>2. CASE PruneLook \/ TeamPatch
  BY <1>1, <1>2, Untouched DEF PruneLook, TeamPatch, TypeOK
<1>3. CASE TeamAgent
  BY <1>1, <1>3, Made, Untouched DEF TeamAgent, TypeOK
<1>4. CASE PruneBegin \/ PatchBegin
  <2>1. FilesOK'
    BY <1>4, Entered, SomeName DEF PruneBegin, PatchBegin, Ops
  <2> QED
    BY <1>1, <1>4, <2>1, Untouched DEF PruneBegin, PatchBegin, TypeOK
<1>5. CASE PruneEnd
  <2>1. FilesOK'
    <3>1. \A s \in sections, dead \in SUBSET Names :
            [n \in Names |-> IF n \in dead THEN "none" ELSE s.read[n]] \in [Names -> Row]
      BY SectionTypes DEF Row
    <3> QED
      BY <1>5, <3>1, Ended DEF PruneEnd
  <2>2. HistoryOK'
    BY <1>5 DEF PruneEnd, Mark, TypeOK, HistoryOK
  <2> QED
    BY <1>1, <1>5, <2>1, <2>2, Untouched DEF PruneEnd, TypeOK
<1>6. CASE PatchEnd
  <2>1. FilesOK'
    BY <1>6, Ended, SectionTypes DEF PatchEnd
  <2> QED
    BY <1>1, <1>6, <2>1, Untouched DEF PatchEnd, TypeOK
<1> QED
  BY <1>2, <1>3, <1>4, <1>5, <1>6 DEF Commands

LEMMA TypesStep == TypeOK /\ [Next]_vars => TypeOK'
<1> SUFFICES ASSUME TypeOK, [Next]_vars PROVE TypeOK'
  OBVIOUS
<1>1. CASE UNCHANGED vars
  BY <1>1, Untouched DEF vars, TypeOK
<1>2. CASE Next
  BY <1>2, TypesAdapter, TypesLead, TypesSpawn, TypesRemove, TypesForce, TypesTeardown,
     TypesOperator DEF Next, Session
<1> QED
  BY <1>1, <1>2

LEMMA TypesInit == Init => TypeOK
<1> SUFFICES ASSUME Init PROVE TypeOK
  OBVIOUS
<1>1. FilesOK
  BY DEF Init, FilesOK, Empty, Row
<1>2. PeopleOK /\ HistoryOK
  BY DEF Init, PeopleOK, HistoryOK
<1>3. SessionOK /\ OperatorOK
  BY SomeName DEF Init, SessionOK, OperatorOK
<1>4. DownOK
  BY DEF Init, DownOK, Empty, Row
<1> QED
  BY <1>1, <1>2, <1>3, <1>4 DEF TypeOK

\* The state is what it is said to be.
THEOREM RosterTypes == Spec => []TypeOK
  BY TypesInit, TypesStep, PTL DEF Spec

-----------------------------------------------------------------------------
(* Which steps move a process, the lead's session and the teardown. *)

LEMMA ProcStays ==
  [Next]_vars =>
    \/ UNCHANGED proc
    \/ StartPane
    \/ \E n \in Names : \/ Start(n) \/ Adapter(n) \/ Crash(n)
                        \/ KillTeammate(n) \/ ForceKill(n)
<1>1. ASSUME NEW n \in Names,
             \/ Work(n) \/ SpawnTeammate(n) \/ ForceRemoveBegin(n) \/ ForceRemoveEnd(n)
             \/ ForceReset(n) \/ ForceClean(n)
      PROVE  UNCHANGED proc
  BY <1>1 DEF Work, SpawnTeammate, ForceRemoveBegin, ForceRemoveEnd, ForceReset, ForceClean, people
<1>2. ASSUME \/ TeamCreate \/ TeamDelete \/ DeleteTeams \/ DeleteTasks \/ Isolate \/ Lifespan
             \/ AddBegin \/ AddEnd \/ SetPaneBegin \/ SetPaneEnd
             \/ RemoveBegin \/ RemoveEnd \/ ResetTasks
      PROVE  UNCHANGED proc
  BY <1>2 DEF TeamCreate, TeamDelete, DeleteTeams, DeleteTasks, Isolate, Lifespan, AddBegin,
              AddEnd, SetPaneBegin, SetPaneEnd, RemoveBegin, RemoveEnd, ResetTasks, people
<1>3. ASSUME Teardown \/ \E by \in {"lead", "operator"} : KillStart(by) PROVE UNCHANGED proc
  BY <1>3 DEF KillStart, Teardown, AskAll, WaitEnds, PickRemaining, ForcedAll, PurgeReads,
              PurgeTeams, PurgeTasks, TeamKillCompleted, KillReturns, people
<1>4. ASSUME PruneLook \/ TeamAgent \/ TeamPatch \/ Commands \/ UNCHANGED vars
      PROVE  UNCHANGED proc
  BY <1>4 DEF PruneLook, TeamAgent, TeamPatch, Commands, PruneBegin, PruneEnd, PatchBegin,
              PatchEnd, people, vars
<1> QED
  BY <1>1, <1>2, <1>3, <1>4 DEF Next, Session, Forced

LEMMA LeadStays ==
  [Next]_vars =>
    \/ UNCHANGED lead
    \/ TeamDelete \/ Session \/ Lifespan \/ KillReturns
    \/ \E n \in Names : SpawnTeammate(n) \/ KillTeammate(n)
    \/ \E by \in {"lead", "operator"} : KillStart(by)
<1>1. ASSUME \E n \in Names : Start(n) \/ Adapter(n) \/ Work(n) \/ Crash(n) \/ Forced(n)
      PROVE  UNCHANGED lead
  BY <1>1 DEF Start, Adapter, Work, Crash, Forced, RegisterBegin, RegisterEnd, Join, Leave,
              DeregisterBegin, DeregisterEnd, ForceKill, ForceRemoveBegin, ForceRemoveEnd,
              ForceReset, ForceClean, session
<1>2. ASSUME \/ TeamCreate \/ AskAll \/ WaitEnds \/ PickRemaining \/ ForcedAll
             \/ PurgeReads \/ PurgeTeams \/ PurgeTasks \/ TeamKillCompleted
      PROVE  UNCHANGED lead
  BY <1>2 DEF TeamCreate, AskAll, WaitEnds, PickRemaining, ForcedAll, PurgeReads, PurgeTeams,
              PurgeTasks, TeamKillCompleted, session
<1>3. ASSUME PruneLook \/ TeamAgent \/ TeamPatch \/ Commands \/ UNCHANGED vars
      PROVE  UNCHANGED lead
  BY <1>3 DEF PruneLook, TeamAgent, TeamPatch, Commands, PruneBegin, PruneEnd, PatchBegin,
              PatchEnd, session, vars
<1> QED
  BY <1>1, <1>2, <1>3 DEF Next, Teardown

LEMMA DownStays ==
  [Next]_vars =>
    \/ UNCHANGED down
    \/ \E n \in Names : Forced(n)
    \/ Teardown \/ \E by \in {"lead", "operator"} : KillStart(by)
<1>1. ASSUME NEW n \in Names,
             \/ Start(n) \/ Adapter(n) \/ Work(n) \/ Crash(n)
             \/ SpawnTeammate(n) \/ KillTeammate(n)
      PROVE  UNCHANGED down
  BY <1>1 DEF Start, Adapter, Work, Crash, SpawnTeammate, KillTeammate, RegisterBegin, RegisterEnd,
              Join, Leave, DeregisterBegin, DeregisterEnd
<1>2. ASSUME TeamCreate \/ TeamDelete \/ Session \/ Lifespan PROVE UNCHANGED down
  BY <1>2 DEF TeamCreate, TeamDelete, Session, Lifespan, DeleteTeams, DeleteTasks, Isolate,
              AddBegin, AddEnd, StartPane, SetPaneBegin, SetPaneEnd, RemoveBegin, RemoveEnd,
              ResetTasks
<1>3. ASSUME PruneLook \/ TeamAgent \/ TeamPatch \/ Commands \/ UNCHANGED vars
      PROVE  UNCHANGED down
  BY <1>3 DEF PruneLook, TeamAgent, TeamPatch, Commands, PruneBegin, PruneEnd, PatchBegin,
              PatchEnd, vars
<1> QED
  BY <1>1, <1>2, <1>3 DEF Next

-----------------------------------------------------------------------------
(* The file and its sections: every step is one of a few kinds. *)

\* Nothing is read or written, but for the directory.
Aside == UNCHANGED <<team, gen, rows, sections>>

\* A section begins: where there is no config, only a command's.
Begins ==
  \E op \in Ops, n \in Names :
    /\ LockFree /\ Enter(op, n) /\ UNCHANGED <<team, gen, rows>>
    /\ team \/ op = "cli"
    /\ op \in {"register", "deregister"} => n \in Adapters
    /\ op = "register" => proc[n] = "starting" /\ Proc(n, "registering")
    /\ op = "deregister" => proc[n] = "leaving" /\ Proc(n, "deregistering")
    /\ op = "lead" => /\ lead.pc \in {"add", "set", "undo", "remove"}
                      /\ lead'.pc \in {"adding", "setting", "undoing", "removing"}
    /\ op = "kill" => stage[n] = "remove"
    /\ op = "cli" => cli.pc \in {"looked", "patch"}

\* A section ends; a command writes no empty roster, and no registration does.
Ends ==
  \E s \in sections :
    /\ sections' = sections \ {s} /\ UNCHANGED gen
    /\ \/ UNCHANGED <<team, rows>>
       \/ /\ team' = TRUE /\ (s.op = "cli" => s.read # Empty)
          /\ s.op = "register" => \E n \in Names : rows'[n] # "none"

\* Sections end with their process.
Drops == sections' \subseteq sections /\ UNCHANGED <<team, gen, rows>>

\* The directory is removed, and the lock's file with it.
Removes ==
  /\ team' = FALSE /\ gen' = gen + 1 /\ rows' = Empty /\ UNCHANGED sections
  /\ history'.torn \/ sections = {}

\* The team is created.
Creates ==
  /\ LockFree /\ team' = TRUE /\ rows' = Empty /\ UNCHANGED <<gen, sections>>
  /\ history'.creates > history.creates

Filing == Aside \/ Begins \/ Ends \/ Drops \/ Removes \/ Creates

\* Where the processes and the sections of adapters and teammates are.
Home == \A n \in Natives : proc[n] \in {"out", "up", "dead"}
Whose == \A s \in sections : s.op \in {"register", "deregister"} => s.name \in Adapters
Spawned ==
  lead.pc \in {"isolate", "add", "adding", "pane", "set", "setting", "undo", "undoing"}
    => lead.name \in Natives

\* There are no members without a config; and where there is none, the section
\* at the lock's file is a command's that has read none.
Bare == ~team => rows = Empty
Fresh ==
  \A s \in sections :
    s.gen <= gen /\ (~team /\ s.gen = gen => s.op = "cli" /\ s.read = Empty)

Places == Home /\ Whose /\ Spawned /\ Bare /\ Fresh

LEMMA FilingAdapter ==
  ASSUME TypeOK, Home, NEW n \in Names,
         Start(n) \/ Adapter(n) \/ Work(n) \/ Crash(n)
  PROVE  Filing
<1>1. proc[n] \in {"starting", "leaving"} => n \in Adapters
  BY DEF Home, Names
<1>2. CASE Start(n) \/ Work(n) \/ Join(n) \/ Leave(n)
  BY <1>2 DEF Start, Work, Join, Leave, fs, Filing, Aside
<1>3. CASE RegisterBegin(n)
  BY <1>1, <1>3 DEF RegisterBegin, Filing, Aside, Begins, Ops
<1>4. CASE DeregisterBegin(n)
  BY <1>1, <1>4 DEF DeregisterBegin, Filing, Aside, Begins, Ops
<1>5. CASE RegisterEnd(n)
  <2>1. PICK s \in Of("register", n) :
          /\ sections' = sections \ {s} /\ UNCHANGED gen
          /\ \/ UNCHANGED <<team, rows>>
             \/ team' = TRUE /\ (\/ rows' = [s.read EXCEPT ![n] = "inproc"]
                                 \/ rows' = s.read /\ s.read[n] # "none")
    BY <1>5 DEF RegisterEnd, WriteMaking
  <2>2. s.read \in [Names -> Row]
    BY <2>1, SectionTypes DEF Of
  <2> QED
    BY <2>1, <2>2 DEF Of, Filing, Ends
<1>6. CASE DeregisterEnd(n)
  <2>1. PICK s \in Of("deregister", n) :
          /\ sections' = sections \ {s} /\ UNCHANGED gen
          /\ UNCHANGED <<team, rows>> \/ team' = TRUE
    BY <1>6 DEF DeregisterEnd, WriteMaking
  <2> QED
    BY <2>1 DEF Of, Filing, Ends
<1>7. CASE Crash(n)
  BY <1>7 DEF Crash, fs, Filing, Drops
<1> QED
  BY <1>2, <1>3, <1>4, <1>5, <1>6, <1>7 DEF Adapter

LEMMA FilingRemoval ==
  ASSUME TypeOK, NEW next, NEW failed, RemoveTeams(next, failed), UNCHANGED sections
  PROVE  Aside \/ Removes
<1>1. CASE dir
  <2>1. /\ team' = FALSE /\ gen' = gen + 1 /\ rows' = Empty
        /\ history' = [history EXCEPT !.removed = Names, !.torn = @ \/ sections # {}]
    BY <1>1 DEF RemoveTeams
  <2>2. history'.torn \/ sections = {}
    BY <2>1 DEF TypeOK, HistoryOK
  <2> QED
    BY <2>1, <2>2 DEF Removes
<1> QED
  BY <1>1 DEF RemoveTeams, Aside, Removes

LEMMA FilingSession ==
  ASSUME TypeOK,
         \/ TeamCreate \/ TeamDelete \/ Session \/ Lifespan
         \/ \E n \in Names : SpawnTeammate(n) \/ KillTeammate(n)
  PROVE  Filing
<1>0. ASSUME NEW pc \in {"adding", "setting", "undoing", "removing"}, Lead(pc, lead.name),
             lead.pc \in {"add", "set", "undo", "remove"}, LockFree, Enter("lead", lead.name),
             team, UNCHANGED <<team, gen, rows>>
      PROVE  Begins
  <2>1. lead'.pc = pc
    BY <1>0 DEF Lead
  <2> QED
    BY <1>0, <2>1, LeadIs DEF Begins, Ops
<1>1. CASE TeamCreate
  BY <1>1 DEF TeamCreate, WriteMaking, TypeOK, HistoryOK, Filing, Creates
<1>2. CASE TeamDelete \/ DeleteTasks \/ Isolate \/ StartPane \/ ResetTasks
  BY <1>2 DEF TeamDelete, DeleteTasks, Isolate, StartPane, ResetTasks, fs, Filing, Aside
<1>3. CASE DeleteTeams
  BY <1>3, FilingRemoval DEF DeleteTeams, Filing
<1>4. CASE \E n \in Names : SpawnTeammate(n) \/ KillTeammate(n)
  BY <1>4 DEF SpawnTeammate, KillTeammate, fs, Filing, Aside
<1>5. CASE Lifespan
  BY <1>5 DEF Lifespan, fs, Filing, Drops
<1>6. CASE AddBegin
  BY <1>0, <1>6 DEF AddBegin, Filing, Aside
<1>7. CASE SetPaneBegin
  BY <1>0, <1>7 DEF SetPaneBegin, Filing, Aside
<1>8. CASE RemoveBegin
  <2>1. PICK pc \in {"undoing", "removing"} : pc = IF lead.pc = "undo" THEN "undoing" ELSE "removing"
    OBVIOUS
  <2> QED
    BY <1>0, <1>8, <2>1 DEF RemoveBegin, Filing, Aside
<1>9. CASE AddEnd \/ SetPaneEnd \/ RemoveEnd
  <2>1. PICK s \in Of("lead", lead.name) :
          /\ sections' = sections \ {s} /\ UNCHANGED gen
          /\ UNCHANGED <<team, rows>> \/ team' = TRUE
    BY <1>9 DEF AddEnd, SetPaneEnd, RemoveEnd, Write
  <2> QED
    BY <2>1 DEF Of, Filing, Ends
<1> QED
  BY <1>1, <1>2, <1>3, <1>4, <1>5, <1>6, <1>7, <1>8, <1>9 DEF Session

LEMMA FilingTeardown ==
  ASSUME TypeOK,
         \/ \E n \in Names : Forced(n)
         \/ Teardown \/ \E by \in {"lead", "operator"} : KillStart(by)
  PROVE  Filing
<1>1. ASSUME NEW n \in Names, ForceKill(n) \/ ForceReset(n) \/ ForceClean(n) PROVE Filing
  BY <1>1 DEF ForceKill, ForceReset, ForceClean, fs, Filing, Aside
<1>2. ASSUME NEW n \in Names, ForceRemoveBegin(n) PROVE Filing
  BY <1>2 DEF ForceRemoveBegin, Filing, Aside, Begins, Ops
<1>3. ASSUME NEW n \in Names, ForceRemoveEnd(n) PROVE Filing
  <2>1. PICK s \in Of("kill", n) :
          /\ sections' = sections \ {s} /\ UNCHANGED gen
          /\ UNCHANGED <<team, rows>> \/ team' = TRUE
    BY <1>3 DEF ForceRemoveEnd, Write
  <2> QED
    BY <2>1 DEF Of, Filing, Ends
<1>4. CASE PurgeTeams
  BY <1>4, FilingRemoval DEF PurgeTeams, Filing
<1>5. CASE \E by \in {"lead", "operator"} : KillStart(by)
  BY <1>5 DEF KillStart, fs, Filing, Aside
<1>6. CASE AskAll \/ WaitEnds \/ PickRemaining \/ ForcedAll
  BY <1>6 DEF AskAll, WaitEnds, PickRemaining, ForcedAll, fs, Filing, Aside
<1>7. CASE PurgeReads \/ PurgeTasks \/ TeamKillCompleted \/ KillReturns
  BY <1>7 DEF PurgeReads, PurgeTasks, TeamKillCompleted, KillReturns, fs, Filing, Aside
<1> QED
  BY <1>1, <1>2, <1>3, <1>4, <1>5, <1>6, <1>7 DEF Forced, Teardown

LEMMA FilingCommands ==
  ASSUME TypeOK, PruneLook \/ TeamAgent \/ TeamPatch \/ Commands
  PROVE  Filing
<1>1. CASE PruneLook \/ TeamAgent \/ TeamPatch
  BY <1>1 DEF PruneLook, TeamAgent, TeamPatch, fs, Filing, Aside
<1>2. CASE PruneBegin \/ PatchBegin
  BY <1>2, SomeName DEF PruneBegin, PatchBegin, Filing, Begins, Ops
<1>3. CASE PruneEnd
  <2>1. PICK s \in sections :
          /\ sections' = sections \ {s} /\ UNCHANGED gen
          /\ s.op = "cli"
          /\ \/ UNCHANGED <<team, rows>>
             \/ team' = TRUE /\ \E n \in Names : s.read[n] = "pane"
    BY <1>3 DEF PruneEnd, Dead, WriteMaking
  <2>2. (\E n \in Names : s.read[n] = "pane") => s.read # Empty
    BY DEF Empty
  <2> QED
    BY <2>1, <2>2 DEF Filing, Ends
<1>4. CASE PatchEnd
  BY <1>4 DEF PatchEnd, WriteMaking, Filing, Ends
<1> QED
  BY <1>1, <1>2, <1>3, <1>4 DEF Commands

LEMMA FilingStep == TypeOK /\ Home /\ [Next]_vars => Filing
<1> SUFFICES ASSUME TypeOK, Home, [Next]_vars PROVE Filing
  OBVIOUS
<1>1. CASE UNCHANGED vars
  BY <1>1 DEF vars, fs, Filing, Aside
<1>2. CASE Next
  BY <1>2, FilingAdapter, FilingSession, FilingTeardown, FilingCommands DEF Next
<1> QED
  BY <1>1, <1>2

LEMMA FilesKept == TypeOK /\ Whose /\ Bare /\ Fresh /\ Filing => (Whose /\ Bare /\ Fresh)'
<1> SUFFICES ASSUME TypeOK, Whose, Bare, Fresh, Filing PROVE (Whose /\ Bare /\ Fresh)'
  OBVIOUS
<1>0. gen \in Nat /\ \A s \in sections : s.gen \in Nat
  BY SectionTypes DEF TypeOK, FilesOK
<1>1. CASE Aside \/ Drops
  BY <1>1 DEF Aside, Drops, Whose, Bare, Fresh
<1>2. CASE Begins
  <2>1. PICK op \in Ops, n \in Names :
          /\ Enter(op, n) /\ UNCHANGED <<team, gen, rows>>
          /\ team \/ op = "cli"
          /\ op \in {"register", "deregister"} => n \in Adapters
    BY <1>2 DEF Begins
  <2>2. PICK new : new = [op |-> op, name |-> n, read |-> rows, gen |-> gen]
    OBVIOUS
  <2>3. /\ new.op = op /\ new.name = n /\ new.read = rows /\ new.gen = gen
        /\ sections' = sections \union {new}
    BY <2>1, <2>2 DEF Enter
  <2>4. Whose'
    BY <2>1, <2>3 DEF Whose
  <2>5. Fresh'
    BY <1>0, <2>1, <2>3 DEF Fresh, Bare
  <2> QED
    BY <2>1, <2>4, <2>5 DEF Bare
<1>3. CASE Ends
  BY <1>3 DEF Ends, Whose, Bare, Fresh
<1>4. CASE Removes
  BY <1>0, <1>4 DEF Removes, Whose, Bare, Fresh
<1>5. CASE Creates
  BY <1>5 DEF Creates, Whose, Bare, Fresh
<1> QED
  BY <1>1, <1>2, <1>3, <1>4, <1>5 DEF Filing

\* A process moves: an adapter's, or to where a teammate's may be.
Moves == \/ UNCHANGED proc
         \/ \E n \in Names, p \in {"out", "starting", "registering", "joining", "up",
                                   "leaving", "deregistering", "left", "dead"} :
              Proc(n, p) /\ (n \in Adapters \/ p \in {"up", "dead"})

LEMMA MovesStep == TypeOK /\ Home /\ Whose /\ [Next]_vars => Moves
<1> SUFFICES ASSUME TypeOK, Home, Whose, [Next]_vars PROVE Moves
  OBVIOUS
<1>1. ASSUME NEW n \in Names, proc[n] \notin {"out", "up", "dead"} PROVE n \in Adapters
  BY <1>1 DEF Home, Names
<1>2. ASSUME NEW n \in Names, Adapter(n) PROVE Moves
  <2>1. CASE RegisterBegin(n) \/ Join(n) \/ DeregisterBegin(n)
    BY <1>1, <2>1 DEF RegisterBegin, Join, DeregisterBegin, Moves
  <2>2. CASE Leave(n)
    BY <2>2 DEF Leave, Moves
  <2>3. CASE RegisterEnd(n)
    <3>1. n \in Adapters /\ Proc(n, "joining")
      BY <2>3 DEF RegisterEnd, Of, Whose
    <3> QED
      BY <3>1 DEF Moves
  <2>4. CASE DeregisterEnd(n)
    <3>1. n \in Adapters /\ Proc(n, "left")
      BY <2>4 DEF DeregisterEnd, Of, Whose
    <3> QED
      BY <3>1 DEF Moves
  <2> QED
    BY <1>2, <2>1, <2>2, <2>3, <2>4 DEF Adapter
<1>3. ASSUME NEW n \in Names, Start(n) \/ Crash(n) \/ KillTeammate(n) PROVE Moves
  BY <1>3 DEF Start, Crash, KillTeammate, Moves
<1>4. ASSUME NEW n \in Names, ForceKill(n) PROVE Moves
  BY <1>4 DEF ForceKill, Moves
<1>5. CASE StartPane
  BY <1>5, LeadIs DEF StartPane, Moves
<1>6. CASE UNCHANGED proc
  BY <1>6 DEF Moves
<1> QED
  BY <1>2, <1>3, <1>4, <1>5, <1>6, ProcStays

LEMMA HomeKept == TypeOK /\ Home /\ Moves => Home'
<1> SUFFICES ASSUME TypeOK, Home, Moves PROVE Home'
  OBVIOUS
<1>1. CASE UNCHANGED proc
  BY <1>1 DEF Home
<1>2. CASE ~UNCHANGED proc
  <2>1. PICK n \in Names, p \in {"out", "starting", "registering", "joining", "up",
                                 "leaving", "deregistering", "left", "dead"} :
          Proc(n, p) /\ (n \in Adapters \/ p \in {"up", "dead"})
    BY <1>2 DEF Moves
  <2> QED
    BY <2>1, RosterAssumption DEF Proc, Home, Names, TypeOK, PeopleOK
<1> QED
  BY <1>1, <1>2

LEMMA SpawnedStep == TypeOK /\ Spawned /\ [Next]_vars => Spawned'
<1> SUFFICES ASSUME TypeOK, Spawned, [Next]_vars PROVE Spawned'
  OBVIOUS
<1>1. ASSUME UNCHANGED lead PROVE Spawned'
  BY <1>1 DEF Spawned
<1>2. ASSUME NEW n \in Names, SpawnTeammate(n) \/ KillTeammate(n) PROVE Spawned'
  BY <1>2 DEF SpawnTeammate, KillTeammate, Lead, Spawned
<1>3. CASE TeamDelete \/ DeleteTeams \/ DeleteTasks \/ Isolate \/ Lifespan
  BY <1>3 DEF TeamDelete, DeleteTeams, RemoveTeams, DeleteTasks, Isolate, Lifespan, Back, Lead,
              Spawned
<1>4. CASE AddBegin \/ AddEnd \/ StartPane \/ SetPaneBegin \/ SetPaneEnd
  <2>1. /\ lead.pc \in {"add", "adding", "pane", "set", "setting"}
        /\ \/ lead' = [pc |-> "idle", name |-> Nobody]
           \/ \E pc \in {"adding", "pane", "set", "setting", "undo"} :
                lead' = [pc |-> pc, name |-> lead.name]
    BY <1>4 DEF AddBegin, AddEnd, StartPane, SetPaneBegin, SetPaneEnd, Back, Lead
  <2> QED
    BY <2>1 DEF Spawned
<1>5. CASE RemoveBegin \/ RemoveEnd \/ ResetTasks \/ KillReturns
  <2>1. \/ lead' = [pc |-> "idle", name |-> Nobody]
        \/ lead.pc = "undo" /\ lead' = [pc |-> "undoing", name |-> lead.name]
        \/ \E pc \in {"removing", "reset"} : lead' = [pc |-> pc, name |-> lead.name]
    BY <1>5 DEF RemoveBegin, RemoveEnd, ResetTasks, KillReturns, Back, Lead
  <2> QED
    BY <2>1 DEF Spawned
<1>6. CASE \E by \in {"lead", "operator"} : KillStart(by)
  BY <1>6 DEF KillStart, Lead, Spawned
<1> QED
  BY <1>1, <1>2, <1>3, <1>4, <1>5, <1>6, LeadStays DEF Session

LEMMA PlacesStep == TypeOK /\ Places /\ [Next]_vars => Places'
  BY FilingStep, FilesKept, MovesStep, HomeKept, SpawnedStep DEF Places

LEMMA PlacesInit == Init => Places
<1> SUFFICES ASSUME Init PROVE Places
  OBVIOUS
<1> QED
  BY SomeName DEF Init, Places, Home, Whose, Spawned, Bare, Fresh, Empty

-----------------------------------------------------------------------------
(* A deleted team comes back by a write begun before, or a creation. *)

LEMMA BackStep ==
  ASSUME TypeOK, Places, [Next]_vars, ~team, team'
  PROVE  \/ history'.creates > history.creates
         \/ \E s \in sections \ sections' : s.gen < gen
<1>1. Filing
  BY FilingStep DEF Places
<1>2. Ends \/ Creates
  BY <1>1 DEF Filing, Aside, Begins, Drops, Removes
<1>3. CASE Ends
  <2>1. PICK s \in sections :
          /\ sections' = sections \ {s} /\ UNCHANGED gen
          /\ \/ UNCHANGED <<team, rows>>
             \/ team' = TRUE /\ (s.op = "cli" => s.read # Empty)
    BY <1>3 DEF Ends
  <2>2. s.gen <= gen /\ s.gen # gen
    BY <2>1 DEF Places, Fresh
  <2>3. s.gen \in Nat /\ gen \in Nat
    BY SectionTypes DEF TypeOK, FilesOK
  <2> QED
    BY <2>1, <2>2, <2>3
<1> QED
  BY <1>2, <1>3 DEF Creates

\* A team that was deleted comes back only when it is created again, or by the
\* write of a section that was begun before the deletion.
THEOREM NoTeamReturnsByItself == Spec => BackOnlyByLateWrite
<1>1. /\ TypeOK /\ Places /\ [Next]_vars
      => [~team /\ team' => \/ history'.creates > history.creates
                            \/ \E s \in sections \ sections' : s.gen < gen]_vars
  BY BackStep
<1> QED
  BY <1>1, TypesInit, TypesStep, PlacesInit, PlacesStep, PTL DEF Spec, BackOnlyByLateWrite

-----------------------------------------------------------------------------
(* The roster tells who is up.  As long as no directory was removed under a  *)
(* section, a section is the only one and has read the rows that are there:  *)
(* what it writes is a change of them.                                       *)

Single == \A s \in sections : s.gen = gen /\ s.read = rows

\* Nobody gets into the roster, and who gets out is marked as removed.
Keeps ==
  \A n \in Names :
    /\ n \in Listed' => n \in Listed
    /\ n \in Listed \/ n \in history.removed => n \in Listed' \/ n \in history'.removed

\* One gets in, a teammate or an adapter that joins.
Puts ==
  \E m \in Names :
    /\ m \in Listed' /\ (kill # "off" => m \in history'.back)
    /\ m \in Natives \/ proc'[m] = "joining"
    /\ \A n \in Names \ {m} : /\ n \in Listed' <=> n \in Listed
                              /\ n \in history.removed => n \in history'.removed

\* An adapter gets out by itself.
Quits ==
  \E m \in Adapters :
    /\ m \notin Listed' /\ proc'[m] = "left"
    /\ \A n \in Names \ {m} : n \in Listed' <=> n \in Listed
    /\ history'.removed = history.removed

Rosters == Keeps \/ Puts \/ Quits

LEMMA InRoster ==
  /\ \A n \in Names : n \in Listed <=> rows[n] # "none"
  /\ \A n \in Names : n \in Listed' <=> rows'[n] # "none"
  BY DEF Listed

LEMMA Unwritten ==
  ASSUME UNCHANGED rows, \A n \in history.removed : n \in history'.removed
  PROVE  Keeps
  BY InRoster DEF Keeps

LEMMA RostersRegister ==
  ASSUME TypeOK, Places, Single, NEW n \in Names, RegisterEnd(n)
  PROVE  Rosters
<1>1. PICK s \in Of("register", n), upgraded \in BOOLEAN :
        IF s.read[n] = "none"
        THEN /\ WriteMaking([s.read EXCEPT ![n] = "inproc"])
             /\ history' = [history EXCEPT !.removed = @ \ {n},
                               !.back = IF kill = "off" THEN @ ELSE @ \union {n}]
        ELSE /\ IF upgraded THEN WriteMaking(s.read) ELSE UNCHANGED <<team, dir, rows>>
             /\ UNCHANGED history
  BY DEF RegisterEnd
<1>2. s.read = rows /\ rows \in [Names -> Row]
  BY <1>1 DEF Of, Single, TypeOK, FilesOK
<1>3. proc'[n] = "joining"
  BY DEF RegisterEnd, Proc, TypeOK, PeopleOK
<1>4. CASE rows[n] = "none"
  <2>1. rows' = [rows EXCEPT ![n] = "inproc"]
    BY <1>1, <1>2, <1>4 DEF WriteMaking
  <2>2. /\ history'.removed = history.removed \ {n}
        /\ kill # "off" => n \in history'.back
    <3>1. PICK b : b = IF kill = "off" THEN history.back ELSE history.back \union {n}
      OBVIOUS
    <3>2. history' = [history EXCEPT !.removed = history.removed \ {n}, !.back = b]
      BY <1>1, <1>2, <1>4, <3>1
    <3> QED
      BY <3>1, <3>2 DEF TypeOK, HistoryOK
  <2>3. /\ \A m \in Names \ {n} : m \in Listed' <=> m \in Listed
        /\ n \in Listed'
    BY <1>2, <2>1, InRoster
  <2> QED
    BY <1>3, <2>2, <2>3 DEF Rosters, Puts
<1>5. CASE rows[n] # "none"
  <2>1. rows' = rows /\ history' = history
    BY <1>1, <1>2, <1>5 DEF WriteMaking
  <2> QED
    BY <2>1, Unwritten DEF Rosters
<1> QED
  BY <1>4, <1>5

LEMMA RostersDeregister ==
  ASSUME TypeOK, Places, Single, NEW n \in Names, DeregisterEnd(n)
  PROVE  Rosters
<1>1. PICK s \in Of("deregister", n) :
        IF s.read[n] # "none" THEN WriteMaking([s.read EXCEPT ![n] = "none"])
                              ELSE UNCHANGED <<team, dir, rows>>
  BY DEF DeregisterEnd
<1>2. s.read = rows /\ rows \in [Names -> Row] /\ n \in Adapters
  BY <1>1 DEF Of, Single, TypeOK, FilesOK, Places, Whose
<1>3. proc'[n] = "left" /\ history' = history
  BY DEF DeregisterEnd, Proc, TypeOK, PeopleOK
<1>4. rows'[n] = "none" /\ \A m \in Names \ {n} : rows'[m] = rows[m]
  BY <1>1, <1>2 DEF WriteMaking
<1> QED
  BY <1>2, <1>3, <1>4, InRoster DEF Rosters, Quits

\* A member is taken out by another, and marked.
LEMMA TakenOut ==
  ASSUME TypeOK, NEW n \in Names, rows' = [rows EXCEPT ![n] = "none"], Mark("removed", {n})
  PROVE  Keeps
<1>1. history'.removed = history.removed \union {n}
  BY DEF Mark, TypeOK, HistoryOK
<1>2. rows'[n] = "none" /\ \A m \in Names \ {n} : rows'[m] = rows[m]
  BY DEF TypeOK, FilesOK
<1> QED
  BY <1>1, <1>2, InRoster DEF Keeps

LEMMA RostersAdd ==
  ASSUME TypeOK, Places, Single, AddEnd
  PROVE  Rosters
<1>1. PICK s \in Of("lead", lead.name) :
        \/ /\ Write([s.read EXCEPT ![lead.name] = "new"])
           /\ history' = [history EXCEPT
                !.back = IF kill = "off" THEN @ ELSE @ \union {lead.name},
                !.removed = @ \ {lead.name}]
        \/ UNCHANGED <<team, dir, rows, history>>
  BY DEF AddEnd
<1>2. s.read = rows /\ rows \in [Names -> Row] /\ lead.name \in Natives /\ lead.name \in Names
  BY <1>1, LeadIs DEF AddEnd, Of, Single, TypeOK, FilesOK, Places, Spawned
<1>3. CASE UNCHANGED <<rows, history>>
  BY <1>3, Unwritten DEF Rosters
<1>4. CASE ~UNCHANGED <<rows, history>>
  <2>1. rows' = [rows EXCEPT ![lead.name] = "new"]
    BY <1>1, <1>2, <1>4 DEF Write
  <2>2. /\ history'.removed = history.removed \ {lead.name}
        /\ kill # "off" => lead.name \in history'.back
    BY <1>1, <1>4 DEF TypeOK, HistoryOK
  <2>3. /\ \A m \in Names \ {lead.name} : m \in Listed' <=> m \in Listed
        /\ lead.name \in Listed'
    BY <1>2, <2>1, InRoster
  <2> QED
    BY <1>2, <2>2, <2>3 DEF Rosters, Puts
<1> QED
  BY <1>3, <1>4

LEMMA RostersSet ==
  ASSUME TypeOK, Single, SetPaneEnd
  PROVE  Keeps
<1>1. PICK s \in Of("lead", lead.name) :
        \/ Write([s.read EXCEPT ![lead.name] = IF @ = "none" THEN @ ELSE "pane"])
        \/ UNCHANGED <<team, dir, rows>>
  BY DEF SetPaneEnd
<1>2. s.read = rows /\ rows \in [Names -> Row] /\ history' = history
  BY <1>1 DEF SetPaneEnd, Of, Single, TypeOK, FilesOK
<1>3. \A m \in Names : rows'[m] = "none" <=> rows[m] = "none"
  BY <1>1, <1>2 DEF Write
<1> QED
  BY <1>2, <1>3, InRoster DEF Keeps

LEMMA RostersRemove ==
  ASSUME TypeOK, Single, RemoveEnd \/ \E n \in Names : ForceRemoveEnd(n)
  PROVE  Keeps
<1>1. PICK n \in Names, s \in sections :
        \/ Write([s.read EXCEPT ![n] = "none"]) /\ Mark("removed", {n})
        \/ UNCHANGED <<rows, history>>
  BY LeadIs DEF RemoveEnd, ForceRemoveEnd, Of
<1>2. s.read = rows
  BY <1>1 DEF Single
<1> QED
  BY <1>1, <1>2, TakenOut, Unwritten DEF Write

LEMMA RostersCommand ==
  ASSUME TypeOK, Single, PruneEnd \/ PatchEnd
  PROVE  Keeps
<1>1. CASE PruneEnd
  <2>1. PICK s \in sections, dead \in SUBSET Names :
          /\ dead = {n \in Names : Dead(s.read[n]) /\ n \notin cli.live}
          /\ IF dead = {} THEN UNCHANGED <<team, dir, rows, history>>
             ELSE /\ WriteMaking([n \in Names |-> IF n \in dead THEN "none" ELSE s.read[n]])
                  /\ Mark("removed", {n \in dead : s.read[n] = "pane"})
    BY <1>1 DEF PruneEnd
  <2>2. s.read = rows
    BY <2>1 DEF Single
  <2>3. CASE dead = {}
    BY <2>1, <2>3, Unwritten
  <2>4. CASE dead # {}
    <3>1. \A n \in Names : rows'[n] = IF n \in dead THEN "none" ELSE rows[n]
      BY <2>1, <2>2, <2>4 DEF WriteMaking
    <3>2. history'.removed = history.removed \union {n \in dead : rows[n] = "pane"}
      BY <2>1, <2>2, <2>4 DEF Mark, TypeOK, HistoryOK
    <3>3. \A n \in dead : rows[n] = "pane"
      BY <2>1, <2>2 DEF Dead
    <3> QED
      BY <3>1, <3>2, <3>3, InRoster DEF Keeps
  <2> QED
    BY <2>3, <2>4
<1>2. CASE PatchEnd
  <2>1. PICK s \in sections : WriteMaking(s.read) \/ UNCHANGED <<team, dir, rows>>
    BY <1>2 DEF PatchEnd
  <2>2. UNCHANGED <<rows, history>>
    BY <1>2, <2>1 DEF PatchEnd, Single, WriteMaking
  <2> QED
    BY <2>2, Unwritten
<1> QED
  BY <1>1, <1>2

LEMMA RostersEmpty ==
  ASSUME TypeOK, TeamCreate \/ DeleteTeams \/ PurgeTeams
  PROVE  Keeps
<1>1. CASE UNCHANGED <<rows, history>>
  BY <1>1, Unwritten
<1>2. CASE rows' = Empty /\ history'.removed = Names
  BY <1>2, InRoster DEF Keeps, Empty
<1>3. TeamCreate => rows' = Empty /\ history'.removed = Names
  BY DEF TeamCreate, WriteMaking, TypeOK, HistoryOK
<1>4. DeleteTeams \/ PurgeTeams =>
        \/ UNCHANGED <<rows, history>>
        \/ rows' = Empty /\ history'.removed = Names
  BY DEF DeleteTeams, PurgeTeams, RemoveTeams, TypeOK, HistoryOK
<1> QED
  BY <1>1, <1>2, <1>3, <1>4

\* All other steps leave the rows.
Elsewhere ==
  \/ \E n \in Names : \/ Start(n) \/ RegisterBegin(n) \/ Join(n) \/ Leave(n)
                      \/ DeregisterBegin(n) \/ Work(n) \/ Crash(n)
                      \/ SpawnTeammate(n) \/ KillTeammate(n) \/ ForceKill(n)
                      \/ ForceRemoveBegin(n) \/ ForceReset(n) \/ ForceClean(n)
  \/ TeamDelete \/ DeleteTasks \/ Isolate \/ AddBegin \/ StartPane \/ SetPaneBegin
  \/ RemoveBegin \/ ResetTasks \/ Lifespan
  \/ \E by \in {"lead", "operator"} : KillStart(by)
  \/ AskAll \/ WaitEnds \/ PickRemaining \/ ForcedAll
  \/ PurgeReads \/ PurgeTasks \/ TeamKillCompleted \/ KillReturns
  \/ PruneLook \/ TeamAgent \/ TeamPatch \/ PruneBegin \/ PatchBegin
  \/ UNCHANGED vars

Rest == /\ UNCHANGED <<rows, gen>>
        /\ \/ UNCHANGED history
           \/ history' = [history EXCEPT !.starts = @ + 1]
           \/ history' = [history EXCEPT !.crashes = @ + 1]

LEMMA RostersRest ==
  ASSUME TypeOK, Elsewhere
  PROVE  /\ Keeps /\ UNCHANGED <<rows, gen>>
         /\ history'.removed = history.removed /\ history'.back = history.back
         /\ history'.torn = history.torn /\ history'.crashes >= history.crashes
<1>1. ASSUME NEW n \in Names,
             \/ Start(n) \/ RegisterBegin(n) \/ Join(n) \/ Leave(n)
             \/ DeregisterBegin(n) \/ Work(n) \/ Crash(n)
      PROVE  Rest
  BY <1>1 DEF Rest, Start, RegisterBegin, Join, Leave, DeregisterBegin, Work, Crash, fs
<1>2. ASSUME NEW n \in Names,
             \/ SpawnTeammate(n) \/ KillTeammate(n) \/ ForceKill(n)
             \/ ForceRemoveBegin(n) \/ ForceReset(n) \/ ForceClean(n)
      PROVE  Rest
  BY <1>2 DEF Rest, SpawnTeammate, KillTeammate, ForceKill, ForceRemoveBegin, ForceReset, ForceClean, fs
<1>3. ASSUME \/ TeamDelete \/ DeleteTasks \/ Isolate \/ AddBegin \/ StartPane \/ SetPaneBegin
             \/ RemoveBegin \/ ResetTasks \/ Lifespan
      PROVE  Rest
  BY <1>3 DEF Rest, TeamDelete, DeleteTasks, Isolate, AddBegin, StartPane, SetPaneBegin, RemoveBegin,
              ResetTasks, Lifespan, fs
<1>4. ASSUME \/ \E by \in {"lead", "operator"} : KillStart(by)
             \/ AskAll \/ WaitEnds \/ PickRemaining \/ ForcedAll
             \/ PurgeReads \/ PurgeTasks \/ TeamKillCompleted \/ KillReturns
      PROVE  Rest
  BY <1>4 DEF Rest, KillStart, AskAll, WaitEnds, PickRemaining, ForcedAll, PurgeReads, PurgeTasks,
              TeamKillCompleted, KillReturns, fs
<1>5. ASSUME PruneLook \/ TeamAgent \/ TeamPatch \/ PruneBegin \/ PatchBegin \/ UNCHANGED vars
      PROVE  Rest
  BY <1>5 DEF Rest, PruneLook, TeamAgent, TeamPatch, PruneBegin, PatchBegin, fs, vars
<1>6. Rest
  BY <1>1, <1>2, <1>3, <1>4, <1>5 DEF Elsewhere
<1> QED
  BY <1>6, Unwritten DEF Rest, TypeOK, HistoryOK

Writers ==
  \/ \E n \in Names : RegisterEnd(n) \/ DeregisterEnd(n) \/ ForceRemoveEnd(n)
  \/ AddEnd \/ SetPaneEnd \/ RemoveEnd \/ PruneEnd \/ PatchEnd
  \/ TeamCreate \/ DeleteTeams \/ PurgeTeams

LEMMA StepSplit == [Next]_vars => Elsewhere \/ Writers
<1> SUFFICES ASSUME [Next]_vars PROVE Elsewhere \/ Writers
  OBVIOUS
<1>1. ASSUME NEW n \in Names,
             \/ Start(n) \/ Adapter(n) \/ Work(n) \/ Crash(n)
             \/ SpawnTeammate(n) \/ KillTeammate(n) \/ Forced(n)
      PROVE  Elsewhere \/ Writers
  BY <1>1 DEF Adapter, Forced, Elsewhere, Writers
<1>2. ASSUME TeamCreate \/ TeamDelete \/ Session \/ Lifespan PROVE Elsewhere \/ Writers
  BY <1>2 DEF Session, Elsewhere, Writers
<1>3. ASSUME \/ \E by \in {"lead", "operator"} : KillStart(by)
             \/ Teardown \/ PruneLook \/ TeamAgent \/ TeamPatch \/ Commands
      PROVE  Elsewhere \/ Writers
  BY <1>3 DEF Teardown, Commands, Elsewhere, Writers
<1> QED
  BY <1>1, <1>2, <1>3 DEF Next, Elsewhere

LEMMA RostersStep == TypeOK /\ Places /\ Single /\ [Next]_vars => Rosters
<1> SUFFICES ASSUME TypeOK, Places, Single, [Next]_vars PROVE Rosters
  OBVIOUS
<1>1. CASE Elsewhere
  BY <1>1, RostersRest DEF Rosters
<1>2. CASE Writers
  BY <1>2, RostersRegister, RostersDeregister, RostersAdd, RostersSet, RostersRemove,
     RostersCommand, RostersEmpty DEF Writers, Rosters
<1> QED
  BY <1>1, <1>2, StepSplit

\* A directory removed under a section stays in the history; so does who came
\* back.
LEMMA PastStays ==
  TypeOK /\ [Next]_vars =>
    /\ history.torn => history'.torn
    /\ history.back \subseteq history'.back
    /\ history'.crashes >= history.crashes
<1> SUFFICES ASSUME TypeOK, [Next]_vars
             PROVE  /\ history.torn => history'.torn
                    /\ history.back \subseteq history'.back
                    /\ history'.crashes >= history.crashes
  OBVIOUS
<1>0. history.crashes \in Nat
  BY DEF TypeOK, HistoryOK
<1>1. CASE Elsewhere
  BY <1>1, RostersRest
<1>2. CASE UNCHANGED history
  BY <1>0, <1>2
<1>3. ASSUME NEW removed, NEW back, history.back \subseteq back,
             history' = [history EXCEPT !.removed = removed, !.back = back]
      PROVE  /\ history.torn => history'.torn
             /\ history.back \subseteq history'.back
             /\ history'.crashes >= history.crashes
  BY <1>3 DEF TypeOK, HistoryOK
<1>4. ASSUME NEW n \in Names, RegisterEnd(n)
      PROVE  \/ UNCHANGED history
             \/ \E removed, back : /\ history.back \subseteq back
                                   /\ history' = [history EXCEPT !.removed = removed, !.back = back]
  <2>1. PICK b : b = IF kill = "off" THEN history.back ELSE history.back \union {n}
    OBVIOUS
  <2>2. PICK r : r = history.removed \ {n}
    OBVIOUS
  <2>3. UNCHANGED history \/ history' = [history EXCEPT !.removed = r, !.back = b]
    BY <1>4, <2>1, <2>2 DEF RegisterEnd
  <2>4. history.back \subseteq b
    BY <2>1
  <2> QED
    BY <2>3, <2>4
<1>5. ASSUME AddEnd
      PROVE  \/ UNCHANGED history
             \/ \E removed, back : /\ history.back \subseteq back
                                   /\ history' = [history EXCEPT !.removed = removed, !.back = back]
  <2>1. PICK b : b = IF kill = "off" THEN history.back ELSE history.back \union {lead.name}
    OBVIOUS
  <2>2. PICK r : r = history.removed \ {lead.name}
    OBVIOUS
  <2>3. UNCHANGED history \/ history' = [history EXCEPT !.removed = r, !.back = b]
    BY <1>5, <2>1, <2>2 DEF AddEnd
  <2>4. history.back \subseteq b
    BY <2>1
  <2> QED
    BY <2>3, <2>4
<1>6. ASSUME \/ \E n \in Names : DeregisterEnd(n) \/ ForceRemoveEnd(n)
             \/ SetPaneEnd \/ RemoveEnd \/ PruneEnd \/ PatchEnd
      PROVE  UNCHANGED history \/ \E names : Mark("removed", names)
  BY <1>6 DEF DeregisterEnd, ForceRemoveEnd, SetPaneEnd, RemoveEnd, PruneEnd, PatchEnd
<1>7. ASSUME NEW names, Mark("removed", names)
      PROVE  /\ history.torn => history'.torn
             /\ history.back \subseteq history'.back
             /\ history'.crashes >= history.crashes
  BY <1>7 DEF Mark, TypeOK, HistoryOK
<1>8. ASSUME TeamCreate \/ DeleteTeams \/ PurgeTeams
      PROVE  /\ history.torn => history'.torn
             /\ history.back \subseteq history'.back
             /\ history'.crashes >= history.crashes
  <2>1. CASE UNCHANGED history
    BY <2>1, <1>0
  <2>2. CASE TeamCreate
    BY <2>2, <1>0 DEF TeamCreate, TypeOK, HistoryOK
  <2>3. CASE history' = [history EXCEPT !.removed = Names, !.torn = @ \/ sections # {}]
    BY <2>3, <1>0 DEF TypeOK, HistoryOK
  <2> QED
    BY <1>8, <2>1, <2>2, <2>3 DEF DeleteTeams, PurgeTeams, RemoveTeams
<1> QED
  BY <1>1, <1>2, <1>3, <1>4, <1>5, <1>6, <1>7, <1>8, StepSplit DEF Writers

LEMMA SingleStep ==
  ASSUME TypeOK, Places, Single, [Next]_vars, ~history'.torn
  PROVE  Single'
<1>1. Filing
  BY FilingStep DEF Places
<1>2. \A s, t \in sections : s # t => s.gen # t.gen
  BY DEF TypeOK, FilesOK
<1>3. CASE Aside \/ Drops
  BY <1>3 DEF Aside, Drops, Single
<1>4. CASE Begins
  <2>1. PICK op \in Ops, n \in Names :
          LockFree /\ Enter(op, n) /\ UNCHANGED <<team, gen, rows>>
    BY <1>4 DEF Begins
  <2>2. PICK new : new = [op |-> op, name |-> n, read |-> rows, gen |-> gen]
    OBVIOUS
  <2>3. new.read = rows /\ new.gen = gen /\ sections' = sections \union {new}
    BY <2>1, <2>2 DEF Enter
  <2>4. sections = {}
    BY <2>1 DEF LockFree, Single
  <2> QED
    BY <2>1, <2>3, <2>4 DEF Single
<1>5. CASE Ends
  <2>1. PICK s \in sections : sections' = sections \ {s}
    BY <1>5 DEF Ends
  <2>2. sections' = {}
    BY <1>2, <2>1 DEF Single
  <2> QED
    BY <2>2 DEF Single
<1>6. CASE Removes
  BY <1>6 DEF Removes, Single
<1>7. CASE Creates
  BY <1>7 DEF Creates, LockFree, Single
<1> QED
  BY <1>1, <1>3, <1>4, <1>5, <1>6, <1>7 DEF Filing

\* Who is up, or about to be, is in the roster or was removed by others; who
\* has left is not in it.
Known ==
  \A n \in Names :
    /\ proc[n] \in {"joining", "up"} => n \in Listed \/ n \in history.removed
    /\ proc[n] = "left" => n \notin Listed
Paned == lead.pc = "pane" => lead.name \in Listed \/ lead.name \in history.removed

\* Where the processes get to.
Arrives ==
  \A n \in Names :
    /\ proc'[n] \in {"joining", "up"} =>
         \/ proc[n] \in {"joining", "up"} \/ n \in Listed'
         \/ lead.pc = "pane" /\ n = lead.name
    /\ proc'[n] = "left" => proc[n] = "left" \/ n \notin Listed'

LEMMA Arrived ==
  ASSUME TypeOK, NEW n \in Names, NEW p, Proc(n, p) \/ UNCHANGED proc,
         p \in {"joining", "up"} =>
           \/ proc[n] \in {"joining", "up"} \/ n \in Listed'
           \/ lead.pc = "pane" /\ n = lead.name,
         p = "left" => n \notin Listed'
  PROVE  Arrives
  BY DEF Arrives, Proc, TypeOK, PeopleOK

LEMMA ArrivesStep == TypeOK /\ Places /\ Single /\ [Next]_vars => Arrives
<1> SUFFICES ASSUME TypeOK, Places, Single, [Next]_vars PROVE Arrives
  OBVIOUS
<1>1. ASSUME UNCHANGED proc PROVE Arrives
  BY <1>1 DEF Arrives
<1>2. ASSUME NEW n \in Names, Adapter(n) PROVE Arrives
  <2>1. CASE RegisterBegin(n) \/ Join(n) \/ Leave(n)
    BY <2>1, Arrived DEF RegisterBegin, Join, Leave
  <2>2. CASE DeregisterBegin(n)
    <3>1. Proc(n, "deregistering") \/ (Proc(n, "left") /\ ~team /\ UNCHANGED rows)
      BY <2>2 DEF DeregisterBegin
    <3>2. ~team /\ UNCHANGED rows => n \notin Listed'
      BY InRoster DEF Places, Bare, Empty
    <3> QED
      BY <3>1, <3>2, Arrived
  <2>3. CASE RegisterEnd(n)
    <3>1. n \in Listed'
      <4>1. PICK s \in Of("register", n), upgraded \in BOOLEAN :
              IF s.read[n] = "none"
              THEN WriteMaking([s.read EXCEPT ![n] = "inproc"])
              ELSE IF upgraded THEN WriteMaking(s.read) ELSE UNCHANGED <<team, dir, rows>>
        BY <2>3 DEF RegisterEnd
      <4>2. s.read = rows /\ rows \in [Names -> Row]
        BY <4>1 DEF Of, Single, TypeOK, FilesOK
      <4> QED
        BY <4>1, <4>2, InRoster DEF WriteMaking
    <3> QED
      BY <2>3, <3>1, Arrived DEF RegisterEnd
  <2>4. CASE DeregisterEnd(n)
    <3>1. n \notin Listed'
      <4>1. PICK s \in Of("deregister", n) :
              IF s.read[n] # "none" THEN WriteMaking([s.read EXCEPT ![n] = "none"])
                                    ELSE UNCHANGED <<team, dir, rows>>
        BY <2>4 DEF DeregisterEnd
      <4>2. s.read = rows /\ rows \in [Names -> Row]
        BY <4>1 DEF Of, Single, TypeOK, FilesOK
      <4> QED
        BY <4>1, <4>2, InRoster DEF WriteMaking
    <3> QED
      BY <2>4, <3>1, Arrived DEF DeregisterEnd
  <2> QED
    BY <1>2, <2>1, <2>2, <2>3, <2>4 DEF Adapter
<1>3. ASSUME NEW n \in Names, Start(n) \/ Crash(n) \/ KillTeammate(n) \/ ForceKill(n)
      PROVE  Arrives
  BY <1>3, Arrived DEF Start, Crash, KillTeammate, ForceKill
<1>4. CASE StartPane
  BY <1>4, Arrived, LeadIs DEF StartPane
<1> QED
  BY <1>1, <1>2, <1>3, <1>4, ProcStays

\* The call waits for a pane since it has entered the new member.
LEMMA PaneFrom ==
  TypeOK /\ Places /\ Single /\ [Next]_vars =>
    (lead'.pc = "pane" => \/ lead.pc = "pane" /\ lead'.name = lead.name
                          \/ lead'.name \in Listed')
<1> SUFFICES ASSUME TypeOK, Places, Single, [Next]_vars, lead'.pc = "pane"
             PROVE  \/ lead.pc = "pane" /\ lead'.name = lead.name
                    \/ lead'.name \in Listed'
  OBVIOUS
<1>0. \A pc, n : Lead(pc, n) => lead'.pc = pc
  BY DEF Lead
<1>1. CASE UNCHANGED lead
  BY <1>1
<1>2. ASSUME NEW n \in Names, SpawnTeammate(n) \/ KillTeammate(n) PROVE FALSE
  BY <1>2 DEF SpawnTeammate, KillTeammate, Lead
<1>3. ASSUME TeamDelete \/ DeleteTeams \/ DeleteTasks \/ Isolate \/ Lifespan
      PROVE  UNCHANGED lead
  BY <1>3 DEF TeamDelete, DeleteTeams, RemoveTeams, DeleteTasks, Isolate, Lifespan, Back, Lead
<1>4. CASE AddEnd
  <2>1. PICK s \in Of("lead", lead.name) :
          Write([s.read EXCEPT ![lead.name] = "new"]) /\ Lead("pane", lead.name)
    BY <1>0, <1>4 DEF AddEnd, Back
  <2>2. s.read = rows /\ rows \in [Names -> Row] /\ lead.name \in Names
    BY <2>1, LeadIs DEF Of, Single, TypeOK, FilesOK
  <2>3. rows' = [rows EXCEPT ![lead.name] = "new"] /\ lead'.name = lead.name
    BY <2>1, <2>2 DEF Write, Lead
  <2> QED
    BY <2>2, <2>3, InRoster
<1>5. ASSUME AddBegin \/ StartPane \/ SetPaneBegin \/ SetPaneEnd PROVE FALSE
  BY <1>0, <1>5 DEF AddBegin, StartPane, SetPaneBegin, SetPaneEnd, Back
<1>6. ASSUME RemoveBegin \/ RemoveEnd \/ ResetTasks \/ KillReturns PROVE FALSE
  <2>1. PICK pc : pc = IF lead.pc = "undo" THEN "undoing" ELSE "removing"
    OBVIOUS
  <2> QED
    BY <1>0, <1>6, <2>1 DEF RemoveBegin, RemoveEnd, ResetTasks, KillReturns, Back
<1>7. ASSUME \E by \in {"lead", "operator"} : KillStart(by) PROVE UNCHANGED lead
  BY <1>7 DEF KillStart, Lead
<1> QED
  BY <1>1, <1>2, <1>3, <1>4, <1>5, <1>6, <1>7, LeadStays DEF Session

LEMMA KnownStep ==
  ASSUME TypeOK, Places, Single, Known, Paned, [Next]_vars
  PROVE  Known' /\ Paned'
<1>1. Rosters /\ Arrives
  BY RostersStep, ArrivesStep
<1>2. Places' /\ TypeOK'
  BY PlacesStep, TypesStep
<1>3. ASSUME NEW n \in Names, n \in Listed \/ n \in history.removed,
             ~(n \in Adapters /\ proc'[n] = "left")
      PROVE  n \in Listed' \/ n \in history'.removed
  BY <1>1, <1>3 DEF Rosters, Keeps, Puts, Quits
<1>4. Adapters \intersect Natives = {} /\ Natives \subseteq Names
  BY RosterAssumption DEF Names
<1>5. ASSUME lead.pc = "pane"
      PROVE  /\ lead.name \in Names /\ lead.name \notin Adapters
             /\ lead.name \in Listed' \/ lead.name \in history'.removed
  <2>1. lead.name \in Natives
    BY <1>5 DEF Places, Spawned
  <2> QED
    BY <1>3, <1>4, <1>5, <2>1 DEF Paned
<1>6. Paned'
  <2>1. lead'.pc = "pane" => \/ lead.pc = "pane" /\ lead'.name = lead.name
                             \/ lead'.name \in Listed'
    BY PaneFrom
  <2> QED
    BY <1>5, <2>1 DEF Paned
<1>7. ASSUME NEW n \in Names, proc'[n] \in {"joining", "up"}
      PROVE  n \in Listed' \/ n \in history'.removed
  <2>1. \/ proc[n] \in {"joining", "up"} \/ n \in Listed'
        \/ lead.pc = "pane" /\ n = lead.name
    BY <1>1, <1>7 DEF Arrives
  <2> QED
    BY <1>3, <1>5, <1>7, <2>1 DEF Known
<1>8. ASSUME NEW n \in Names, proc'[n] = "left" PROVE n \notin Listed'
  <2>1. n \notin Natives
    BY <1>2, <1>8 DEF Places, Home
  <2>2. n \notin Listed \/ n \notin Listed'
    BY <1>1, <1>8 DEF Arrives, Known
  <2> QED
    BY <1>1, <1>8, <2>1, <2>2 DEF Rosters, Keeps, Puts, Quits
<1> QED
  BY <1>6, <1>7, <1>8 DEF Known

\* Who is left after the force was tried on him is reported, or has come back.
Spared ==
  \A n \in initial \intersect Listed :
    /\ kill = "forcing" => \/ stage[n] \in {"kill", "remove", "removing"}
                           \/ n \in errors \/ n \in history.back
    /\ kill \in {"purge", "teams", "tasks", "purged", "event", "done"} =>
         n \in errors \/ n \in history.back

LEMMA SparedRest ==
  ASSUME TypeOK, Places, Single, Spared, [Next]_vars, UNCHANGED <<kill, stage, initial, errors>>
  PROVE  Spared'
<1>1. Rosters /\ history.back \subseteq history'.back
  BY RostersStep, PastStays
<1>2. \A n \in initial : n \in Names
  BY DEF TypeOK, DownOK
<1>3. ASSUME NEW n \in Names, n \in Listed', n \notin Listed PROVE kill = "off" \/ n \in history'.back
  BY <1>1, <1>3 DEF Rosters, Keeps, Puts, Quits
<1> QED
  BY <1>1, <1>2, <1>3 DEF Spared

LEMMA SparedForced ==
  ASSUME TypeOK, Places, Single, Spared, [Next]_vars, NEW n \in Names, Forced(n)
  PROVE  Spared'
<1>0. /\ initial \subseteq Names /\ stage \in [Names -> {"off", "kill", "remove", "removing", "reset",
                                                      "clean", "done"}]
      /\ history.back \subseteq history'.back
  BY PastStays DEF TypeOK, DownOK
<1>1. ASSUME UNCHANGED <<kill, initial, errors, rows>>, NEW t,
             stage' = [stage EXCEPT ![n] = t],
             stage[n] \in {"kill", "remove", "removing"} => t \in {"kill", "remove", "removing"}
      PROVE  Spared'
  BY <1>0, <1>1 DEF Spared, Listed
<1>2. CASE ForceKill(n)
  BY <1>1, <1>2 DEF ForceKill, Stage, fixed, fs
<1>3. CASE ForceReset(n) \/ ForceClean(n)
  BY <1>1, <1>3 DEF ForceReset, ForceClean, Stage, fixed, fs
<1>4. CASE ForceRemoveBegin(n)
  <2>1. CASE team
    BY <1>1, <1>4, <2>1 DEF ForceRemoveBegin, Stage, fixed
  <2>2. CASE ~team
    <3>1. Listed' = {}
      BY <1>4, <2>2, InRoster DEF ForceRemoveBegin, Places, Bare, Empty, Listed
    <3> QED
      BY <3>1 DEF Spared
  <2> QED
    BY <2>1, <2>2
<1>5. CASE ForceRemoveEnd(n)
  <2>1. Keeps /\ UNCHANGED <<kill, initial>> /\ stage' = [stage EXCEPT ![n] = "reset"]
        /\ errors \subseteq errors'
    BY <1>5, RostersRemove DEF ForceRemoveEnd, Stage, fixed
  <2>2. n \notin Listed' \/ n \in errors'
    <3>1. PICK s \in sections : Write([s.read EXCEPT ![n] = "none"]) \/ n \in errors'
      BY <1>5 DEF ForceRemoveEnd, Of
    <3>2. s.read \in [Names -> Row]
      BY <3>1, SectionTypes
    <3> QED
      BY <3>1, <3>2, InRoster DEF Write
  <2>3. \A m \in Names : m \in Listed' => m \in Listed
    BY <2>1 DEF Keeps
  <2> QED
    BY <1>0, <2>1, <2>2, <2>3 DEF Spared
<1> QED
  BY <1>2, <1>3, <1>4, <1>5 DEF Forced

LEMMA SparedTeardown ==
  ASSUME TypeOK, Places, Single, Spared, [Next]_vars,
         Teardown \/ \E by \in {"lead", "operator"} : KillStart(by)
  PROVE  Spared'
<1>0. initial \subseteq Names /\ history.back \subseteq history'.back
  BY PastStays DEF TypeOK, DownOK
<1>1. CASE \/ \E by \in {"lead", "operator"} : KillStart(by)
           \/ AskAll \/ WaitEnds
  <2>1. kill' \in {"asking", "waiting", "second"}
    BY <1>1 DEF KillStart, AskAll, WaitEnds
  <2> QED
    BY <2>1 DEF Spared
<1>2. CASE PickRemaining
  <2>1. kill' = "forcing" /\ UNCHANGED <<rows, initial>>
    BY <1>2 DEF PickRemaining, fs
  <2>2. \A n \in initial \intersect Listed : team
    BY <1>0, InRoster DEF Places, Bare, Empty
  <2>3. \A n \in initial \intersect Listed : stage'[n] = "kill"
    BY <1>0, <1>2, <2>2 DEF PickRemaining
  <2> QED
    BY <2>1, <2>3 DEF Spared, Listed
<1>3. CASE ForcedAll
  <2>1. UNCHANGED <<rows, initial, errors, history>> /\ kill = "forcing"
        /\ \A n \in Names : stage[n] \in {"off", "done"}
    BY <1>3 DEF ForcedAll, fs, fixed
  <2>2. kill' \in {"purge", "event"}
    BY <1>3 DEF ForcedAll
  <2> QED
    BY <1>0, <2>1, <2>2 DEF Spared, Listed
<1>4. CASE PurgeTeams
  <2>1. Keeps /\ UNCHANGED <<initial, errors>> /\ kill = "teams" /\ kill' \in {"tasks", "event"}
    BY <1>4, RostersEmpty DEF PurgeTeams, RemoveTeams, fixed
  <2>2. \A n \in Names : n \in Listed' => n \in Listed
    BY <2>1 DEF Keeps
  <2> QED
    BY <1>0, <2>1, <2>2 DEF Spared
<1>5. CASE PurgeReads \/ PurgeTasks \/ TeamKillCompleted \/ KillReturns
  <2>1. /\ UNCHANGED <<rows, initial, errors, history>>
        /\ kill \in {"purge", "tasks", "purged", "event", "done"}
        /\ kill' \in {"teams", "event", "purged", "done"}
    BY <1>5 DEF PurgeReads, PurgeTasks, TeamKillCompleted, KillReturns, fs, fixed
  <2> QED
    BY <2>1 DEF Spared, Listed
<1> QED
  BY <1>1, <1>2, <1>3, <1>4, <1>5 DEF Teardown

LEMMA SparedStep ==
  ASSUME TypeOK, Places, Single, Spared, [Next]_vars
  PROVE  Spared'
<1>1. UNCHANGED down => UNCHANGED <<kill, stage, initial, errors>>
  BY DEF down
<1> QED
  BY <1>1, DownStays, SparedRest, SparedForced, SparedTeardown

Whole == ~history.torn => Single /\ Known /\ Paned /\ Spared

LEMMA WholeStep == TypeOK /\ Places /\ Whole /\ [Next]_vars => Whole'
<1> SUFFICES ASSUME TypeOK, Places, Whole, [Next]_vars, ~history'.torn
             PROVE  (Single /\ Known /\ Paned /\ Spared)'
  BY DEF Whole
<1>1. Single /\ Known /\ Paned /\ Spared
  BY PastStays DEF Whole
<1> QED
  BY <1>1, SingleStep, KnownStep, SparedStep

LEMMA WholeInit == Init => Whole
  BY DEF Init, Whole, Single, Known, Paned, Spared, Listed, Empty

\* As long as no directory is removed under a section, no registration gets
\* lost between the others' read and write.
THEOREM RosterTellsWhoIsUp == Spec => []RosterTells
<1>1. Whole => RosterTells
  BY DEF Whole, Known, RosterTells
<1> QED
  BY <1>1, TypesInit, TypesStep, PlacesInit, PlacesStep, WholeInit, WholeStep, PTL DEF Spec

-----------------------------------------------------------------------------
(* Who is in which section.  These hold with directories removed under       *)
(* sections, too.                                                            *)

Own == {"register", "deregister"}
InOwn == {"registering", "deregistering"}
InLead == {"adding", "setting", "undoing", "removing"}

\* An adapter has one section, and so has the lead's session.
Apart ==
  \A s, t \in sections : s # t =>
    /\ ~(s.op = "lead" /\ t.op = "lead")
    /\ ~(s.op \in Own /\ t.op \in Own /\ s.name = t.name)
Held ==
  \A s \in sections :
    /\ s.op \in Own => proc[s.name] \in InOwn
    /\ s.op = "lead" => lead.pc \in InLead

\* An adapter has no pane.
Plain ==
  \A n \in Adapters :
    /\ rows[n] \in {"none", "inproc"} /\ target[n] \in {"none", "inproc"}
    /\ \A s \in sections : s.read[n] \in {"none", "inproc"}

\* Before a teardown nobody is asked to leave, and nobody is forced to.
Calm ==
  kill = "off" =>
    /\ asked = {} /\ \A n \in Names : proc[n] # "leaving" /\ stage[n] = "off"
    /\ \A s \in sections : s.op \notin {"deregister", "kill"}

\* The operator does one or the other.
Plans ==
  /\ kill # "off" => plan = "teardown"
  /\ plan = "teardown" => cli.pc = "off" /\ \A s \in sections : s.op # "cli"

Bystanders == Apart /\ Held /\ Plain /\ Calm /\ Plans

\* No row of an adapter is one of a pane.
LEMMA PlainStep == TypeOK /\ Places /\ Plain /\ [Next]_vars => Plain'
<1> SUFFICES ASSUME TypeOK, Places, Plain, [Next]_vars PROVE Plain'
  OBVIOUS
<1> DEFINE P == {"none", "inproc"}
<1>0. /\ \A n \in Adapters : n \in Names
      /\ rows \in [Names -> Row] /\ target \in [Names -> Row]
      /\ \A s \in sections : s.read \in [Names -> Row]
  BY SectionTypes, SomeName DEF TypeOK, FilesOK, DownOK
<1>1. Filing
  BY FilingStep DEF Places
<1>2. \A n \in Adapters : rows'[n] \in P
  <2>1. CASE Elsewhere
    BY <2>1, RostersRest DEF Plain
  <2>2. ASSUME NEW n \in Names, RegisterEnd(n) PROVE \A m \in Adapters : rows'[m] \in P
    <3>1. PICK s \in sections : \/ UNCHANGED rows \/ rows' = s.read
                                \/ rows' = [s.read EXCEPT ![n] = "inproc"]
      BY <2>2 DEF RegisterEnd, Of, WriteMaking
    <3> QED
      BY <1>0, <3>1 DEF Plain
  <2>3. ASSUME NEW n \in Names, DeregisterEnd(n) \/ ForceRemoveEnd(n)
        PROVE  \A m \in Adapters : rows'[m] \in P
    <3>1. PICK s \in sections : UNCHANGED rows \/ rows' = [s.read EXCEPT ![n] = "none"]
      BY <2>3 DEF DeregisterEnd, ForceRemoveEnd, Of, WriteMaking, Write
    <3> QED
      BY <1>0, <3>1 DEF Plain
  <2>4. CASE AddEnd \/ SetPaneEnd
    <3>1. PICK s \in sections, r \in Row : UNCHANGED rows \/ rows' = [s.read EXCEPT ![lead.name] = r]
      <4>1. CASE AddEnd
        BY <4>1 DEF AddEnd, Of, Write, Row
      <4>2. CASE SetPaneEnd
        <5>1. PICK s \in sections :
                \/ Write([s.read EXCEPT ![lead.name] = IF @ = "none" THEN @ ELSE "pane"])
                \/ UNCHANGED <<team, dir, rows>>
          BY <4>2 DEF SetPaneEnd, Of
        <5>2. PICK r : r = IF s.read[lead.name] = "none" THEN s.read[lead.name] ELSE "pane"
          OBVIOUS
        <5> QED
          BY <5>1, <5>2 DEF Write, Row
      <4> QED
        BY <2>4, <4>1, <4>2
    <3>2. lead.name \notin Adapters
      BY <2>4, RosterAssumption DEF AddEnd, SetPaneEnd, Places, Spawned
    <3> QED
      BY <1>0, <3>1, <3>2 DEF Plain
  <2>5. CASE RemoveEnd
    <3>1. PICK s \in sections : UNCHANGED rows \/ rows' = [s.read EXCEPT ![lead.name] = "none"]
      BY <2>5 DEF RemoveEnd, Of, Write
    <3> QED
      BY <1>0, <3>1 DEF Plain
  <2>6. CASE PruneEnd \/ PatchEnd
    <3>1. PICK s \in sections, dead \in SUBSET Names :
            \/ UNCHANGED rows \/ rows' = s.read
            \/ rows' = [n \in Names |-> IF n \in dead THEN "none" ELSE s.read[n]]
      BY <2>6 DEF PruneEnd, PatchEnd, WriteMaking
    <3> QED
      BY <1>0, <3>1 DEF Plain
  <2>7. CASE TeamCreate \/ DeleteTeams \/ PurgeTeams
    <3>1. UNCHANGED rows \/ rows' = Empty
      BY <2>7 DEF TeamCreate, DeleteTeams, PurgeTeams, RemoveTeams, WriteMaking
    <3> QED
      BY <1>0, <3>1 DEF Plain, Empty
  <2> QED
    BY <2>1, <2>2, <2>3, <2>4, <2>5, <2>6, <2>7, StepSplit DEF Writers
<1>3. \A s \in sections', n \in Adapters : s.read[n] \in P
  <2>1. sections' \subseteq sections \/ Begins
    BY <1>1 DEF Filing, Aside, Ends, Drops, Removes, Creates
  <2>2. CASE Begins
    <3>1. \A s \in sections' : s \in sections \/ s.read = rows
      BY <2>2 DEF Begins, Enter
    <3> QED
      BY <3>1 DEF Plain
  <2> QED
    BY <2>1, <2>2 DEF Plain
<1>4. \A n \in Adapters : target'[n] \in P
  <2>1. CASE UNCHANGED target
    BY <2>1 DEF Plain
  <2>2. ASSUME NEW n \in Names, Forced(n) PROVE \A m \in Adapters : target'[m] \in P
    <3>1. UNCHANGED target \/ target' = [target EXCEPT ![n] = "none"]
      BY <2>2 DEF Forced, ForceKill, ForceRemoveBegin, ForceRemoveEnd, ForceReset, ForceClean, fixed
    <3> QED
      BY <1>0, <3>1 DEF Plain
  <2>3. CASE PickRemaining
    <3>1. PICK remaining : target' = [n \in Names |-> IF n \in remaining THEN rows[n] ELSE "none"]
      BY <2>3 DEF PickRemaining
    <3> QED
      BY <1>0, <3>1 DEF Plain
  <2>4. UNCHANGED down => UNCHANGED target
    BY DEF down
  <2>5. ASSUME \/ \E by \in {"lead", "operator"} : KillStart(by)
               \/ AskAll \/ WaitEnds \/ ForcedAll
               \/ PurgeReads \/ PurgeTeams \/ PurgeTasks \/ TeamKillCompleted \/ KillReturns
        PROVE  UNCHANGED target
    BY <2>5 DEF KillStart, AskAll, WaitEnds, ForcedAll, PurgeReads, PurgeTeams, PurgeTasks,
                TeamKillCompleted, KillReturns, fixed
  <2> QED
    BY <2>1, <2>2, <2>3, <2>4, <2>5, DownStays DEF Teardown
<1> QED
  BY <1>2, <1>3, <1>4 DEF Plain

\* Who is in a section stays in it until it ends.
OwnKept == \A s \in sections \intersect sections' : s.op \in Own => proc'[s.name] = proc[s.name]
LeadKept == \A s \in sections \intersect sections' : s.op = "lead" => lead'.pc = lead.pc

LEMMA OwnKeptStep == TypeOK /\ Places /\ Apart /\ Held /\ Plain /\ [Next]_vars => OwnKept
<1> SUFFICES ASSUME TypeOK, Places, Apart, Held, Plain, [Next]_vars PROVE OwnKept
  OBVIOUS
<1>0. /\ \A s \in sections : s.op \in Own => s.name \in Adapters /\ proc[s.name] \in InOwn
      /\ Adapters \intersect Natives = {} /\ \A s \in sections : s.name \in Names
      /\ \A n \in Adapters : rows[n] # "pane" /\ target[n] # "pane"
  BY RosterAssumption, SectionTypes DEF Places, Whose, Held, Own, Plain
<1>1. ASSUME UNCHANGED proc PROVE OwnKept
  BY <1>1 DEF OwnKept
<1>2. ASSUME NEW n \in Names, NEW p, Proc(n, p), n \notin Adapters \/ proc[n] \notin InOwn
      PROVE  OwnKept
  BY <1>0, <1>2 DEF OwnKept, Proc, TypeOK, PeopleOK
<1>3. ASSUME NEW n \in Names, NEW p, Proc(n, p),
             \A s \in sections \intersect sections' : ~(s.op \in Own /\ s.name = n)
      PROVE  OwnKept
  BY <1>0, <1>3 DEF OwnKept, Proc, TypeOK, PeopleOK
<1>4. ASSUME NEW n \in Names, Adapter(n) PROVE OwnKept
  <2>1. CASE RegisterBegin(n) \/ Join(n) \/ Leave(n) \/ DeregisterBegin(n)
    BY <1>2, <2>1 DEF RegisterBegin, Join, Leave, DeregisterBegin, InOwn
  <2>2. CASE RegisterEnd(n) \/ DeregisterEnd(n)
    <3>1. PICK s \in sections : /\ s.op \in Own /\ s.name = n /\ sections' = sections \ {s}
                                /\ Proc(n, "joining") \/ Proc(n, "left")
      BY <2>2 DEF RegisterEnd, DeregisterEnd, Of, Own
    <3>2. \A t \in sections \intersect sections' : ~(t.op \in Own /\ t.name = n)
      BY <3>1 DEF Apart
    <3> QED
      BY <1>3, <3>1, <3>2
  <2> QED
    BY <1>4, <2>1, <2>2 DEF Adapter
<1>5. ASSUME NEW n \in Names, Start(n) PROVE OwnKept
  BY <1>2, <1>5 DEF Start, InOwn
<1>6. ASSUME NEW n \in Names, Crash(n) PROVE OwnKept
  BY <1>3, <1>6 DEF Crash, Of, Own
<1>7. ASSUME NEW n \in Names, KillTeammate(n) PROVE OwnKept
  BY <1>0, <1>1, <1>2, <1>7 DEF KillTeammate
<1>8. ASSUME NEW n \in Names, ForceKill(n) PROVE OwnKept
  BY <1>0, <1>1, <1>2, <1>8 DEF ForceKill
<1>9. CASE StartPane
  <2>1. lead.name \notin Adapters /\ lead.name \in Names
    BY <1>0, <1>9, LeadIs DEF StartPane, Places, Spawned
  <2> QED
    BY <1>1, <1>2, <1>9, <2>1 DEF StartPane
<1> QED
  BY <1>1, <1>4, <1>5, <1>6, <1>7, <1>8, <1>9, ProcStays

LEMMA LeadKeptStep == TypeOK /\ Places /\ Apart /\ Held /\ [Next]_vars => LeadKept
<1> SUFFICES ASSUME TypeOK, Places, Apart, Held, [Next]_vars PROVE LeadKept
  OBVIOUS
<1>1. ASSUME UNCHANGED lead \/ lead.pc \notin InLead PROVE LeadKept
  BY <1>1 DEF LeadKept, Held
<1>2. ASSUME NEW n \in Names, SpawnTeammate(n) \/ KillTeammate(n) PROVE lead.pc \notin InLead
  BY <1>2 DEF SpawnTeammate, KillTeammate, Idle, InLead
<1>3. ASSUME TeamDelete \/ DeleteTeams \/ DeleteTasks \/ Isolate PROVE lead.pc \notin InLead
  BY <1>3 DEF TeamDelete, DeleteTeams, DeleteTasks, Isolate, Idle, InLead
<1>4. CASE Lifespan
  BY <1>4 DEF Lifespan, LeadKept
<1>5. ASSUME \/ AddBegin \/ StartPane \/ SetPaneBegin \/ RemoveBegin \/ ResetTasks \/ KillReturns
      PROVE  lead.pc \notin InLead
  BY <1>5 DEF AddBegin, StartPane, SetPaneBegin, RemoveBegin, ResetTasks, KillReturns, InLead
<1>6. CASE AddEnd \/ SetPaneEnd \/ RemoveEnd
  <2>1. PICK s \in sections : s.op = "lead" /\ sections' = sections \ {s}
    BY <1>6 DEF AddEnd, SetPaneEnd, RemoveEnd, Of
  <2> QED
    BY <2>1 DEF LeadKept, Apart
<1>7. ASSUME \E by \in {"lead", "operator"} : KillStart(by)
      PROVE  UNCHANGED lead \/ lead.pc \notin InLead
  BY <1>7 DEF KillStart, Idle, InLead
<1> QED
  BY <1>1, <1>2, <1>3, <1>4, <1>5, <1>6, <1>7, LeadStays DEF Session

\* A section that is new is one that its owner begins now.
LEMMA HeldStep ==
  ASSUME TypeOK, Filing, Apart, Held, OwnKept, LeadKept
  PROVE  Apart' /\ Held'
<1>1. sections' \subseteq sections \/ Begins
  BY DEF Filing, Aside, Ends, Drops, Removes, Creates
<1>2. CASE sections' \subseteq sections
  <2>1. Apart'
    BY <1>2 DEF Apart
  <2>2. Held'
    BY <1>2 DEF Held, OwnKept, LeadKept
  <2> QED
    BY <2>1, <2>2
<1>3. CASE Begins
  <2>1. PICK op \in Ops, n \in Names :
          /\ Enter(op, n)
          /\ op = "register" => proc[n] = "starting" /\ Proc(n, "registering")
          /\ op = "deregister" => proc[n] = "leaving" /\ Proc(n, "deregistering")
          /\ op = "lead" => /\ lead.pc \in {"add", "set", "undo", "remove"}
                            /\ lead'.pc \in {"adding", "setting", "undoing", "removing"}
    BY <1>3 DEF Begins
  <2>2. PICK new : new = [op |-> op, name |-> n, read |-> rows, gen |-> gen]
    OBVIOUS
  <2>3. new.op = op /\ new.name = n /\ sections' = sections \union {new}
    BY <2>1, <2>2 DEF Enter
  <2>4. op \in Own => proc[n] \notin InOwn /\ proc'[n] \in InOwn
    BY <2>1 DEF Own, InOwn, Proc, TypeOK, PeopleOK
  <2>5. op = "lead" => lead.pc \notin InLead /\ lead'.pc \in InLead
    BY <2>1 DEF InLead
  <2>6. Held'
    BY <2>3, <2>4, <2>5 DEF Held, OwnKept, LeadKept
  <2>7. Apart'
    BY <2>3, <2>4, <2>5 DEF Apart, Held
  <2> QED
    BY <2>6, <2>7
<1> QED
  BY <1>1, <1>2, <1>3

\* Nobody is asked, and no adapter leaves, before the teardown.
LEMMA PlansStep == TypeOK /\ Places /\ Plans /\ [Next]_vars => Plans' /\ UNCHANGED plan /\ (kill # "off" => kill' # "off")
<1> SUFFICES ASSUME TypeOK, Places, Plans, [Next]_vars
             PROVE  Plans' /\ UNCHANGED plan /\ (kill # "off" => kill' # "off")
  OBVIOUS
<1>1. UNCHANGED plan /\ (UNCHANGED cli \/ plan = "commands")
      /\ (kill' = kill \/ kill # "off" \/ plan = "teardown")
      /\ (kill # "off" => kill' # "off")
  <2>1. ASSUME NEW n \in Names,
               \/ Start(n) \/ Adapter(n) \/ Work(n) \/ Crash(n)
               \/ SpawnTeammate(n) \/ KillTeammate(n) \/ Forced(n)
        PROVE  UNCHANGED <<plan, cli, kill>>
    BY <2>1 DEF Start, Adapter, Work, Crash, SpawnTeammate, KillTeammate, RegisterBegin,
                RegisterEnd, Join, Leave, DeregisterBegin, DeregisterEnd, Forced, ForceKill,
                ForceRemoveBegin, ForceRemoveEnd, ForceReset, ForceClean, down, operator
  <2>2. ASSUME TeamCreate \/ TeamDelete \/ Session \/ Lifespan PROVE UNCHANGED <<plan, cli, kill>>
    BY <2>2 DEF TeamCreate, TeamDelete, Session, Lifespan, DeleteTeams, DeleteTasks, Isolate,
                AddBegin, AddEnd, StartPane, SetPaneBegin, SetPaneEnd, RemoveBegin, RemoveEnd,
                ResetTasks, down, operator
  <2>3. ASSUME PruneLook \/ TeamAgent \/ TeamPatch \/ Commands
        PROVE  UNCHANGED <<plan, kill>> /\ plan = "commands"
    <3>1. UNCHANGED <<plan, kill>> /\ (plan = "commands" \/ cli.pc # "off")
      BY <2>3 DEF PruneLook, TeamAgent, TeamPatch, Commands, PruneBegin, PruneEnd, PatchBegin,
                  PatchEnd, down
    <3> QED
      BY <3>1 DEF Plans, TypeOK, OperatorOK
  <2>4. ASSUME \E by \in {"lead", "operator"} : KillStart(by)
        PROVE  UNCHANGED <<plan, cli>> /\ plan = "teardown" /\ kill' # "off"
    BY <2>4 DEF KillStart, operator
  <2>5. ASSUME Teardown PROVE UNCHANGED <<plan, cli>> /\ kill # "off" /\ kill' # "off"
    BY <2>5 DEF Teardown, AskAll, WaitEnds, PickRemaining, ForcedAll, PurgeReads, PurgeTeams,
                RemoveTeams, PurgeTasks, TeamKillCompleted, KillReturns, operator
  <2>6. ASSUME UNCHANGED vars PROVE UNCHANGED <<plan, cli, kill>>
    BY <2>6 DEF vars, operator, down
  <2> QED
    BY <2>1, <2>2, <2>3, <2>4, <2>5, <2>6 DEF Next
<1>2. Filing
  BY FilingStep DEF Places
<1>3. plan = "teardown" => \A s \in sections' : s.op # "cli"
  <2>1. sections' \subseteq sections \/ Begins
    BY <1>2 DEF Filing, Aside, Ends, Drops, Removes, Creates
  <2>2. ASSUME Begins, plan = "teardown" PROVE \A s \in sections' : s.op # "cli"
    <3>1. PICK op \in Ops, n \in Names : Enter(op, n) /\ (op = "cli" => cli.pc \in {"looked", "patch"})
      BY <2>2 DEF Begins
    <3>2. op # "cli"
      BY <2>2, <3>1 DEF Plans
    <3> QED
      BY <2>2, <3>1, <3>2 DEF Enter, Plans
  <2> QED
    BY <2>1, <2>2 DEF Plans
<1> QED
  BY <1>1, <1>3 DEF Plans

LEMMA CalmStep ==
  ASSUME TypeOK, Places, Calm, Plans, [Next]_vars
  PROVE  Calm'
<1> SUFFICES ASSUME kill' = "off" PROVE Calm'
  BY DEF Calm
<1>1. Filing /\ kill = "off"
  BY FilingStep, PlansStep DEF Places
<1>2. asked = {} /\ \A n \in Names : proc[n] # "leaving" /\ stage[n] = "off"
  BY <1>1 DEF Calm
<1>3. \A s \in sections' : s.op \notin {"deregister", "kill"}
  <2>1. sections' \subseteq sections \/ Begins
    BY <1>1 DEF Filing, Aside, Ends, Drops, Removes, Creates
  <2>2. CASE Begins
    <3>1. PICK op \in Ops, n \in Names :
            Enter(op, n) /\ (op = "deregister" => proc[n] = "leaving")
                         /\ (op = "kill" => stage[n] = "remove")
      BY <2>2 DEF Begins
    <3>2. op \notin {"deregister", "kill"}
      BY <1>2, <3>1
    <3> QED
      BY <1>1, <3>1, <3>2 DEF Enter, Calm
  <2> QED
    BY <1>1, <2>1, <2>2 DEF Calm
<1>4. asked' = {} /\ UNCHANGED stage
  <2>1. ASSUME NEW n \in Names,
               \/ Start(n) \/ Adapter(n) \/ Work(n) \/ Crash(n)
               \/ SpawnTeammate(n) \/ KillTeammate(n)
        PROVE  asked' = {} /\ UNCHANGED stage
    BY <1>2, <2>1 DEF Start, Adapter, Work, Crash, SpawnTeammate, KillTeammate, RegisterBegin,
                RegisterEnd, Join, Leave, DeregisterBegin, DeregisterEnd, down, people
  <2>2. ASSUME TeamCreate \/ TeamDelete \/ Session \/ Lifespan
        PROVE  asked' = {} /\ UNCHANGED stage
    BY <1>2, <2>2 DEF TeamCreate, TeamDelete, Session, Lifespan, DeleteTeams, RemoveTeams,
                DeleteTasks, Isolate, AddBegin, AddEnd, StartPane, SetPaneBegin, SetPaneEnd,
                RemoveBegin, RemoveEnd, ResetTasks, down, people
  <2>3. ASSUME PruneLook \/ TeamAgent \/ TeamPatch \/ Commands \/ UNCHANGED vars
        PROVE  asked' = {} /\ UNCHANGED stage
    BY <1>2, <2>3 DEF PruneLook, TeamAgent, TeamPatch, Commands, PruneBegin, PruneEnd, PatchBegin,
                PatchEnd, down, people, vars
  <2>4. ASSUME NEW n \in Names, Forced(n) PROVE stage[n] # "off"
    <3>1. ForceRemoveEnd(n) => \E s \in sections : s.op = "kill"
      BY DEF ForceRemoveEnd, Of
    <3>2. ~ForceRemoveEnd(n)
      BY <1>1, <3>1 DEF Calm
    <3> QED
      BY <2>4, <3>2 DEF Forced, ForceKill, ForceRemoveBegin, ForceReset, ForceClean
  <2>5. ASSUME Teardown PROVE kill # "off"
    BY <2>5 DEF Teardown, AskAll, WaitEnds, PickRemaining, ForcedAll, PurgeReads, PurgeTeams,
                PurgeTasks, TeamKillCompleted, KillReturns
  <2>6. ASSUME \E by \in {"lead", "operator"} : KillStart(by) PROVE kill' # "off"
    BY <2>6 DEF KillStart
  <2> QED
    BY <1>1, <1>2, <2>1, <2>2, <2>3, <2>4, <2>5, <2>6 DEF Next
<1>5. \A n \in Names : proc'[n] # "leaving"
  <2>1. ASSUME NEW n \in Names, Leave(n) PROVE FALSE
    BY <1>2, <2>1 DEF Leave
  <2>2. UNCHANGED proc \/ \E n \in Names : \E p : Proc(n, p) /\ p # "leaving"
    <3>1. ASSUME NEW n \in Names, Adapter(n)
          PROVE  \E p \in {"registering", "dead", "joining", "up", "deregistering", "left"} : Proc(n, p)
      BY <2>1, <3>1 DEF Adapter, RegisterBegin, RegisterEnd, Join, DeregisterBegin, DeregisterEnd
    <3>2. ASSUME NEW n \in Names, Start(n) \/ Crash(n) \/ KillTeammate(n) \/ ForceKill(n)
          PROVE  UNCHANGED proc \/ \E p \in {"starting", "dead"} : Proc(n, p)
      BY <3>2 DEF Start, Crash, KillTeammate, ForceKill
    <3>3. StartPane => UNCHANGED proc \/ Proc(lead.name, "up")
      BY DEF StartPane
    <3> QED
      BY <3>1, <3>2, <3>3, LeadIs, ProcStays
  <2> QED
    BY <1>2, <2>2 DEF Proc, TypeOK, PeopleOK
<1> QED
  BY <1>2, <1>3, <1>4, <1>5 DEF Calm

-----------------------------------------------------------------------------
(* Whom the teardown has taken out stays out, whatever section was begun     *)
(* before: so a teammate who is torn down is not killed in the roster again  *)
(* after his tasks were reset.                                               *)

\* No row of his is in the file, and none that will be written.
Gone(n) == rows[n] = "none" /\ \A s \in sections : s.read[n] = "none"
Past(n) == Gone(n) \/ n \in history.back

\* A section of a removed directory knows no teammate; one at the lock's file
\* knows a teammate only while somebody is in the roster.
Stale(n) ==
  /\ \A s \in sections :
       /\ s.gen < gen => s.read[n] = "none" \/ n \in history.back
       /\ s.gen < gen /\ s.op # "register" => kill # "off" /\ Past(n)
       /\ s.gen = gen /\ s.read[n] # "none" => Listed # {} \/ n \in history.back
  /\ lead.pc = "teams" \/ kill = "teams" \/ stage[n] \in {"reset", "clean", "done"} => Past(n)
Stales == plan = "teardown" => \A n \in Natives : Stale(n)

\* Where a teammate's row comes from.
LEMMA RowFrom ==
  ASSUME TypeOK, Places, [Next]_vars, NEW n \in Natives, rows'[n] # "none"
  PROVE  \/ rows[n] # "none" \/ \E s \in sections : s.read[n] # "none"
         \/ n \in history'.back \/ (kill = "off" /\ lead.pc = "adding")
<1>0. /\ n \in Names /\ n \notin Adapters
      /\ rows \in [Names -> Row] /\ \A s \in sections : s.read \in [Names -> Row]
  BY SectionTypes, SomeName, RosterAssumption DEF TypeOK, FilesOK
<1>1. CASE Elsewhere
  BY <1>1, RostersRest
<1>2. ASSUME NEW m \in Names, RegisterEnd(m)
      PROVE  rows[n] # "none" \/ \E s \in sections : s.read[n] # "none"
  <2>1. PICK s \in sections : /\ s.op = "register" /\ s.name = m
                              /\ \/ UNCHANGED rows \/ rows' = s.read
                                 \/ rows' = [s.read EXCEPT ![m] = "inproc"]
    BY <1>2 DEF RegisterEnd, Of, WriteMaking
  <2>2. m # n
    BY <1>0, <2>1 DEF Places, Whose
  <2> QED
    BY <1>0, <2>1, <2>2
<1>3. ASSUME NEW m \in Names, DeregisterEnd(m) \/ ForceRemoveEnd(m)
      PROVE  rows[n] # "none" \/ \E s \in sections : s.read[n] # "none"
  <2>1. PICK s \in sections : UNCHANGED rows \/ rows' = [s.read EXCEPT ![m] = "none"]
    BY <1>3 DEF DeregisterEnd, ForceRemoveEnd, Of, WriteMaking, Write
  <2> QED
    BY <1>0, <2>1
<1>4. CASE AddEnd
  <2>1. PICK s \in sections :
          \/ /\ rows' = [s.read EXCEPT ![lead.name] = "new"]
             /\ history' = [history EXCEPT
                  !.back = IF kill = "off" THEN @ ELSE @ \union {lead.name},
                  !.removed = @ \ {lead.name}]
          \/ UNCHANGED rows
    BY <1>4 DEF AddEnd, Of, Write
  <2>2. CASE UNCHANGED rows \/ lead.name # n
    BY <1>0, <2>1, <2>2
  <2>3. CASE lead.name = n /\ rows' # rows
    <3>1. PICK r : r = history.removed \ {n}
      OBVIOUS
    <3>2. kill # "off" => history' = [history EXCEPT !.back = history.back \union {n}, !.removed = r]
      BY <2>1, <2>3, <3>1
    <3>3. kill # "off" => n \in history'.back
      BY <3>2 DEF TypeOK, HistoryOK
    <3> QED
      BY <1>4, <3>3 DEF AddEnd
  <2> QED
    BY <2>2, <2>3
<1>5. CASE SetPaneEnd
  <2>1. PICK s \in sections :
          \/ rows' = [s.read EXCEPT ![lead.name] = IF @ = "none" THEN @ ELSE "pane"]
          \/ UNCHANGED rows
    BY <1>5 DEF SetPaneEnd, Of, Write
  <2> QED
    BY <1>0, <2>1
<1>6. CASE RemoveEnd
  <2>1. PICK s \in sections : UNCHANGED rows \/ rows' = [s.read EXCEPT ![lead.name] = "none"]
    BY <1>6 DEF RemoveEnd, Of, Write
  <2> QED
    BY <1>0, <2>1
<1>7. CASE PruneEnd \/ PatchEnd
  <2>1. PICK s \in sections, dead \in SUBSET Names :
          \/ UNCHANGED rows \/ rows' = s.read
          \/ rows' = [m \in Names |-> IF m \in dead THEN "none" ELSE s.read[m]]
    BY <1>7 DEF PruneEnd, PatchEnd, WriteMaking
  <2> QED
    BY <1>0, <2>1
<1>8. CASE TeamCreate \/ DeleteTeams \/ PurgeTeams
  <2>1. UNCHANGED rows \/ rows' = Empty
    BY <1>8 DEF TeamCreate, DeleteTeams, PurgeTeams, RemoveTeams, WriteMaking
  <2> QED
    BY <1>0, <2>1 DEF Empty
<1> QED
  BY <1>1, <1>2, <1>3, <1>4, <1>5, <1>6, <1>7, <1>8, StepSplit DEF Writers

LEMMA PastKept ==
  ASSUME TypeOK, Places, [Next]_vars, NEW n \in Natives, Past(n),
         kill # "off" \/ lead.pc # "adding"
  PROVE  Past(n)'
<1>1. history.back \subseteq history'.back
  BY PastStays
<1>2. CASE Gone(n)
  <2>1. rows'[n] = "none" \/ n \in history'.back
    BY <1>2, RowFrom DEF Gone
  <2>2. \A s \in sections' : s.read[n] = "none"
    <3>1. Filing
      BY FilingStep DEF Places
    <3>2. sections' \subseteq sections \/ Begins
      BY <3>1 DEF Filing, Aside, Ends, Drops, Removes, Creates
    <3>3. \A s \in sections' : s \in sections \/ s.read = rows
      BY <3>2 DEF Begins, Enter
    <3> QED
      BY <1>2, <3>3 DEF Gone
  <2> QED
    BY <2>1, <2>2 DEF Past, Gone
<1> QED
  BY <1>1, <1>2 DEF Past

LEMMA EmptyPast ==
  ASSUME TypeOK, Places, NEW n \in Natives, Stale(n), Listed = {}
  PROVE  Past(n)
<1>1. rows[n] = "none"
  BY InRoster, SomeName
<1>2. \A s \in sections : s.gen < gen \/ s.gen = gen
  BY SectionTypes DEF Places, Fresh, TypeOK, FilesOK
<1> QED
  BY <1>1, <1>2 DEF Stale, Past, Gone

\* The directory is removed by who has seen it empty.
LEMMA Removers ==
  ASSUME TypeOK, Places, [Next]_vars, gen' # gen
  PROVE  Removes /\ (lead.pc = "teams" \/ kill = "teams")
<1>1. Removes
  BY FilingStep DEF Places, Filing, Aside, Begins, Ends, Drops, Creates
<1>2. ASSUME Writers PROVE lead.pc = "teams" \/ kill = "teams"
  BY <1>2 DEF Writers, RegisterEnd, DeregisterEnd, ForceRemoveEnd, AddEnd, SetPaneEnd, RemoveEnd,
              PruneEnd, PatchEnd, TeamCreate, DeleteTeams, PurgeTeams
<1> QED
  BY <1>1, <1>2, RostersRest, StepSplit

LEMMA TeamsFrom ==
  ASSUME TypeOK, [Next]_vars
  PROVE  /\ lead'.pc = "teams" => lead.pc = "teams" \/ (lead.pc = "idle" /\ Listed = {})
         /\ kill' = "teams" => kill = "teams" \/ (kill = "purge" /\ Listed = {})
<1>0. \A pc, n : Lead(pc, n) => lead'.pc = pc
  BY DEF Lead
<1>1. ASSUME lead'.pc = "teams" PROVE lead.pc = "teams" \/ (lead.pc = "idle" /\ Listed = {})
  <2>1. ASSUME NEW n \in Names, SpawnTeammate(n) \/ KillTeammate(n) PROVE FALSE
    BY <1>0, <1>1, <2>1 DEF SpawnTeammate, KillTeammate
  <2>2. CASE TeamDelete
    BY <2>2 DEF TeamDelete, Idle
  <2>3. ASSUME DeleteTeams \/ DeleteTasks \/ Isolate \/ Lifespan PROVE lead.pc = "teams"
    BY <1>0, <1>1, <2>3 DEF DeleteTeams, DeleteTasks, Isolate, Lifespan, Back
  <2>4. ASSUME AddBegin \/ AddEnd \/ StartPane \/ SetPaneBegin \/ SetPaneEnd PROVE FALSE
    BY <1>0, <1>1, <2>4 DEF AddBegin, AddEnd, StartPane, SetPaneBegin, SetPaneEnd, Back
  <2>5. ASSUME RemoveBegin \/ RemoveEnd \/ ResetTasks \/ KillReturns PROVE FALSE
    <3>1. PICK pc : pc = IF lead.pc = "undo" THEN "undoing" ELSE "removing"
      OBVIOUS
    <3> QED
      BY <1>0, <1>1, <2>5, <3>1 DEF RemoveBegin, RemoveEnd, ResetTasks, KillReturns, Back
  <2>6. ASSUME \E by \in {"lead", "operator"} : KillStart(by) PROVE lead.pc = "teams"
    BY <1>0, <1>1, <2>6 DEF KillStart
  <2> QED
    BY <1>1, <2>1, <2>2, <2>3, <2>4, <2>5, <2>6, LeadStays DEF Session
<1>2. ASSUME kill' = "teams" PROVE kill = "teams" \/ (kill = "purge" /\ Listed = {})
  <2>1. CASE UNCHANGED down
    BY <1>2, <2>1 DEF down
  <2>2. ASSUME NEW n \in Names, Forced(n) PROVE UNCHANGED kill
    BY <2>2 DEF Forced, ForceKill, ForceRemoveBegin, ForceRemoveEnd, ForceReset, ForceClean
  <2>3. CASE PurgeReads
    BY <1>2, <2>3 DEF PurgeReads
  <2>4. ASSUME \/ \E by \in {"lead", "operator"} : KillStart(by)
               \/ AskAll \/ WaitEnds \/ PickRemaining \/ ForcedAll
               \/ PurgeTeams \/ PurgeTasks \/ TeamKillCompleted \/ KillReturns
        PROVE  kill = "teams"
    BY <1>2, <2>4 DEF KillStart, AskAll, WaitEnds, PickRemaining, ForcedAll, PurgeTeams,
                RemoveTeams, PurgeTasks, TeamKillCompleted, KillReturns
  <2> QED
    BY <1>2, <2>1, <2>2, <2>3, <2>4, DownStays DEF Teardown
<1> QED
  BY <1>1, <1>2

LEMMA StageFrom ==
  ASSUME TypeOK, [Next]_vars, NEW n \in Names
  PROVE  /\ stage'[n] \in {"reset", "clean", "done"} =>
              \/ stage[n] \in {"reset", "clean", "done"}
              \/ ForceRemoveBegin(n) /\ ~team
              \/ ForceRemoveEnd(n)
         /\ stage'[n] \in {"clean", "done"} => stage[n] \in {"clean", "done"} \/ ForceReset(n)
<1>0. stage \in [Names -> {"off", "kill", "remove", "removing", "reset", "clean", "done"}]
  BY DEF TypeOK, DownOK
<1>1. CASE UNCHANGED stage
  BY <1>1
<1>2. ASSUME NEW m \in Names, m # n, Forced(m) PROVE stage'[n] = stage[n]
  <2>1. \E t : Stage(m, t)
    BY <1>2 DEF Forced, ForceKill, ForceRemoveBegin, ForceRemoveEnd, ForceReset, ForceClean
  <2> QED
    BY <1>0, <1>2, <2>1 DEF Stage
<1>3. CASE ForceKill(n)
  BY <1>0, <1>3 DEF ForceKill, Stage
<1>4. CASE ForceRemoveBegin(n)
  BY <1>0, <1>4 DEF ForceRemoveBegin, Stage
<1>5. CASE ForceRemoveEnd(n)
  BY <1>0, <1>5 DEF ForceRemoveEnd, Stage
<1>6. CASE ForceReset(n)
  BY <1>0, <1>6 DEF ForceReset
<1>7. CASE ForceClean(n)
  BY <1>0, <1>7 DEF ForceClean
<1>8. CASE PickRemaining
  <2>1. stage'[n] \in {"kill", "off"}
    BY <1>8 DEF PickRemaining
  <2> QED
    BY <2>1
<1>9. ASSUME \/ \E by \in {"lead", "operator"} : KillStart(by)
             \/ AskAll \/ WaitEnds \/ ForcedAll
             \/ PurgeReads \/ PurgeTeams \/ PurgeTasks \/ TeamKillCompleted \/ KillReturns
      PROVE  UNCHANGED stage
  BY <1>9 DEF KillStart, AskAll, WaitEnds, ForcedAll, PurgeReads, PurgeTeams, PurgeTasks,
              TeamKillCompleted, KillReturns
<1>10. UNCHANGED down => UNCHANGED stage
  BY DEF down
<1> QED
  BY <1>1, <1>2, <1>3, <1>4, <1>5, <1>6, <1>7, <1>8, <1>9, <1>10, DownStays DEF Teardown, Forced

\* Who was taken out by force is past.
LEMMA ForcedOut ==
  ASSUME TypeOK, Places, Bystanders, [Next]_vars, plan = "teardown", NEW n \in Natives, Stale(n),
         (ForceRemoveBegin(n) /\ ~team) \/ ForceRemoveEnd(n)
  PROVE  Past(n)'
<1>0. n \in Names
  BY SomeName
<1>1. ~team => Listed = {}
  BY InRoster DEF Places, Bare, Empty, Listed
<1>2. kill # "off"
  BY <1>0 DEF Bystanders, Calm, ForceRemoveBegin, ForceRemoveEnd, Of
<1>3. CASE ~team
  BY <1>1, <1>2, <1>3, EmptyPast, PastKept
<1>4. CASE team /\ ForceRemoveEnd(n)
  <2>1. PICK s \in sections : /\ s.op = "kill" /\ sections' = sections \ {s}
                              /\ Write([s.read EXCEPT ![n] = "none"]) \/ ~dir
    BY <1>4 DEF ForceRemoveEnd, Of
  <2>2. dir /\ s.read \in [Names -> Row] /\ \A t \in sections : t.gen \in Nat
    BY <1>4, <2>1, SectionTypes DEF TypeOK, FilesOK
  <2>3. rows'[n] = "none"
    BY <1>0, <2>1, <2>2 DEF Write
  <2>4. history.back \subseteq history'.back
    BY PastStays
  <2>5. CASE s.gen < gen
    <3>1. Past(n)
      BY <2>1, <2>5 DEF Stale
    <3> QED
      BY <1>2, <3>1, PastKept
  <2>6. CASE ~(s.gen < gen)
    <3>1. \A t \in sections' : t.gen < gen
      BY <2>1, <2>2, <2>6 DEF TypeOK, FilesOK, Places, Fresh
    <3>2. \A t \in sections' : t.read[n] = "none" \/ n \in history.back
      BY <2>1, <3>1 DEF Stale
    <3> QED
      BY <2>3, <2>4, <3>2 DEF Past, Gone
  <2> QED
    BY <2>5, <2>6
<1> QED
  BY <1>3, <1>4

\* A section at the lock's file that knows a teammate sees the roster kept.
LEMMA RosterKept ==
  ASSUME TypeOK, Places, Plans, Stales, [Next]_vars, plan = "teardown", NEW n \in Natives,
         NEW u \in sections \intersect sections', u.gen = gen, gen' = gen, u.read[n] # "none"
  PROVE  Listed' # {} \/ n \in history'.back
<1>1. Filing /\ history.back \subseteq history'.back
  BY FilingStep, PastStays DEF Places
<1>2. Stale(n)
  BY DEF Stales
<1>3. CASE n \in history.back
  BY <1>1, <1>3
<1>4. CASE n \notin history.back
  <2>1. Listed # {}
    BY <1>2, <1>4 DEF Stale
  <2>2. CASE UNCHANGED rows
    BY <2>1, <2>2 DEF Listed
  <2>3. CASE ~UNCHANGED rows
    <3>1. Ends
      BY <1>1, <2>3 DEF Filing, Aside, Begins, Drops, Removes, Creates, LockFree, TypeOK, FilesOK
    <3>2. PICK s \in sections :
            /\ sections' = sections \ {s}
            /\ s.op = "register" => \E m \in Names : rows'[m] # "none"
      BY <2>3, <3>1 DEF Ends
    <3>3. s.gen < gen
      <4>1. s.gen # gen /\ s.gen <= gen /\ s.gen \in Nat /\ gen \in Nat
        BY <3>2, SectionTypes DEF TypeOK, FilesOK, Places, Fresh
      <4> QED
        BY <4>1
    <3>4. s.op = "register"
      BY <1>2, <1>4, <3>3 DEF Stale, Past, Gone
    <3> QED
      BY <3>2, <3>4, InRoster
  <2> QED
    BY <2>2, <2>3
<1> QED
  BY <1>3, <1>4

LEMMA StaleSections ==
  ASSUME TypeOK, Places, Bystanders, Stales, [Next]_vars, plan = "teardown", NEW n \in Natives,
         NEW s \in sections'
  PROVE  /\ s.gen < gen' => s.read[n] = "none" \/ n \in history'.back
         /\ s.gen < gen' /\ s.op # "register" => kill' # "off" /\ Past(n)'
         /\ s.gen = gen' /\ s.read[n] # "none" => Listed' # {} \/ n \in history'.back
<1>0. /\ n \in Names /\ Stale(n) /\ gen \in Nat /\ gen' \in Nat
      /\ \A t \in sections : t.gen \in Nat /\ t.gen <= gen /\ t.op \in Ops
  BY SomeName, SectionTypes, TypesStep DEF Stales, TypeOK, FilesOK, Places, Fresh
<1>1. Filing /\ history.back \subseteq history'.back /\ (kill # "off" => kill' # "off")
  BY FilingStep, PastStays, PlansStep DEF Places, Bystanders
<1>2. CASE gen' # gen
  <2>1. /\ gen' = gen + 1 /\ sections' = sections /\ rows' = Empty
        /\ lead.pc = "teams" \/ kill = "teams"
    BY <1>2, Removers DEF Removes
  <2>2. Past(n)
    BY <1>0, <2>1 DEF Stale
  <2>3. s.read[n] = "none" \/ n \in history'.back
    BY <1>1, <2>1, <2>2 DEF Past, Gone
  <2>4. ASSUME s.op # "register" PROVE kill # "off"
    <3>1. SUFFICES ASSUME kill = "off" PROVE FALSE
      OBVIOUS
    <3>2. s.op \notin {"deregister", "kill", "cli"}
      BY <2>1, <3>1 DEF Bystanders, Calm, Plans
    <3>3. s.op # "lead"
      BY <2>1, <3>1 DEF Bystanders, Held, InLead
    <3> QED
      BY <1>0, <2>1, <2>4, <3>2, <3>3 DEF Ops
  <2>5. s.op # "register" => kill' # "off" /\ Past(n)'
    BY <1>1, <2>2, <2>4, PastKept
  <2>6. s.gen # gen'
    BY <1>0, <2>1
  <2> QED
    BY <2>3, <2>5, <2>6
<1>3. CASE gen' = gen /\ s \in sections
  <2>1. s.gen < gen' => s.read[n] = "none" \/ n \in history'.back
    BY <1>0, <1>1, <1>3 DEF Stale
  <2>2. s.gen < gen' /\ s.op # "register" => kill' # "off" /\ Past(n)'
    <3>1. s.gen < gen /\ s.op # "register" => kill # "off" /\ Past(n)
      BY <1>0, <1>3 DEF Stale
    <3> QED
      BY <1>1, <1>3, <3>1, PastKept
  <2>3. s.gen = gen' /\ s.read[n] # "none" => Listed' # {} \/ n \in history'.back
    BY <1>3, RosterKept DEF Bystanders
  <2> QED
    BY <2>1, <2>2, <2>3
<1>4. CASE gen' = gen /\ s \notin sections
  <2>1. s.gen = gen /\ s.read = rows /\ UNCHANGED rows
    BY <1>1, <1>4 DEF Filing, Aside, Begins, Enter, Ends, Drops, Removes, Creates
  <2>2. s.read[n] # "none" => Listed' # {}
    BY <1>0, <2>1, InRoster
  <2> QED
    BY <1>0, <1>4, <2>1, <2>2
<1> QED
  BY <1>2, <1>3, <1>4

LEMMA StalesStep ==
  ASSUME TypeOK, Places, Bystanders, Stales, [Next]_vars
  PROVE  Stales'
<1>1. UNCHANGED plan
  BY PlansStep DEF Bystanders
<1> SUFFICES ASSUME plan = "teardown", NEW n \in Natives PROVE Stale(n)'
  BY <1>1 DEF Stales
<1>2. n \in Names /\ Stale(n)
  BY SomeName DEF Stales
<1>3. lead'.pc = "teams" => Past(n)'
  <2>1. lead'.pc = "teams" => lead.pc \in {"teams", "idle"} /\ Past(n)
    BY <1>2, TeamsFrom, EmptyPast DEF Stale
  <2> QED
    BY <2>1, PastKept
<1>4. kill' = "teams" => Past(n)'
  <2>1. kill' = "teams" => kill # "off" /\ Past(n)
    BY <1>2, TeamsFrom, EmptyPast DEF Stale
  <2> QED
    BY <2>1, PastKept
<1>5. stage'[n] \in {"reset", "clean", "done"} => Past(n)'
  <2>1. CASE stage[n] \in {"reset", "clean", "done"}
    <3>1. kill # "off" /\ Past(n)
      BY <1>2, <2>1 DEF Stale, Bystanders, Calm
    <3> QED
      BY <3>1, PastKept
  <2>2. CASE (ForceRemoveBegin(n) /\ ~team) \/ ForceRemoveEnd(n)
    BY <1>2, <2>2, ForcedOut
  <2> QED
    BY <1>2, <2>1, <2>2, StageFrom
<1>6. \A s \in sections' :
        /\ s.gen < gen' => s.read[n] = "none" \/ n \in history'.back
        /\ s.gen < gen' /\ s.op # "register" => kill' # "off" /\ Past(n)'
        /\ s.gen = gen' /\ s.read[n] # "none" => Listed' # {} \/ n \in history'.back
  BY StaleSections
<1> QED
  BY <1>3, <1>4, <1>5, <1>6 DEF Stale

LEMMA BystandersStep ==
  TypeOK /\ Places /\ Bystanders /\ [Next]_vars => Bystanders'
<1> SUFFICES ASSUME TypeOK, Places, Bystanders, [Next]_vars PROVE Bystanders'
  OBVIOUS
<1>1. Filing /\ OwnKept /\ LeadKept
  BY FilingStep, OwnKeptStep, LeadKeptStep DEF Places, Bystanders
<1> QED
  BY <1>1, HeldStep, PlainStep, CalmStep, PlansStep DEF Bystanders

LEMMA BystandersInit == Init => Bystanders /\ Stales
<1> SUFFICES ASSUME Init PROVE Bystanders /\ Stales
  OBVIOUS
<1>1. Apart /\ Held /\ Plans
  BY DEF Init, Apart, Held, Plans
<1>2. Plain
  BY SomeName DEF Init, Plain, Empty
<1>3. Calm
  BY DEF Init, Calm
<1>4. \A n \in Natives : Stale(n)
  BY SomeName DEF Init, Stale
<1> QED
  BY <1>1, <1>2, <1>3, <1>4 DEF Bystanders, Stales

\* Who was torn down by force and keeps a task runs, or has come back.
Owners ==
  \A n \in owns : stage[n] \in {"clean", "done"} =>
    proc[n] = "up" \/ n \in history.back \/ history.crashes > 0

\* Who stops to run has no task, or is killed.
LEMMA UpFrom ==
  ASSUME TypeOK, Places, Held, [Next]_vars, NEW n \in Names, proc[n] = "up", proc'[n] # "up"
  PROVE  \/ n \notin owns' \/ history'.crashes > 0
         \/ KillTeammate(n) /\ rows[n] = "pane"
         \/ ForceKill(n)
<1>0. proc \in [Names -> {"out", "starting", "registering", "joining", "up",
                          "leaving", "deregistering", "left", "dead"}]
  BY DEF TypeOK, PeopleOK
<1>1. ASSUME NEW m \in Names, NEW p, Proc(m, p) PROVE m = n /\ p # "up"
  BY <1>0, <1>1 DEF Proc
<1>2. ASSUME NEW m \in Names, Adapter(m) PROVE n \notin owns'
  <2>1. CASE RegisterBegin(m) \/ Join(m) \/ DeregisterBegin(m)
    BY <1>1, <2>1 DEF RegisterBegin, Join, DeregisterBegin
  <2>2. CASE Leave(m)
    BY <1>1, <2>2 DEF Leave
  <2>3. CASE RegisterEnd(m) \/ DeregisterEnd(m)
    <3>1. PICK s \in sections : s.op \in Own /\ s.name = m /\ (Proc(m, "joining") \/ Proc(m, "left"))
      BY <2>3 DEF RegisterEnd, DeregisterEnd, Of, Own
    <3>2. m = n
      BY <1>1, <3>1
    <3> QED
      BY <3>1, <3>2 DEF Held, InOwn
  <2> QED
    BY <1>2, <2>1, <2>2, <2>3 DEF Adapter
<1>3. ASSUME NEW m \in Names, Start(m) PROVE FALSE
  BY <1>1, <1>3 DEF Start
<1>4. ASSUME NEW m \in Names, Crash(m) PROVE history'.crashes > 0
  BY <1>4 DEF Crash, TypeOK, HistoryOK
<1>5. ASSUME NEW m \in Names, KillTeammate(m) PROVE KillTeammate(n) /\ rows[n] = "pane"
  <2>1. rows[m] = "pane" /\ Proc(m, "dead")
    BY <1>5 DEF KillTeammate
  <2> QED
    BY <1>1, <1>5, <2>1
<1>6. ASSUME NEW m \in Names, ForceKill(m) PROVE ForceKill(n)
  <2>1. Proc(m, "dead")
    BY <1>6 DEF ForceKill
  <2> QED
    BY <1>1, <1>6, <2>1
<1>7. ~StartPane
  BY <1>1, LeadIs DEF StartPane
<1> QED
  BY <1>2, <1>3, <1>4, <1>5, <1>6, <1>7, ProcStays

\* Only who runs gets a task.
LEMMA OwnsFrom ==
  ASSUME TypeOK, [Next]_vars, NEW n \in owns', n \notin owns
  PROVE  proc'[n] = "up"
<1>1. ASSUME NEW m \in Names, Work(m) PROVE proc'[n] = "up"
  BY <1>1 DEF Work
<1>2. ASSUME NEW m \in Names,
             \/ Start(m) \/ Adapter(m) \/ Crash(m) \/ SpawnTeammate(m) \/ KillTeammate(m)
      PROVE  owns' \subseteq owns
  BY <1>2 DEF Start, Adapter, Crash, SpawnTeammate, KillTeammate, RegisterBegin, RegisterEnd, Join,
              Leave, DeregisterBegin, DeregisterEnd, people
<1>3. ASSUME NEW m \in Names, Forced(m) PROVE owns' \subseteq owns
  BY <1>3 DEF Forced, ForceKill, ForceRemoveBegin, ForceRemoveEnd, ForceReset, ForceClean, people
<1>4. ASSUME TeamCreate \/ TeamDelete \/ Session \/ Lifespan PROVE owns' \subseteq owns
  BY <1>4 DEF TeamCreate, TeamDelete, Session, Lifespan, DeleteTeams, DeleteTasks, Isolate,
              AddBegin, AddEnd, StartPane, SetPaneBegin, SetPaneEnd, RemoveBegin, RemoveEnd,
              ResetTasks, people
<1>5. ASSUME Teardown \/ \E by \in {"lead", "operator"} : KillStart(by) PROVE owns' \subseteq owns
  BY <1>5 DEF KillStart, Teardown, AskAll, WaitEnds, PickRemaining, ForcedAll, PurgeReads,
              PurgeTeams, PurgeTasks, TeamKillCompleted, KillReturns, people
<1>6. ASSUME PruneLook \/ TeamAgent \/ TeamPatch \/ Commands \/ UNCHANGED vars
      PROVE  owns' \subseteq owns
  BY <1>6 DEF PruneLook, TeamAgent, TeamPatch, Commands, PruneBegin, PruneEnd, PatchBegin,
              PatchEnd, people, vars
<1> QED
  BY <1>1, <1>2, <1>3, <1>4, <1>5, <1>6 DEF Next

LEMMA OwnersStep ==
  ASSUME TypeOK, Places, Bystanders, Stales, Owners, [Next]_vars
  PROVE  Owners'
<1> SUFFICES ASSUME NEW n \in owns', stage'[n] \in {"clean", "done"}, proc'[n] # "up"
             PROVE  n \in history'.back \/ history'.crashes > 0
  BY DEF Owners
<1>1. n \in owns /\ n \in Names
  BY OwnsFrom DEF TypeOK, PeopleOK
<1>2. stage[n] \in {"clean", "done"}
  <2>1. stage[n] \in {"clean", "done"} \/ ForceReset(n)
    BY <1>1, StageFrom
  <2> QED
    BY <2>1 DEF ForceReset
<1>3. /\ history.back \subseteq history'.back
      /\ history'.crashes \in Nat /\ history.crashes \in Nat /\ history'.crashes >= history.crashes
  BY PastStays, TypesStep DEF TypeOK, HistoryOK
<1>4. CASE proc[n] # "up"
  <2>1. n \in history.back \/ history.crashes > 0
    BY <1>1, <1>2, <1>4 DEF Owners
  <2> QED
    BY <1>3, <2>1
<1>5. CASE proc[n] = "up"
  <2>1. \/ history'.crashes > 0
        \/ KillTeammate(n) /\ rows[n] = "pane"
        \/ ForceKill(n)
    BY <1>1, <1>5, UpFrom DEF Bystanders
  <2>2. ~ForceKill(n)
    BY <1>2 DEF ForceKill
  <2>3. ASSUME rows[n] = "pane" PROVE n \in history.back
    <3>1. n \in Natives
      BY <1>1, <2>3 DEF Bystanders, Plain, Names
    <3>2. plan = "teardown"
      BY <1>1, <1>2 DEF Bystanders, Calm, Plans
    <3>3. Past(n)
      BY <1>2, <3>1, <3>2 DEF Stales, Stale
    <3> QED
      BY <2>3, <3>3 DEF Past, Gone
  <2> QED
    BY <1>3, <2>1, <2>2, <2>3
<1> QED
  BY <1>4, <1>5

LEMMA OwnersInit == Init => Owners
  BY DEF Init, Owners

TeardownInv == Places /\ Whole /\ Bystanders /\ Stales /\ Owners

LEMMA TeardownStep == TypeOK /\ TeardownInv /\ [Next]_vars => TeardownInv'
  BY PlacesStep, WholeStep, BystandersStep, StalesStep, OwnersStep DEF TeardownInv

LEMMA TeardownInit == Init => TeardownInv
  BY PlacesInit, WholeInit, BystandersInit, OwnersInit DEF TeardownInv

\* After a teardown none of the members it began with is in the roster, but for
\* one it reports an error for and one that has come back; and one that was torn
\* down by force and does not run keeps no task.
THEOREM TeardownIsThorough == Spec => []TeardownLeavesNobody
<1>1. TeardownInv => TeardownLeavesNobody
  <2> SUFFICES ASSUME TeardownInv PROVE TeardownLeavesNobody
    OBVIOUS
  <2>1. kill = "done" /\ ~history.torn => initial \intersect Listed \subseteq errors \union history.back
    BY DEF TeardownInv, Whole, Spared
  <2>2. \A n \in owns : kill = "done" /\ stage[n] = "done" =>
          proc[n] = "up" \/ n \in history.back \/ history.crashes > 0
    BY DEF TeardownInv, Owners
  <2> QED
    BY <2>1, <2>2 DEF TeardownLeavesNobody
<1> QED
  BY <1>1, TypesInit, TypesStep, TeardownInit, TeardownStep, PTL DEF Spec
=============================================================================
