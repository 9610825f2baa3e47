------------------------------- MODULE Roster -------------------------------
(***************************************************************************)
(* The members of a team in config.json: adapters that register and        *)
(* deregister themselves (claude_anyteam/registration.py), the tools of    *)
(* the lead's server that create and delete the team and spawn and kill    *)
(* teammates (claude_teams/teams.py, spawner.py, server.py), and of the    *)
(* operator the teardown of the whole team (claude_teams/teardown.py) and  *)
(* the commands on the roster (claude_anyteam/team_cli.py).  The operator  *)
(* does one or the other: plan says which.                                 *)
(*                                                                         *)
(* Every change of the members is a section under the file's lock that     *)
(* reads all rows, and writes all of them back; a section is two steps     *)
(* here, begun and ended.  The removal of the directory does not take the  *)
(* lock, and takes the lock's file with it.                                *)
(***************************************************************************)
EXTENDS Integers, FiniteSets

CONSTANTS Adapters,    \* start and register themselves
          Natives,     \* are spawned by the lead in a pane
          MaxStarts,   \* bound: starts of adapters and of spawns
          MaxCreates,  \* bound: teams created
          MaxCrashes,  \* bound: adapters that die
          Purge        \* whether the operator's teardown purges

ASSUME RosterAssumption ==
  /\ Adapters \intersect Natives = {} /\ Adapters \union Natives # {}
  /\ MaxStarts \in Nat /\ MaxCreates \in Nat /\ MaxCrashes \in Nat
  /\ Purge \in BOOLEAN

Names == Adapters \union Natives
Nobody == CHOOSE n \in Names : TRUE  \* stands where no name is meant
Row == {"none", "new", "pane", "inproc"}  \* by tmuxPaneId: "new" has none yet

VARIABLES
  team,      \* config.json is there
  dir,       \* the team's directory is there
  board,     \* the directory of its tasks is there
  gen,       \* the number of the lock file at the path
  rows,      \* the members in config.json
  sections,  \* the sections begun and not ended
  proc,      \* where the process of each name is
  asked,     \* names with an unread shutdown request in the inbox
  owns,      \* names that own a task in progress
  plan,      \* what the operator does: "teardown" or "commands"
  cli,       \* where his command is, the panes it saw, the panes since then
  lead,      \* the tool call the lead's session is in, and for whom
  active,    \* ls["active_team"] of the lead's session
  kill,      \* where force_kill_team is
  stage,     \* name -> where _force_cleanup_member is
  target,    \* name -> the row it was given
  initial, errors,
  history    \* what happened: counts, and who was removed by others

fs == <<team, dir, board, gen, rows>>
down == <<kill, stage, target, initial, errors>>
people == <<proc, asked, owns>>
session == <<lead, active>>
operator == <<plan, cli>>
fixed == <<target, initial>>
vars == <<fs, sections, people, session, operator, down, history>>

Empty == [n \in Names |-> "none"]
Listed == {n \in Names : rows[n] # "none"}

Section == [op : {"register", "deregister", "lead", "kill", "cli"}, name : Names,
            read : [Names -> Row], gen : Nat]

FilesOK ==
  /\ team \in BOOLEAN /\ dir \in BOOLEAN /\ board \in BOOLEAN /\ (team => dir)
  /\ gen \in Nat /\ rows \in [Names -> Row]
  /\ sections \subseteq Section /\ \A s, t \in sections : s # t => s.gen # t.gen

PeopleOK ==
  /\ proc \in [Names -> {"out", "starting", "registering", "joining", "up",
                         "leaving", "deregistering", "left", "dead"}]
  /\ asked \subseteq Names /\ owns \subseteq Names

SessionOK ==
  /\ lead \in [pc : {"idle", "isolate", "add", "adding", "pane", "set", "setting",
                     "undo", "undoing", "remove", "removing", "reset", "teams",
                     "tasks", "team"},
               name : Names]
  /\ active \in BOOLEAN

OperatorOK ==
  /\ plan \in {"teardown", "commands"}
  /\ cli \in [pc : {"off", "looked", "pruning", "patch", "patching", "done"},
              live : SUBSET Names]

DownOK ==
  /\ kill \in {"off", "asking", "waiting", "second", "forcing", "purge",
               "teams", "tasks", "purged", "event", "done"}
  /\ stage \in [Names -> {"off", "kill", "remove", "removing", "reset",
                          "clean", "done"}]
  /\ target \in [Names -> Row]
  /\ initial \subseteq Names /\ errors \subseteq Names

HistoryOK ==
  history \in [starts : Nat, creates : Nat, crashes : Nat,
               removed : SUBSET Names, back : SUBSET Names, torn : BOOLEAN]

TypeOK == FilesOK /\ PeopleOK /\ SessionOK /\ OperatorOK /\ DownOK /\ HistoryOK

Init ==
  /\ team = FALSE /\ dir = FALSE /\ board = FALSE
  /\ gen = 1 /\ rows = Empty /\ sections = {}
  /\ proc = [n \in Names |-> "out"]
  /\ asked = {} /\ owns = {}
  /\ lead = [pc |-> "idle", name |-> Nobody]
  /\ plan \in {"teardown", "commands"}
  /\ cli = [pc |-> "off", live |-> {}]
  /\ active = FALSE
  /\ kill = "off" /\ stage = [n \in Names |-> "off"] /\ target = Empty
  /\ initial = {} /\ errors = {}
  /\ history = [starts |-> 0, creates |-> 0, crashes |-> 0,
                removed |-> {}, back |-> {}, torn |-> FALSE]

-----------------------------------------------------------------------------
(* config_lock and the sections under it                                   *)

\* A mutant: the writers take no lock.
LockFree_Always == TRUE

\* Nobody has the lock of the file that is at the path.
LockFree == \A s \in sections : s.gen # gen

\* config_lock makes the directory; the rows are read.
Enter(op, n) ==
  /\ dir' = TRUE
  /\ sections' = sections \union
        {[op |-> op, name |-> n, read |-> rows, gen |-> gen]}

Of(op, n) == {s \in sections : s.op = op /\ s.name = n}

\* registration.py writes with a mkdir of the parents.
WriteMaking(new) == team' = TRUE /\ dir' = TRUE /\ rows' = new

\* teams.py writes next to the file, and raises when the directory is gone.
Write(new) == dir /\ team' = TRUE /\ rows' = new /\ UNCHANGED dir

Mark(f, names) == history' = [history EXCEPT ![f] = @ \union names]
Proc(n, p) == proc' = [proc EXCEPT ![n] = p]

-----------------------------------------------------------------------------
(* An adapter: register, work, deregister                                  *)

Start(n) ==
  /\ n \in Adapters
  /\ proc[n] \in {"out", "left", "dead"}
  /\ history.starts < MaxStarts
  /\ history' = [history EXCEPT !.starts = @ + 1]
  /\ Proc(n, "starting")
  /\ UNCHANGED <<fs, sections, asked, owns, session, down, operator>>

\* A mutant: register does not look whether there is a team.
RegisterBegin_Anyhow(n) ==
  /\ proc[n] = "starting"
  /\ LockFree
  /\ Enter("register", n) /\ Proc(n, "registering")
  /\ UNCHANGED <<team, board, gen, rows, asked, owns, session, down, operator, history>>

\* RegistrationError when there is no config; the directory is made anyhow.
RegisterBegin(n) ==
  /\ proc[n] = "starting"
  /\ LockFree
  /\ IF team THEN Enter("register", n) /\ Proc(n, "registering")
     ELSE dir' = TRUE /\ Proc(n, "dead") /\ UNCHANGED sections
  /\ UNCHANGED <<team, board, gen, rows, asked, owns, session, down, operator, history>>

\* A row that is there is kept, and written only when a field is upgraded.
RegisterEnd(n) == \E s \in Of("register", n) : \E upgraded \in BOOLEAN :
  /\ sections' = sections \ {s}
  /\ Proc(n, "joining")
  /\ IF s.read[n] = "none"
     THEN /\ WriteMaking([s.read EXCEPT ![n] = "inproc"])
          /\ history' = [history EXCEPT !.removed = @ \ {n},
                            !.back = IF kill = "off" THEN @ ELSE @ \union {n}]
     ELSE /\ IF upgraded THEN WriteMaking(s.read) ELSE UNCHANGED <<team, dir, rows>>
          /\ UNCHANGED history
  /\ UNCHANGED <<board, gen, asked, owns, session, down, operator>>

\* The inbox, the manifest and the event of the registration.
Join(n) ==
  /\ proc[n] = "joining"
  /\ dir' = TRUE
  /\ Proc(n, "up")
  /\ UNCHANGED <<team, board, gen, rows, sections, asked, owns, session, down, operator, history>>

\* A process that is up claims a task, and completes it.
Work(n) ==
  /\ proc[n] = "up" /\ board
  /\ owns' = IF n \in owns THEN owns \ {n} ELSE owns \union {n}
  /\ UNCHANGED <<fs, sections, proc, asked, session, down, operator, history>>

\* Between tasks the adapter answers a shutdown request, and ends its loop.
Leave(n) ==
  /\ n \in Adapters /\ proc[n] = "up" /\ n \in asked /\ n \notin owns
  /\ Proc(n, "leaving")
  /\ UNCHANGED <<fs, sections, asked, owns, session, down, operator, history>>

\* With no config it takes no section; the lock may have made the directory.
DeregisterBegin(n) ==
  /\ proc[n] = "leaving"
  /\ LockFree
  /\ IF team THEN Enter("deregister", n) /\ Proc(n, "deregistering") /\ UNCHANGED asked
     ELSE /\ dir' \in {dir, TRUE} /\ Proc(n, "left") /\ asked' = asked \ {n}
          /\ UNCHANGED sections
  /\ UNCHANGED <<team, board, gen, rows, owns, session, down, operator, history>>

\* Then its manifest and its inbox go.
DeregisterEnd(n) == \E s \in Of("deregister", n) :
  /\ sections' = sections \ {s}
  /\ IF s.read[n] # "none" THEN WriteMaking([s.read EXCEPT ![n] = "none"])
                           ELSE UNCHANGED <<team, dir, rows>>
  /\ Proc(n, "left")
  /\ asked' = asked \ {n}
  /\ UNCHANGED <<board, gen, owns, session, down, operator, history>>

Crash(n) ==
  /\ proc[n] \notin {"out", "left", "dead"}
  /\ n \in Natives => plan = "commands"
  /\ history.crashes < MaxCrashes
  /\ history' = [history EXCEPT !.crashes = @ + 1]
  /\ Proc(n, "dead")
  /\ sections' = sections \ (Of("register", n) \union Of("deregister", n))
  /\ UNCHANGED <<fs, asked, owns, session, down, operator>>

-----------------------------------------------------------------------------
(* The removal of a team's directories: delete_team                        *)

\* rmtree of the team's directory; it raises when the directory is not there,
\* and at the end when somebody made a file in it meanwhile.
RemoveTeams(next, failed) ==
  LET busy == sections # {} \/ \E n \in Names : proc[n] = "joining" IN
  \/ /\ dir
     /\ team' = FALSE /\ gen' = gen + 1 /\ rows' = Empty /\ asked' = {}
     /\ history' = [history EXCEPT !.removed = Names,
                                   !.torn = @ \/ sections # {}]
     /\ \/ dir' = FALSE /\ next
        \/ busy /\ dir' = TRUE /\ failed
  \/ ~dir /\ failed /\ UNCHANGED <<team, dir, gen, rows, asked, history>>

-----------------------------------------------------------------------------
(* The lead's session: one tool call at a time                             *)

Lead(pc, n) == lead' = [pc |-> pc, name |-> n]
Idle == lead.pc = "idle"
Back == Lead("idle", Nobody)

\* create_team does not look whether there is a team of that name.
TeamCreate ==
  /\ Idle /\ ~active /\ LockFree
  /\ history.creates < MaxCreates
  /\ history' = [history EXCEPT !.creates = @ + 1, !.removed = Names]
  /\ board' = TRUE /\ WriteMaking(Empty)
  /\ active' = TRUE
  /\ UNCHANGED <<gen, sections, people, lead, down, operator>>

\* app_lifespan: the lead's server dies, in the middle of a call maybe, and
\* another one starts, which has no active team.
Lifespan ==
  /\ plan = "commands" /\ team
  /\ history.crashes < MaxCrashes
  /\ history' = [history EXCEPT !.crashes = @ + 1]
  /\ Back /\ active' = FALSE
  /\ sections' = {s \in sections : s.op # "lead"}
  /\ UNCHANGED <<fs, people, operator, down>>

\* The members are counted without the lock.
TeamDelete ==
  /\ Idle /\ team /\ Listed = {}
  /\ Lead("teams", Nobody)
  /\ UNCHANGED <<fs, sections, people, active, down, operator, history>>

DeleteTeams ==
  /\ lead.pc = "teams"
  /\ RemoveTeams(Lead("tasks", Nobody), Back)
  /\ UNCHANGED <<board, sections, proc, owns, active, down, operator>>

\* rmtree of the tasks, which raises when they are gone already.
DeleteTasks ==
  /\ lead.pc = "tasks"
  /\ board' = FALSE /\ owns' = {}
  /\ active' = (active /\ ~board)
  /\ Back
  /\ UNCHANGED <<team, dir, gen, rows, sections, proc, asked, down, operator, history>>

SpawnTeammate(n) ==
  /\ Idle /\ n \in Natives /\ proc[n] # "up"
  /\ history.starts < MaxStarts
  /\ history' = [history EXCEPT !.starts = @ + 1]
  /\ Lead("isolate", n)
  /\ UNCHANGED <<fs, sections, people, active, operator, down>>

\* ensure_git_worktree_isolation: the members' directories are compared with
\* the new one's; there must be a team, and git must make the worktree.
Isolate ==
  /\ lead.pc = "isolate"
  /\ \/ team /\ Lead("add", lead.name)
     \/ Back
  /\ UNCHANGED <<fs, sections, people, active, operator, down, history>>

\* add_member: there must be a team, and no member of that name.
AddBegin ==
  LET n == lead.name IN
  /\ lead.pc = "add" /\ LockFree
  /\ IF team /\ rows[n] = "none" THEN Enter("lead", n) /\ Lead("adding", n)
     ELSE dir' = TRUE /\ Back /\ UNCHANGED sections
  /\ UNCHANGED <<team, board, gen, rows, people, active, down, operator, history>>

AddEnd == \E s \in Of("lead", lead.name) :
  LET n == lead.name IN
  /\ lead.pc = "adding"
  /\ sections' = sections \ {s}
  /\ \/ /\ Write([s.read EXCEPT ![n] = "new"]) /\ Lead("pane", n)
        /\ history' = [history EXCEPT !.back = IF kill = "off" THEN @ ELSE @ \union {n},
                                      !.removed = @ \ {n}]
     \/ ~dir /\ Back /\ UNCHANGED <<team, dir, rows, history>>
  /\ UNCHANGED <<board, gen, people, active, down, operator>>

\* The prompt goes into the inbox, and tmux starts the process, or fails.
StartPane ==
  LET n == lead.name IN
  /\ lead.pc = "pane"
  /\ dir' = TRUE
  /\ \/ Lead("set", n) /\ Proc(n, "up")
     \/ Lead("undo", n) /\ UNCHANGED proc
  /\ UNCHANGED <<team, board, gen, rows, sections, asked, owns, active, down, operator, history>>

SetPaneBegin ==
  /\ lead.pc = "set" /\ LockFree
  /\ IF team THEN Enter("lead", lead.name) /\ Lead("setting", lead.name)
     ELSE dir' = TRUE /\ Lead("undo", lead.name) /\ UNCHANGED sections
  /\ UNCHANGED <<team, board, gen, rows, people, active, down, operator, history>>

\* Who has been removed meanwhile gets no pane.
SetPaneEnd == \E s \in Of("lead", lead.name) :
  LET n == lead.name IN
  /\ lead.pc = "setting"
  /\ sections' = sections \ {s}
  /\ \/ Write([s.read EXCEPT ![n] = IF @ = "none" THEN @ ELSE "pane"]) /\ Back
     \/ ~dir /\ Lead("undo", n) /\ UNCHANGED <<team, dir, rows>>
  /\ UNCHANGED <<board, gen, people, active, down, operator, history>>

\* remove_member, for the undo of a spawn and for the kill of a teammate.  What
\* it raises is swallowed by the undo and ends the kill.
RemoveBegin ==
  /\ lead.pc \in {"undo", "remove"} /\ LockFree
  /\ IF team
     THEN /\ Enter("lead", lead.name)
          /\ Lead(IF lead.pc = "undo" THEN "undoing" ELSE "removing", lead.name)
     ELSE dir' = TRUE /\ Back /\ UNCHANGED sections
  /\ UNCHANGED <<team, board, gen, rows, people, active, down, operator, history>>

RemoveEnd == \E s \in Of("lead", lead.name) :
  LET n == lead.name IN
  /\ lead.pc \in {"undoing", "removing"}
  /\ sections' = sections \ {s}
  /\ \/ /\ Write([s.read EXCEPT ![n] = "none"]) /\ Mark("removed", {n})
        /\ IF lead.pc = "undoing" THEN Back ELSE Lead("reset", n)
     \/ ~dir /\ Back /\ UNCHANGED <<team, dir, rows, history>>
  /\ UNCHANGED <<board, gen, people, active, down, operator>>

\* force_kill_teammate, and process_shutdown_approved: a member in a pane dies.
KillTeammate(n) ==
  /\ Idle /\ team /\ n \in Listed
  /\ IF rows[n] = "pane" THEN Proc(n, "dead") ELSE UNCHANGED proc
  /\ Lead("remove", n)
  /\ UNCHANGED <<fs, sections, asked, owns, active, down, operator, history>>

ResetTasks ==
  /\ lead.pc = "reset"
  /\ owns' = owns \ {lead.name}
  /\ Back
  /\ UNCHANGED <<fs, sections, proc, asked, active, down, operator, history>>

-----------------------------------------------------------------------------
(* force_kill_team, in the operator's process or in the lead's server      *)

\* The command team-kill, or the tool force_kill_team.
KillStart(by) ==
  /\ plan = "teardown" /\ kill = "off" /\ team
  /\ IF by = "lead" THEN Idle /\ Lead("team", Nobody) ELSE UNCHANGED lead
  /\ kill' = "asking" /\ initial' = Listed
  /\ UNCHANGED <<fs, sections, people, active, operator, stage, target, errors, history>>

\* The tool returns: no team is active after a purge.
KillReturns ==
  /\ lead.pc = "team" /\ kill \in {"purged", "done"}
  /\ active' = (active /\ kill # "purged")
  /\ Back /\ kill' = "done"
  /\ UNCHANGED <<fs, sections, people, operator, stage, fixed, errors, history>>

\* A shutdown request to each; a send that fails is recorded, no more.
AskAll == \E reached \in SUBSET initial :
  /\ kill = "asking"
  /\ kill' = "waiting" /\ asked' = asked \union reached
  /\ dir' = (dir \/ reached # {})
  /\ UNCHANGED <<team, board, gen, rows, sections, proc, owns, session, stage, fixed,
                 errors, operator, history>>

\* A mutant: the wait has no timeout.
WaitEnds_NoTimeout ==
  /\ kill = "waiting" /\ (team => initial \intersect Listed = {})
  /\ kill' = "second"
  /\ UNCHANGED <<fs, sections, people, session, stage, target, initial, errors,
                 operator, history>>

\* When all have gone, or the time is up.
WaitEnds ==
  /\ kill = "waiting"
  /\ kill' = "second"
  /\ UNCHANGED <<fs, sections, people, session, stage, target, initial, errors,
                 operator, history>>

\* A mutant: who runs in-process is passed over.
PickRemaining_Panes ==
  LET remaining == IF team THEN {n \in initial : rows[n] \in {"new", "pane"}} ELSE {} IN
  /\ kill = "second"
  /\ kill' = "forcing"
  /\ stage' = [n \in Names |-> IF n \in remaining THEN "kill" ELSE "off"]
  /\ target' = [n \in Names |-> IF n \in remaining THEN rows[n] ELSE "none"]
  /\ UNCHANGED <<fs, sections, people, session, initial, errors, operator, history>>

\* Who is left is read a second time.
PickRemaining ==
  LET remaining == IF team THEN initial \intersect Listed ELSE {} IN
  /\ kill = "second"
  /\ kill' = "forcing"
  /\ stage' = [n \in Names |-> IF n \in remaining THEN "kill" ELSE "off"]
  /\ target' = [n \in Names |-> IF n \in remaining THEN rows[n] ELSE "none"]
  /\ UNCHANGED <<fs, sections, people, session, initial, errors, operator, history>>

Stage(n, s) == stage' = [stage EXCEPT ![n] = s]

\* Only a pane is killed; an adapter in-process keeps running.
ForceKill(n) ==
  /\ stage[n] = "kill"
  /\ IF target[n] = "pane" THEN Proc(n, "dead") ELSE UNCHANGED proc
  /\ Stage(n, "remove")
  /\ UNCHANGED <<fs, sections, asked, owns, session, kill, fixed, errors, operator, history>>

ForceRemoveBegin(n) ==
  /\ stage[n] = "remove" /\ LockFree
  /\ IF team THEN Enter("kill", n) /\ Stage(n, "removing") /\ UNCHANGED errors
     ELSE /\ dir' = TRUE /\ Stage(n, "reset") /\ errors' = errors \union {n}
          /\ UNCHANGED sections
  /\ UNCHANGED <<team, board, gen, rows, people, session, kill, fixed, operator, history>>

ForceRemoveEnd(n) == \E s \in Of("kill", n) :
  /\ sections' = sections \ {s}
  /\ Stage(n, "reset")
  /\ \/ /\ Write([s.read EXCEPT ![n] = "none"]) /\ Mark("removed", {n})
        /\ UNCHANGED errors
     \/ /\ ~dir /\ errors' = errors \union {n}
        /\ UNCHANGED <<team, dir, rows, history>>
  /\ UNCHANGED <<board, gen, people, session, kill, fixed, operator>>

\* A mutant: the tasks are reset before the process is killed.
ForceReset_First(n) ==
  /\ \/ stage[n] = "kill" /\ owns' = owns \ {n} /\ UNCHANGED stage
     \/ stage[n] = "reset" /\ Stage(n, "clean") /\ UNCHANGED owns
  /\ UNCHANGED <<fs, sections, proc, asked, session, kill, fixed, errors, operator, history>>

ForceReset(n) ==
  /\ stage[n] = "reset"
  /\ owns' = owns \ {n}
  /\ Stage(n, "clean")
  /\ UNCHANGED <<fs, sections, proc, asked, session, kill, fixed, errors, operator, history>>

ForceClean(n) ==
  /\ stage[n] = "clean"
  /\ asked' = asked \ {n}
  /\ Stage(n, "done") /\ target' = [target EXCEPT ![n] = "none"]
  /\ UNCHANGED <<fs, sections, proc, owns, session, kill, initial, errors, operator, history>>

ForcedAll ==
  /\ kill = "forcing" /\ \A n \in Names : stage[n] \in {"off", "done"}
  /\ kill' = IF Purge THEN "purge" ELSE "event"
  /\ UNCHANGED <<fs, sections, people, session, stage, fixed, errors, operator, history>>

\* delete_team refuses a team with members.
PurgeReads ==
  /\ kill = "purge"
  /\ kill' = IF team /\ Listed = {} THEN "teams" ELSE "event"
  /\ UNCHANGED <<fs, sections, people, session, stage, fixed, errors, operator, history>>

PurgeTeams ==
  /\ kill = "teams"
  /\ RemoveTeams(kill' = "tasks", kill' = "event")
  /\ UNCHANGED <<board, sections, proc, owns, session, stage, fixed, errors, operator>>

\* rmtree raises when the tasks are gone already.
PurgeTasks ==
  /\ kill = "tasks"
  /\ kill' = IF board THEN "purged" ELSE "event"
  /\ board' = FALSE /\ owns' = {}
  /\ UNCHANGED <<team, dir, gen, rows, sections, proc, asked, session, stage, fixed,
                 errors, operator, history>>

\* The teardown is recorded in the event log, whose directory is made; after a
\* purge there is none.
TeamKillCompleted ==
  /\ \/ kill = "event" /\ dir' = TRUE
     \/ kill = "purged" /\ lead.pc # "team" /\ UNCHANGED dir
  /\ kill' = "done"
  /\ UNCHANGED <<team, board, gen, rows, sections, people, session, stage, fixed,
                 errors, operator, history>>

-----------------------------------------------------------------------------
(* The operator's commands, one of them                                    *)

Cli(pc) == cli' = [cli EXCEPT !.pc = pc]
Panes == {n \in Natives : proc[n] = "up"}

\* team-prune-dead lists tmux's panes before it takes the lock.
PruneLook ==
  /\ plan = "commands" /\ cli.pc = "off" /\ team
  /\ cli' = [pc |-> "looked", live |-> Panes]
  /\ UNCHANGED <<fs, sections, people, session, plan, down, history>>

PruneBegin ==
  /\ cli.pc = "looked" /\ LockFree
  /\ Enter("cli", Nobody)
  /\ Cli("pruning")
  /\ UNCHANGED <<team, board, gen, rows, people, session, plan, down, history>>

\* In a pane, by the row.
Dead(row) == row = "pane"

\* A member in a pane that was not listed is dropped; a pane that was started
\* after the listing is among them.
PruneEnd == \E s \in sections :
  LET dead == {n \in Names : Dead(s.read[n]) /\ n \notin cli.live} IN
  /\ cli.pc = "pruning" /\ s.op = "cli"
  /\ sections' = sections \ {s}
  /\ Cli("done")
  /\ IF dead = {} THEN UNCHANGED <<team, dir, rows, history>>
     ELSE /\ WriteMaking([n \in Names |-> IF n \in dead THEN "none" ELSE s.read[n]])
          /\ Mark("removed", {n \in dead : s.read[n] = "pane"})
  /\ UNCHANGED <<board, gen, people, session, plan, down>>

\* team-agent writes or unlinks a file in a directory of the team's; it asks
\* neither for the team nor for the lock.
TeamAgent ==
  /\ plan = "commands" /\ cli.pc = "off"
  /\ dir' \in {dir, TRUE}
  /\ Cli("done")
  /\ UNCHANGED <<team, board, gen, rows, sections, people, session, plan, down, history>>

\* team-patch looks for the config first, and again under the lock.
TeamPatch ==
  /\ plan = "commands" /\ cli.pc = "off" /\ team
  /\ Cli("patch")
  /\ UNCHANGED <<fs, sections, people, session, plan, down, history>>

PatchBegin ==
  /\ cli.pc = "patch" /\ LockFree
  /\ Enter("cli", Nobody)
  /\ Cli("patching")
  /\ UNCHANGED <<team, board, gen, rows, people, session, plan, down, history>>

\* All rows are written back when one has another agentType.
PatchEnd == \E s \in sections :
  /\ cli.pc = "patching" /\ s.op = "cli"
  /\ sections' = sections \ {s}
  /\ Cli("done")
  /\ \/ s.read # Empty /\ WriteMaking(s.read)
     \/ UNCHANGED <<team, dir, rows>>
  /\ UNCHANGED <<board, gen, people, session, plan, down, history>>

-----------------------------------------------------------------------------
Adapter(n) ==
  \/ RegisterBegin(n) \/ RegisterEnd(n) \/ Join(n)
  \/ Leave(n) \/ DeregisterBegin(n) \/ DeregisterEnd(n)

Session ==
  \/ DeleteTeams \/ DeleteTasks \/ Isolate
  \/ AddBegin \/ AddEnd \/ StartPane \/ SetPaneBegin \/ SetPaneEnd
  \/ RemoveBegin \/ RemoveEnd \/ ResetTasks

Forced(n) ==
  ForceKill(n) \/ ForceRemoveBegin(n) \/ ForceRemoveEnd(n) \/ ForceReset(n) \/ ForceClean(n)

Teardown ==
  \/ AskAll \/ WaitEnds \/ PickRemaining \/ ForcedAll
  \/ PurgeReads \/ PurgeTeams \/ PurgeTasks \/ TeamKillCompleted \/ KillReturns

Commands == PruneBegin \/ PruneEnd \/ PatchBegin \/ PatchEnd

Next ==
  \/ \E n \in Names : \/ Start(n) \/ Adapter(n) \/ Work(n) \/ Crash(n)
                      \/ SpawnTeammate(n) \/ KillTeammate(n) \/ Forced(n)
  \/ TeamCreate \/ TeamDelete \/ Session \/ Lifespan
  \/ \E by \in {"lead", "operator"} : KillStart(by)
  \/ Teardown \/ PruneLook \/ TeamAgent \/ TeamPatch \/ Commands

\* What has begun goes on, in some order; nothing is assumed of Work, of who
\* starts and of when the lead or the operator call.
Progress ==
  \/ Session \/ Teardown \/ Commands
  \/ \E n \in Names : Adapter(n) \/ Forced(n)

Fairness == WF_vars(Progress)

Spec == Init /\ [][Next]_vars /\ Fairness

-----------------------------------------------------------------------------
\* As long as no directory is removed under a section, no registration gets
\* lost between the others' read and write: an adapter that is up is in the
\* roster until somebody else removes it or the team, and one that has
\* deregistered is out.  So it is with a teammate in a pane: neither a command
\* nor a registration takes its row.
RosterTells ==
  ~history.torn => \A n \in Names :
    /\ proc[n] = "up" => n \in Listed \/ n \in history.removed
    /\ proc[n] = "left" => n \notin Listed

\* After a teardown none of the members it began with is in the roster, but
\* for one it reports an error for and one that has come (back) meanwhile; and
\* one that was torn down by force and does not run keeps no task, since its
\* tasks are reset after its process is killed.
TeardownLeavesNobody ==
  /\ kill = "done" /\ ~history.torn =>
       initial \intersect Listed \subseteq errors \union history.back
  /\ \A n \in owns : kill = "done" /\ stage[n] = "done" =>
       proc[n] = "up" \/ n \in history.back \/ history.crashes > 0

\* A team that was deleted comes back only when it is created again, or by the
\* write of a section that was begun before the deletion.
BackOnlyByLateWrite ==
  [][~team /\ team' => \/ history'.creates > history.creates
                       \/ \E s \in sections \ sections' : s.gen < gen]_vars

\* A teardown comes to its end, also when nobody answers.
TeardownEnds == kill = "asking" ~> kill = "done"
=============================================================================
