# claude-anyteam in TLA+

claude-anyteam lets coding agents of other vendors (Codex, Gemini, Kimi) work
as members of a Claude Code team. There is no server that owns the state: a
team is a directory of JSON files, and everyone who takes part (the lead, one
adapter process per member, the MCP servers of their models, command-line
tools) reads and rewrites those files. What keeps the team together is the
discipline with which the files are locked, read and written. This directory
models that discipline, the processes that run on top of it, and what each of
them promises to the others.

Paths are relative to the root of the repository, and `claude_teams` stands for
`src/claude_teams`, `claude_anyteam` for `src/claude_anyteam`.

## 1. The system

| Component | State | Operations | Correct when |
|---|---|---|---|
| **Task store** `claude_teams/tasks.py`, `protocol_io.claim_task` | one file per task: status, owner, `blocks`, `blocked_by`, parent; ids; `.lock` | create, update (link, complete, delete), claim, reset the tasks of an owner, auto-pickup | links never dangle or form a circle, completions come in order and stay, a task has one claimant |
| **Inboxes** `claude_teams/messaging.py` | one array of messages with read flags per agent; `.lock` | append, append a batch, read all and mark, read the newest of a sender and mark, create, unlink | nothing is lost, repeated or reordered; everything is handled |
| **Batched sender** `messaging.BatchedSender` | buffer and timer per recipient, `_closed` | send, timer flush, flush, close | a message is in one place, and reaches the inbox |
| **File lock** `claude_teams/_filelock.py` | an RLock per path and process, a cached re-entrant `FileLock` | enter with a timeout, leave, nest | exclusion, no self-deadlock, nothing left locked, bounded waits |
| **Roster and registration** `claude_teams/teams.py`, `claude_anyteam/registration.py` | members in `config.json`, `config_lock` | create and delete a team, add, remove, register, deregister | no lost update of the config, a deleted team stays deleted |
| **Teardown** `claude_teams/teardown.py`, `team_cli.py` | the list of members it works through | request shutdowns, wait, force clean, purge; prune, patch | everybody is gone or reported, their tasks are reset |
| **Adapter loop (Codex)** `claude_anyteam/loop.py` | place in the loop, drained messages, task in flight, shutdown flag, ids of shutdown requests seen, notes put off | drain, dispatch, list, claim, turn, mid-turn drain, steer, complete, block, plan, deregister | one worker per task, no silent loss of work or notes, shutdown honoured |
| **Codex turns** `codex.py`, `app_server.py`, `jsonrpc_stdio.py` | child, queue of notifications, watchdogs, tool failures, start gate | probe, start, steer, interrupt, restart, resume, close; `codex exec` | a turn ends, one child, a success is one |
| **Other backends** `backends/gemini`, `backends/kimi`, the native loop | ACP child and its record, sessions in memory and on disk, permissions asked | claim, prompt, bridge, cancel, retry, reap orphans | no orphans, no stale session, refused work does not complete |
| **Permission bridge** `protocol_io.send_permission_request` and the ACP client | requests in the lead's inbox, answers in the member's | ask, poll for the answer | work completes only on what was granted |
| **Capability manifests** `claude_anyteam/capability_manifest.py` | a cache of peers' Agent Cards per process, broadcast events | publish, tell, prefetch, apply | the cache holds the card of every peer that is up |
| **Wrapper MCP server** `wrapper_server.py` | the call under way, the shared working tree | message, update a task, summarise a batch, checkpoint, edit | no tool makes a task a part of itself; a checkpoint has what it claims |
| **Installer** `claude_anyteam/installer.py` | settings, `~/.claude.json`, a receipt | install with offers, uninstall | no trace left, the user's edits kept, all or nothing |
| **Lead tools** `claude_teams/server.py` | the lead's session | task tools, message, spawn, kill, process an approved shutdown, team create and delete | tasks of removed members come back |
| **Everything else** (schemas, the inbox watch, the visibility log, prompts, reports) | none that the others depend on | pure data, append-only logs, bounded waits | not modelled |

How they interact: an **adapter** registers itself (roster), publishes its card,
then polls. It drains its inbox, answers, lists the tasks without a lock, claims
one with a compare-and-set, runs a turn of its model, and completes the task or
tells the lead that it is blocked. In the middle of a turn a hook may drain the
same inbox again, and the model calls the tools of the **wrapper**, a process of
its own that writes the same files in the adapter's name. The **lead** assigns,
links, completes and deletes tasks, sends messages, spawns and kills. All calls
between processes are rewrites of a file under a lock file in the same
directory, and nearly every one of those locks is the **file lock**. The
**installer** runs before all of this, on files it shares with the user.

The behaviours that are hard:

- *Interleaving.* Lists are read without a lock and acted on later; the pickup
  runs after the lock was released; the lead changes the task an adapter works
  on; a teardown meets members that join or leave.
- *Atomicity.* An update of a task is several files; a rewrite of a file is a
  truncation and a write; a tool of the wrapper is a check and a write.
- *Crashes.* A process may die after any write. The operating system frees its
  lock; the files stay as they are, and so does a child it started.
- *Files that come and go.* Inboxes are created, replaced and unlinked without
  the lock that appends take; teams are deleted with the lock files that others
  hold, and written back by who read them before.
- *Order.* Shutdown requests come twice and in the middle of a turn; flushes
  overtake each other; a peer's card is broadcast while ours is being loaded.
- *Time.* Locks have two waits with one timeout each; a turn has watchdogs for
  silence, a warning that counts as activity, a deadline and one recovery.
- *What is remembered.* Sessions, threads and caches outlive what they name.

## 2. The modules

    Lemmas                induction, sequences, paths: facts the proofs share
    Reachability          graphs: reachable, acyclic
      TaskBoard           what a task store promises          (abstract)
      TaskStore           the files and the order of writes   (detailed)  => TaskBoard
        TaskStoreProofs, MCTaskStore
    Postbox               what an inbox promises              (abstract)
    Mailbox               the array, its rewrites, its lock   (detailed)  => Postbox
      MCMailbox
    BatchedSender         buffering in front of an inbox
      MCBatchedSender
    FileLock              the lock under all of them
      MCFileLock
      MailboxProofs       the proofs about these three
    Roster                members, the config lock, teardown, the lead's session
      RosterProofs
    Adapters              adapters and a lead on a board and inboxes      => TaskBoard steps
      AdaptersProofs, MCAdapters
    Turn                  one turn of Codex: child, queue, watchdogs, recovery
      TurnProofs
    Loops                 the loops of the other backends, sessions, permissions
      LoopsProofs
    Cards                 Agent Cards, events and caches
    Checkpoint            a commit by one of several agents in one tree
    Tools                 the wrapper's tools on tasks and inboxes
      MCWrapper           the three instances of the wrapper
      WrapperProofs
    Programs              the programs and sign-ins of a machine
      Installer           install and uninstall
        MCInstaller       (proofs: the last part of WrapperProofs)

The modules form layers. `FileLock` justifies that the sections of `TaskStore`,
`Mailbox` and `Roster` exclude each other. `TaskStore` and `Mailbox` justify that
`Adapters`, `Loops` and `Tools` take an operation on a task or an inbox as one
step: a task store is a `TaskBoard` to everyone who takes its lock, and a stable
inbox is a `Postbox`. `Adapters` composes the loops of several agents and the
lead on that level, with a turn as one step whose outcome is any of those that
`Turn` has.

Definitions carry the names of the code where there is one. A definition whose
name ends in `_Something` after another definition's name is a *mutant* of it,
the way a plausible bug would write it; it is used by no specification and
serves to see that the property it is listed with does fail. A comment
`bound:` on a constant says that it limits the model and not the program.

### TaskStore

`disk` is what the next holder of the lock finds; `goal` is what the present one
is bringing the disk to. `Update` and `Reset` take the lock, read, validate as the
code does (phases 1 to 3 of `update_task`) and set `goal` and the files still to
be written (`lock.todo`: also those of linked tasks that are rewritten as they
were); `WriteFile` then writes one after another, the updated task first, the
others in any order, the unlink of a deleted task last (phase 4); `Release`
frees the lock. A section that writes a single file (`Create`, `Claim`,
`AssignNext`) is one step. Every write truncates its file first, so a process may
die (or a disk be full) between two writes and in the middle of one: `Crash`, and
the second half of `WriteOnly`, may leave a file `torn`. Such a file is in the
directory, counts for the next id and may be named by others, but nobody can
parse it: the calls that read it raise before they write anything (`Legible`,
`SearchOk`), `reset_owner_tasks` raises after the files it came by first, and
since a completion and a deletion read every file of the team, no task of the
team can be completed or deleted any more until somebody removes the file by hand. An id may be used
again after its task was deleted, when it was the highest (`next_task_id` is one
above the highest file there is). The auto-pickup is a second section
(`pickups`), which may find anything changed. Subject, description, metadata and
coupling carry no control and are left out.

`TaskBoard` has no files, no second list and no order of writes. The refinement
mapping takes `goal` for the board: an operation takes effect when its section
begins, since nobody who takes the lock can see less of it.

### Mailbox

`path` and `msgs` are the file, `open` its writer between truncation and write.
`Send`, `Ensure`, `ReadToAppend`, `Truncate`, `AppendRows` are one append (with
`ensure_inbox`, which looks and writes under the lock); `ReadToMark`,
`Truncate`, `Mark` a read that marks; `Handle` is what the owner does with what
it got. `RegisterLooks` and `RegisterReplaces` are `_ensure_inbox` of
`registration.py` and `Deregister` and `CleanUp` the unlinks, all without the
lock. A rewrite whose file was unlinked or replaced meanwhile ends in a file
nobody can find.

### BatchedSender

One key, several senders. The steps are the accesses under `self._lock`, with
whatever may come between them: a sender looks at `_closed`, buffers, and then
arms a timer; a timer fires, and its thread then pops the batch; the batch is
appended outside the lock, or put back in front when that raises. `flush()` and
`close()` are one more caller.

### FileLock

One path, threads of several processes. A call waits for the RLock, then for
the file, each up to its timeout in ticks; nested calls count. `Die` kills a
process with its threads; `Remove` is the deletion of the directory the lock
file is in, after which the next caller locks a new file of the same name.

### Roster

`rows` is `config.json`, `dir` and `team` whether the directory and the file are
there, `gen` which lock file is at the path. A section (`Enter`) reads the rows;
its end writes what it read with its own change, so a section that outlives the
directory writes old rows. `registration.py` writes with a mkdir of the parents
(`WriteMaking`) and `teams.py` does not (`Write`), which decides whether a
deleted team comes back. Four kinds of process: an adapter that registers,
works, leaves or crashes; the lead's session (`TeamCreate`, `TeamDelete`,
`SpawnTeammate` with its worktree, pane and undo, `KillTeammate`, a restart of
its server); a teardown (`AskAll`, `WaitEnds`, `PickRemaining`, then kill,
remove, reset and clean for each member in any order, then the purge); and an
operator's command on the roster.

### Adapters

`pc` is the place in `_main_loop`: `drain`, `handle` (dispatch of one message, or
of a run of prose), `prose` and `repair` (the turn that answers, and the second
one when the model claims it has no tool to answer with), `plan` and `replan`,
`list` (which writes `candidates`), `claim`, `turn`, `complete` or `block`,
`idle`, `exit`, `leaving`. `MidTurn` is the hook of the App Server executor: it
rejects shutdowns while a task is in flight, turns what the lead says into
steers, and puts the prose of peers off to the end of the turn. `ClaimRace` and
`ClaimVanished` are the two ways a claim from a stale list fails. `TurnRaises` is
a turn that raises out of the dispatch, `TurnAgain` the second attempt of a
resumed session. The lead sends, assigns, links, completes, deletes, kills by
force and processes approvals; removing a member and resetting its tasks are two
steps (`Dismiss`, `Reset`). A member whose row has no pane (`Panes`), which is
what an adapter that registers itself writes, goes on after a force kill.
`handled` holds the notes whose sender has got something back, `dropped` those
that go without an answer for one of `Reasons`, which name each such way in the
code: a steer that the turn takes is among them, since nobody answers it, and so
is a send that fails, which is only logged. What the model distinguishes in a note
is its `Kinds`; `NotesHandled` says that there is no further way. `_mark_blocked`
marks the task and tells the lead, each in a `try` of its own: `MarkBlocked` lets
either fail. `news` holds what became of a task since its last claim. `overruled` holds
the agents whose task in flight the lead has given to another. The candidates
are two sets, its own tasks and the unowned, tried in the order of `IsNext`.

### Turn

One invocation of the Codex executor. Up to the turn: the tests of the binary
and of the wrapper, the checkpoints of write-ahead logs within a time budget, the
start gate, the launch with `initialize` and its attempts, `thread/start` or
`thread/fork`, `turn/start`. In the turn the loop steers, calls the mid-turn
hook, takes a notification or finds the queue empty, and then looks at the
transport, at tool failures nothing was heard after (`Report`), at the warning
and the interrupt of the silence watchdog and at the deadline. A lost transport
is recovered once: `Lost` closes the old child, `Restart` starts another, and
`Resume` reads a snapshot of the stored thread. The transport is lost when the
child is dead, and also when the reader of its pipe has ended while it runs on
(`reading`): then its turn may go on unheard until the child is closed. The child
and its reader (`Send`, `Die`, `ReaderEnds`) are free. `codex exec` is the other mode: `ExecRun`,
`ExecPrints`, `ExecExits`, `ExecTimesOut`, `ExecEnds`. Time passes when the loop
waits; `now` counts in the unit in which the watchdogs differ.

### Loops

One adapter of a kind that is picked at the start: Gemini over ACP, Gemini
headless, Kimi, or the native loop. `me` is the process's memory, `call` the
invocation under way, `disk` what outlives a kill (the record of the child, the
session, the clean-exit mark). A start recovers what an earlier process left
(`Recover`, `Orphans`), if it takes that process for dead and knows the name it
ran under; what it finds depends on what /proc shows of each child, which any start
may see otherwise, and a kill may fail. A turn starts a child, registers and records it, opens a
session that may be resumed, prompts, may ask the lead for permission through
the inbox (`Ask`, `Bridge`, `BridgeTimesOut`) and closes. `Signal` is the handler,
which runs between any two instructions of the main thread and waits for itself
when that thread is inside the registry's lock: `hung` is that state. The
differences between the backends are the conditions on `backend`.

### Cards, Checkpoint, Tools (MCWrapper)

`Cards`: each agent has a row, a card file with a version and one cache in its
loop and one in its wrapper. A start writes the row, the card, and tells those
listed, one inbox at a time (what version a former process of the name has left it
reads before it takes the lock); the cache loads the names and prefetches the cards
in a pool of workers, any of which may hang or fail, and then applies the events
its process drains; a card of an event that cannot be read leaves the old one. `Checkpoint`: the commands of `mcp_anyteam_checkpoint` one by
one (`rev-parse`, `ls-files -u`, `add -A`, `diff --cached`, `commit`,
`rev-parse`) in a tree that several agents edit, with git's index lock and
commands killed at their timeout. A commit gives the lock back (`Refreshed`)
before it moves HEAD, and moves it only from the commit it found (`base`). `Tools`:
`call` is one tool call per agent and its step; every step is one access to a
shared file, so that other agents, the lead and the roster come between. Of a
task there is the owner and the task it is a part of: updates and new tasks set
it, and a batch summary links its children one after the other, each a while
after it was looked at (`ChildLooks`, `ChildLinks`). `policy` is what each peer's
card now says of steers and `cards` what the wrappers have cached of it, which
goes stale when a peer comes back with another one. `MCWrapper` picks one of the three at the start
and leaves the others still.

### Installer, Programs

`settings`, `claude` (for `~/.claude.json`) and `receipt` are the three files;
`m` is the memory of the command under way. `Install` begins with the offers (tmux,
then each missing provider), checks, and writes settings, mode and receipt; a
failure from the write of the mode on takes the settings back (`Undo`).
`Uninstall` loads, reverts and writes back or unlinks. `Fail` and `Kill` may come
at any step; the user edits the files at any time. `ghost` is what the files would
be had the commands never run. `Programs` says what a machine may have (on PATH,
where only `uv` finds it, away), what an installer's success may leave, and when
credentials count. What the checks may conclude of a machine (`Verdicts`) is a
parameter of `Installer` (`Concluded`), which `MCInstaller` gives it.

## 3. The runs

| Run | Module, config | Instance | Shows |
|---|---|---|---|
| tasks | MCTaskStore, Tasks | 3 tasks without agents and every call of up to two edges per list, or 2 tasks, 2 agents (one with pickup) and every argument with at most one edge; 1 death | `NoDangling`, `NoCircularWait`, `LinksMirrored`, `ParentsEnd`, `CompletionIsFinal`, `ImplementsBoard` |
| mailbox | MCMailbox, Mailbox | 2 writers with 3 messages on a stable inbox, batches of 1 or 2; or a message less each, filtered reads, 1 unlink, 1 death | `AtMostOnce`, `LostOnlyByChurn`, `ImplementsPostbox`, `EventuallyHandled` |
| batched_flush | MCBatchedSender, BatchedFlush | 2 senders with 2 messages, 1 failing append, `close()` | `ExactlyOnce`, `EventuallyPosted` |
| lock_safety | MCFileLock, LockSafety | 3 threads, 2 processes, nesting 2, timeouts for ever, 0 and 1, 1 death, 1 removal | `MutualExclusion`, `NothingLeaked`, `EveryCallEnds` |
| roster | Roster, Roster | 1 adapter and 1 teammate in a pane, 2 starts, 2 teams, 1 crash, teardown with purge, one command | `RosterTells`, `TeardownLeavesNobody`, `BackOnlyByLateWrite`, `TeardownEnds` |
| adapter_team | MCAdapters, AdapterTeam | 2 agents and 2 tasks with 1 deletion, or 3 agents and 1 task with 1 deletion and 1 kill (one agent with the mid-turn hook, the others with a pane), a request, a failing turn or report | `OneWorker`, `GivenUpIsReported`, `BoardSteps` |
| adapter_ends | MCAdapters, AdapterEnds | 1 agent with plan mode, 1 task, the notes of two senders, a request twice, a deletion, a failing turn, answer or report, a signal | `ShutdownHonored`, `NotesHandled`, `FreeTaskIsTaken` |
| adapter_race | MCAdapters, AdapterRace | 1 agent, 1 task, a deletion | `LoopSurvivesRaces` violated |
| turn | Turn, Turn | 2 tools, watchdogs on or off, 1 retry, 1 steer, 2 notifications and 2 deaths of the child or its reader | `OneChild`, `SuccessIsReal`, `SilenceIsReported`, `TurnEnds` |
| loops | Loops, Loops | 4 backends, 2 tasks, 2 messages or decisions, 2 starts, 1 kill | `NoOrphans`, `SpentIsForgotten`, `OnlyGrantedWorkCompletes`, `StopIsHonored` |
| installer | MCInstaller, Installer | any files of a user, 3 commands, the first in a terminal on any machine, 1 edit, 1 failure or kill | `NoTrace`, `EditsKept`, `AllOrNothing` |
| wrapper | MCWrapper, Wrapper | 2 agents with, at a time, 3 starts and 1 fault; or 2 files, 2 edits, 2 calls, 1 stall; or 3 tasks, 2 tool calls, batches of 2, 1 move of the lead | `KnowsItsPeers`, `CheckpointSaves`, `NoTaskInItself` |

A run that shows several instances of a module picks the instance in its
initial states (`plan` and `TeamInit` in the MC modules). In adapter_team the two
agents without the hook are symmetric; the run checks no liveness.

**Why the bounds are enough.** *Tasks*: a circle needs two edges that are each
harmless, and a call that adds two at once; three tasks have circles of every
kind (a circle through a new edge, through an old one, through both), and a
deleted id that is used again while another task held a reference. Owners and
parents are independent of pairs of edges, so the instance with three tasks
leaves them out. One death is enough for the links, since what a death leaves is
the start of everything that follows. *Inbox*: two writers give every
interleaving of two sections; three messages in batches of up to two let a batch
end up behind, before and between others. *Sender*: two messages per sender
let one be buffered while the first is in a flush, in a failing flush, and
popped by a second flush. *Lock*: two threads in one process and one in
another are the least with both waits contended. *Roster*: a second start and a
second team are what a late write or a late removal can hit; members of one kind
do not interact but through the rows. *Adapters*: two agents race
for one task while the second keeps both busy, and a third claims what is given
back while another still works on it; three messages make a run of
prose with something before or behind it, and one more in the middle of the
turn. *Turn*: the window, the warning, the stop and the deadline lie at 2, 2, 3
and 3 ticks from their own beginnings, so that they meet in every order; a second
death meets the recovery, and a request without an answer takes the steering past
the deadline. *Loops*: the second start meets what the killed one left, the second
task the session of the first. *Installer*: three commands are an install, a
second one over it, and an uninstall. *Wrapper*: a third start is a name that
comes back while its peer is being told; only the card of the peer that is asked about
changes its version, as one change is what a cache can miss; one worker that hangs leaves a pool
with none; two checkpoints interleave all their commands; three tasks and two batches are the
least in which each of two links is harmless when it is looked at. With two
agents a broadcast of the tools has one peer and the lead. The theorems of section 5 do
not depend on these bounds.

Deadlock is checked for the task store. The other systems may stop: their
bounds on messages, kills and calls run out, adapters end.

**What the "violation" run shows.** `loop.py:19` says "Every team-protocol call
is wrapped so a transient FS race doesn't kill the loop". A task deleted between
list and claim makes `claim_task` raise `FileNotFoundError`; `_find_and_claim`
catches `ValueError` only (`loop.py:1342`), and the loop ends without
deregistering.

### What the models made visible

No passing run asserts these; the properties name them as exceptions, or are
not about them.

*Inboxes and locks.*
- Registration looks for the inbox and then puts an empty one there
  (`registration.py:283`), without the lock. A sender whose append came in between
  has lost its message, against `tests/test_inbox_contention.py:12` ("No message
  is permanently lost during concurrent operation"). `LostOnlyByChurn` shows that
  only unlinking, replacing and deaths lose one.
- Three writers (registration's announcement, the manifest broadcast) take an
  inbox that does not parse for an empty one (`registration.py:386`).
- Flushes of `BatchedSender` overtake each other (`messaging.py:447`), so messages
  may arrive out of order. `close()` flushes and then sets `_closed` (436); a send
  in between stays in the buffer with its timer cancelled.
- A call of `file_lock` may wait twice its timeout, once for each lock. A comment
  at `protocol_io.py:328` says that taking the lock again would deadlock;
  `file_lock` is re-entrant.

*Tasks and the lead.*
- `claim_task` does not read `blocked_by`: a task that came to wait for another
  after it was listed is started, its completion is refused, and the lead is not
  told. A completion does not look at the owner.
- A task that the lead gave to another while an agent works on it is given back
  when that other is removed (`reset_owner_tasks`, `tasks.py:553`): a third agent may claim it
  while the first goes on. `OneWorker` names the first as `overruled`.
- A deleted last id is given out again (`tasks.py:278`); the pickup assigns to an
  owner that may be about to leave (`tasks.py:204`).
- The tasks of an adapter that shut down by itself stay owned: it has left the
  config, and the tools that reset tasks refuse who is not in it (`server.py:890`;
  `loop.py:17` says that the lead can reclaim them).
- `force_kill_teammate` reports that a member "has been stopped" when its row
  names no pane and nothing was stopped.
- `team-prune-dead` lists the panes before it takes the lock (`team_cli.py:950`);
  `team-agent` makes the directory of a deleted team again.

*Adapter loop.* A typed steer drained between turns is dropped (`loop.py:387`), a
request for a plan drained in a turn is passed over (1644-1730), a steer queued
when the turn ends stays in the queue; a turn that raises drops the notes put
off; a model that answers a batch by tool may leave senders out; a plan that
fails twice for a task completed meanwhile is told to nobody, and one that
fails blocks a task the agent may not own. A request for a plan with no id
(1137) and a typed steer with no text (1709) are passed over without a word, and
so is every answer that cannot be stored (1159, 1185, 1083). A blocked task whose
mark and message both fail (1917, 1927) stays in progress, and silent.

*Turns and the other loops.*
- An ACP child outlives the next start when the recorded adapter is not taken for
  dead (its pid was given out again or is the new adapter's own, or cannot be looked
  up, `crash_hygiene.py:93`), when the record bears another team or name (339),
  when the command line does not begin with the binary (164), when the kill fails
  (236, 253), or when its environment does not show and it is not the child on
  record (217). `NoOrphans` names the cases. In the first two the session of the
  turn that was cut stays on disk as well and is resumed.
- Kimi's loop keeps a session that timed out and resumes it for the second attempt
  and for later tasks (`backends/kimi/loop.py:951`), where Gemini's drops it;
  `SpentIsForgotten` is about Gemini.
- A warning that is set to come before the window of the wrapper's tools
  (`config.py:205` allows it from 60 s, 253 a window of up to 300 s) closes the
  failures it finds, as its own event counts as activity (`codex.py:2473`): they
  are never reported. `SilenceIsReported` names the case. The event that tells a
  recovery (2315, 2376) closes them as well: what failed before the child was
  lost is not reported after it, and the property counts a recovery as hearing
  of the turn.
- Without a binary the end of an exec turn is never reported, and its temporary
  file stays.
- A SIGTERM that meets the main thread inside `_ACTIVE_CLIENTS_LOCK`
  (`backends/gemini/acp.py:39`) waits for itself; one that ends the ACP child leaves
  `session_prompt` waiting its whole timeout.
- A prompt that was cancelled and whose output did not parse is retried in the
  same session (`tests/test_gemini_loop_session_policy.py:17` covers the case with
  output that does). A steer taken in the first attempt is not in the second.
- An exception before a Gemini task turn is under way ends the loop with the task
  in progress.

*Wrapper.*
- A name that left, came back and was killed before it had told the others starts
  with the row and version it had, so that it tells nobody
  (`registration.py:226`); whoever has not yet applied the farewell of the first
  process then forgets its card.
- `task_update` says "You must own it" and checks the owner, then writes; the
  owner may have changed in between (`wrapper_server.py:1547`), and then it writes
  a task it does not own. A child "already linked" to another parent is refused
  (1731), but one linked to another since it was looked at is moved: of two
  batches the last wins (1721). An invalid child leaves a batch half linked; a
  broadcast that fails has reached some. A steer may go by the cached card of a
  peer that has come back with another policy (1008).
- The tool `read_inbox` marks messages the adapter's loop then never sees (1808).
- A checkpoint's last `rev-parse` may return another agent's commit (1639), and
  two `edit_file` calls on one file lose an edit (1970).

*Installer.*
- A second install writes a receipt anew, and with it what the mode was before
  the first (`installer.py:2063`), against `docs/install.md:54` ("leave no trace").
- An uninstall unlinks the receipt before it strips the settings; a kill in
  between leaves our variables without a receipt. It restores the recorded mode
  over a later choice of the user.
- `~/.claude.json` is loaded before the prompt waits for its answer, and written
  back from that copy.
- What an offer installed stays when the install then refuses; the registration
  of the plugin is not undone; nobody looks at the expiry of Kimi's credentials.

## 4. Fairness

- **Mailbox**: weak fairness on the owner's steps and each writer's. The
  adapter polls for ever (`_main_loop`), and a call that has begun goes on.
  Nobody has to send. An append always gets the lock in the end because every
  section under it ends; that is visible in the model, where a section's steps
  are fair.
- **BatchedSender**: senders' threads and timer threads run (`threading.Timer`),
  and an append that has begun ends, by delivering or by raising. Nobody has to
  call `flush()` or `close()`.
- **FileLock**: time passes, and a waiting thread that can take its lock or has
  run out of time does. Nothing is assumed of the body: it may last for ever.
- **Roster**: what has begun goes on (`Progress`): sections end, a teardown's
  threads run, a wait ends at its timeout. Nobody has to start, work, leave or
  call anything.
- **Adapters**: a loop that is alive takes its next step, including the end of a
  turn (turns have timeouts, which `Turn` shows to be kept) and the end of a
  wait. The lead, signals, kills, mid-turn hooks and turns that raise are not
  fair: they may never come.
- **Turn**: the invocation's own steps, its timeouts included. The child may be
  silent for ever.
- **Loops**: the adapter's own steps, its timeouts included, as long as it is up.
  Children, the lead, peers and signals are free.
- **TaskStore**, **Cards**, **Checkpoint**, **Tools** and **Installer** have no
  fairness; their properties are about what may be reached and what a step may do.

## 5. The proofs

Proved with TLAPS, for every value of the constants under the assumptions named
next to their declaration (types of the bounds; an allow list that is not empty;
the three providers; `NoOwner`, the lead and the words
that stand for nobody are no agents; who asks for cards is one; calls are records
of the right shape; there is somebody who can be a member):

| Module | Theorem | Says |
|---|---|---|
| TaskStoreProofs | `TypeCorrect` | `Spec => []TypeOK` |
| | `NoDanglingReferences` | `Spec => []NoDangling`, deaths included |
| | `NoCircularWaits` | `Spec => []NoCircularWait`, at every instant |
| | `ParentChainsEnd` | `Spec => []ParentsEnd` |
| | `CompletionStays` | `Spec => CompletionIsFinal` |
| | `LinksAgree` | `Spec => []LinksMirrored` |
| | `StoreImplementsBoard` | `Spec => ImplementsBoard`: every step is one of `TaskBoard`, or changes nothing there |
| Lemmas | `NewEdges` | checking each new edge against the graph with all new edges keeps it acyclic |
| MailboxProofs | `BoxTypes`, `NothingTwice` | `Spec => []TypeOK`, `Spec => []AtMostOnce`, whatever happens to the file |
| | `NothingAckedIsLost` | `Spec => []LostOnlyByChurn` |
| | `InboxIsPostbox` | `MCSpec => ImplementsPostbox`: every step of a stable inbox is one of `Postbox`, or changes nothing there |
| | `BatchTypes`, `NothingLostOrTwice` | `BatchSpec => []TypeOK` of the sender, `BatchSpec => []ExactlyOnce` |
| | `LockTypeCorrect`, `LockExclusion`, `LockMutualExclusion`, `LockNothingLeaked` | the corresponding invariants of `LockSpec` |
| RosterProofs | `RosterTypes` | `Spec => []TypeOK` |
| | `NoTeamReturnsByItself` | `Spec => BackOnlyByLateWrite` |
| | `RosterTellsWhoIsUp` | `Spec => []RosterTells` |
| | `TeardownIsThorough` | `Spec => []TeardownLeavesNobody` |
| TurnProofs | `OneChildHolds` | `Spec => []OneChild` |
| | `SuccessIsRealHolds` | `Spec => []SuccessIsReal` |
| | `SilenceIsReportedHolds` | `Spec => SilenceIsReported` |
| LoopsProofs | `LoopTypes` | `Spec => []TypeOK` |
| | `NoOrphansStay` | `Spec => []NoOrphans` |
| | `SpentStaysForgotten` | `Spec => []SpentIsForgotten` |
| | `GrantedWorkOnly` | `Spec => OnlyGrantedWorkCompletes` |
| WrapperProofs | `CheckpointKeepsWork` | `Saves!Spec => []CheckpointSaves` |
| | `BatchesHaveRoots` | `Desk!Spec => []NoTaskInItself` |
| | `CachesKnowTheirPeers` | `Spec => []KnowsItsPeers` of the cards |
| | `UninstallLeavesNoTrace` | `SetupSpec => []NoTrace` of the installer |
| | `InstallKeepsEdits` | `SetupSpec => []EditsKept` of the installer |
| | `InstallIsAllOrNothing` | `SetupSpec => AllOrNothing` of the installer |
| AdaptersProofs | `TypeCorrect` | `Spec => []TypeOK` |
| | `OneAtATime` | `Spec => []OneWorker`, for any team |
| | `NoTaskIsAbandoned` | `Spec => []GivenUpIsReported` |
| | `BoardIsRespected` | `Spec => BoardSteps`: the tasks go by steps of `TaskBoard` only |

**Task store.** None of the invariants is inductive alone: in the middle of a
section the disk is neither the old nor the new store, and a death may stop
there. `StoreInv` (TaskStore.tla) relates disk and goal: a goal has files only
where the disk has; references on the disk name files on the disk, and
references in the goal files of the goal; and the *union* of the wait edges of
disk and goal is acyclic, likewise for parents. The union is what makes the
argument go through: any mixture of old and new files has a subset of those
edges, so writing a file in whatever order, and dying after it, leaves an
acyclic graph. When a section begins, the union is the old graph with the edges
of the call, and that is what `CreatesCycle` has checked edge by edge, which
`NewEdges` turns into the statement about all of them. `UpdateFiles`,
`UpdateRefs`, `UpdateWaits`, `UpdateParents` and `UpdateCompleted` are the lemmas
about one call of `update_task`. That a deleted task is unlinked after every
other write is needed for the clause on references: the goal keeps none to it,
and the disk loses the file only once it equals the goal elsewhere. A torn file
(`InvOfTorn`) has lost its own references and is still there for those of others.

**The store as a board.** `BoardInv` (TaskStoreProofs.tla) adds that the goal's
two lists mirror each other and no file is torn until a process died, and that a task without a file has no
owner and waits for nothing, on disk and in the goal. The
mirror is what lets `TaskBoard` do without the second list: the blockers a
completion or deletion removes on the board, which only knows who waits for
whom, are those `update_task` finds in the `blocks` of the task. The lemmas
on `After` say of each field what one call of `update_task` makes of it, and
each operation is then one action of the board; a write, a release and a death
change nothing there. Together with `BoardIsRespected`, which shows that the
board `Adapters` works on takes steps of the same `TaskBoard`, this closes the
gap between the files and the loops that take an operation for one step.

**File lock.** `LockInv` (MailboxProofs.tla) adds to the types what each stage
of a call holds (`Stage`), that the counters of the two locks agree
(`Counted`), that an RLock has one holder (`OneHolder`) and that a file is locked
by threads of one process only (`OneFile`). Mutual exclusion follows with
`removals = 0`, where all threads lock the same file.

**Inbox.** The danger is that a section writes back a copy it read earlier.
`BoxInv` (MailboxProofs.tla) therefore says the same of the rows in the file and
of the copy of whoever has the lock (`Sound`): they hold a message once, and one
whose row is unread is neither in the owner's hands nor handled. `Locking` says
who has the file open, `Sending` that a batch under way is the last of what its
writer counted, so that it is in no row, and `Reading` that what was picked was
unread. This holds whatever unlinks, replaces or tears the file. `SteadyInv`
adds, while the file was neither unlinked nor replaced and nobody died, that a
copy is all of the file and that whatever was acknowledged is unread in it, in
the owner's hands or handled. What `Those` keeps of a sequence is proved from
its recursion, by `Upwards`.

**The inbox as a postbox.** `MCMailbox` adds the choice between two instances to
`Mailbox` and restricts the stable one to `StableStep`: no unlinking, no registration, no death, no
read by sender. The theorem is about that choice for any writers, messages and
batches. `Whole` says what makes the stable one simple: whoever rewrites has the
file at the path open and read all of it, and the owner picked all it found
unread. The rest is about order. `ThoseConcat` and `MessagesConcat` show that an
append puts its batch behind what waits (`Posts`), and every message of the
batch is new because what waits, is in hand or was handled is in nobody's batch
any more (`BoxOld`). `ThoseNone` and `ThoseMessages` show that a mark leaves
nothing unread and returns what waited in the order it waited (`Takes`); the
other steps change neither what waits nor what was taken.

**Batched sender.** `SendInv` says of each message that it was sent exactly if it
is in the buffer, in the inbox or in the hands of a flush, and that it is in one
of these only, once. The buffer of a failed flush goes in front of what came
meanwhile, which is another message; that no two flushes hold the same one is
part of the invariant.

**Adapters.** `FlowInv` ties the place in the loop to what the loop holds: a task
in flight exactly in a turn, at its end, and while notes put off are answered
before that end. `WorkInv` adds `Holds`: what an agent has in flight is in
progress and its own, unless it was finished or deleted by somebody else, or
the agent may be removed without being stopped, or was overruled. The proof
attempt showed that without the last exception the property fails for three
agents, which the instance with two did not have. `OneWorker` then follows from
an owner being one; `GivenUpIsReported` is inductive with it, as what is known
of a task only grows until the task is claimed again (`NewsGrows`).

**Roster.** The proofs rest on a classification of the steps, since some forty actions
meet the same few facts. Of the files (`Filing`): a step leaves them,
begins a section, ends one, removes the directory, or creates it. Of the
rows (`Rosters`): a step keeps them, puts one row, or takes one out; everything
but the removal of a directory is such a change of the rows that are there, and
not of the rows that were read (`Single`: while nothing was torn, what a section
has read is what there is). `Known`, `Paned` and `Spared` then
say who is in the roster, and `Whole` is their conjunction under `~torn`.
For the teardown, `Stales` says that a section from before a deletion, which may
still write its rows, knows no teammate but one that has come back, and `Owners`
that who was reset and keeps a task runs or has come back; `Bystanders` says what the operator's other commands may
hold at the same time. `TeardownInv` is the conjunction.

**Turns.** `TurnInv` (TurnProofs.tla) is a conjunction of six clauses besides the
types and `SuccessIsReal`. `Course` says at which places of the executor there can
be a child, and that the recovery comes after the turn has begun; a restart
begins only where there is none and no reader, as the lost child is closed
before, which is `OneChild`. A completion in the queue
was put there before the child died, perhaps by the first child and read after
the second has started: `Notes` keeps the queue and the server's view of each
turn together, and `Fresh` and `Second` say that a turn is begun only while
nothing of it is queued, so that no queued completion outlives the turn it is of.
`Logged` is the same for `codex exec`. `Pending` explains each mark on a tool's
failure: a failure closed with nothing heard since, and no recovery, was closed by the warning,
which reports what is due in the same step. That step is due in time only if
the warning is not set to come before the window, and the attempt to prove
`SilenceIsReported` without that condition is how it was found.

**Loops.** `LoopInv` (LoopsProofs.tla) has one statement for all four backends; the
differences are premises on `backend`. `Course` says place by place what the
invocation under way has: before the prompt no session, no question and no
refusal; after the child was taken out of the registry, none that lives.
`Reaped` splits the children by who knows them: the one of the
invocation under way, the one on record, and those that were never recorded or
were passed over (`unseen`); while the adapter is up, whatever else lives is
unseen, because a start has looked at everything else before it went on, and
a kill can only add the child of an invocation that had not recorded it. For `NoOrphans` it must also be
known that there are never more of them than there were crashes (`Few`), which
is why a process number can always be had for the next child. A spent session
(`Forgotten`) is never on disk and, in Gemini's loops, in no memory but at the end
of the very turn that spent it, whose result says so; one that a crash cut is
spent once a start looks into the crash, which takes it off the disk. `Granted`
lists what a turn of a task may be in once it asked: everything was allowed, or
it still waits for one answer, or it knows of a refusal, or it is hung; only the
first completes a task.

**Checkpoint.** `SavesInv` (WrapperProofs.tla) follows what an agent edited through
the tree, the index and the commit. The lock alone does not carry the argument,
since a commit moves HEAD without it: what does is that the commits grow. `Onward`
says that whoever is committing has read an index that holds all of the commit
it found, so that HEAD, which moves only from that commit, loses nothing by it; an
`add -A` under way and the index hold what HEAD does. `Kept` says of each agent
that what was there when its call began is still in the tree or was dropped, is
in the index once its `add -A` has ended and in what it is itself about to stage or
to commit, and is in the commit once it reports success, even if that commit was made by somebody else.

**Tools.** `DeskInv` has the types of tasks and calls, and the property itself. Every
write of a parent validates under the task lock, and `NewLink` turns what the
walk over the ancestors has seen into the absence of a cycle: no edge from t to p
closes one when t cannot be reached from p. `DeskLinks` covers every write, those
that clear the links to a deleted task among them. What a call has found out
earlier plays no part, and so the theorem holds for any calls in between.

**Cards.** `CardsInv` says of each cache and each peer that is up, unless the pair is among
the missed: an event of it is still to be sent to this inbox, or its card is in
its file and will be read, is held, or will be heard of (`Heard`). What a cache
will hear are the rows it has not applied, and for the child of a model, which
reads the whole inbox again, all rows as soon as there is one more (`Settled`,
`Passed`). The clause that makes it inductive is `Stays`: no farewell of the peer
is the last the cache will hear. The proof attempt failed at a peer that left,
came back and was killed before it had told anybody: its next start finds row
and version in place, tells nobody, and the farewell of the first process then
takes the card out of the others' caches. It takes four starts,
one more than the instance has, and the model's list of what is missed had not named it.

**Installer.** `SetupInv` says at every step of a command what the files and the
copies in its memory are. `Guarded` is the part for `EditsKept`: every copy that
may still be written back, and the one about to be, has what others wrote
(`HasTheirs`), and no receipt names an entry that was theirs, so that an
uninstall takes out none. `Unspoilt` is the part for `NoTrace`, under
`excuses = {}`: settings are `Pure`, as without us but for values of our own
variables, or `Ours`, as an install with this receipt leaves them. What an
uninstall makes of the latter is the lemma `StripOurs`. It needs that the receipt
tells where the file, the permissions and the allow list came from: if they are
ours and the user has put nothing there since, they go; what would be left
decides whether the file does. Our allow list must
not be empty for that: an empty list that we made could not be told from the
user's. `ModeOurs` is the same for `~/.claude.json`, and `Begun` and `Reported`
say what `AllOrNothing` needs of a command under way.

**Lemmas.** The library's induction principles cannot be used here, as they take
an operator as a parameter. `Upwards` states induction over the naturals with a
set in its place (0 is in it and it has the successors of its members), proved
from the least counterexample `LeastOf`, and the proofs define the set of the
numbers they want. The facts on sequences and paths (`InAppend`, `InConcat`,
`InTail`, `Reach...`) are stated once for all proofs.

**Only model-checked.** Liveness (`EventuallyHandled`, `EventuallyPosted`,
`EveryCallEnds`, `TeardownEnds`, `ShutdownHonored`, `NotesHandled`,
`FreeTaskIsTaken`, `TurnEnds`, `StopIsHonored`) is beyond the
prover. Every other property of a passing run is a theorem.

## 6. The plan

*Models*: the inbox watch (baselines taken too late) and the visibility tail
(fan-out, offsets); `Adapters` on a board whose ids come back.

Runs keep to one question each; as modules are added, instances of the same
module share a run.

## 7. Not modelled, and why

- *Reads of half a file.* Task files are read without a lock while one is being
  written; the adapter logs a listing that fails and tries again, which costs a
  poll, and `Adapters` allows a wait at any time.
- *Inbox watch, visibility log.* A bounded wait and an append-only log; nothing
  in the team's state depends on them.
- *Messages and models, configuration, prompts, diagnostics.* Pure data and
  text; the modules abstract them to records and small sets.
- *Lead tools* are partly modelled: the task and message tools, spawning, killing
  and teams are; summaries and checks that only read are not.
- *Spawning* is partly modelled: the lead's spawn is, the shim, which picks a
  binary and replaces itself by it, is not.
- *Other backends*: their command lines, settings files and preflights are left
  out but for their failure.
- *Installer*: the subcommands that only print, and the wording of refusals.

PROJECT.json lists every component with its status and every hazard with the
properties that cover it.

## 8. Running it

    tlc -workers 2 -config Tasks.cfg MCTaskStore.tla
    tlapm TaskStoreProofs.tla

The largest proof, RosterProofs, takes some minutes. All passing runs finish within five minutes on two workers; installer is the
largest, with 8 million states. Outside modules: `Naturals`, `Integers`,
`FiniteSets`, `Sequences`, `SequencesExt` of the community modules, and `TLAPS`.
