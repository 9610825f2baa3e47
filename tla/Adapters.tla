------------------------------ MODULE Adapters ------------------------------
(***************************************************************************)
(* Adapters at work on a team: each runs the loop of claude_anyteam/loop.py *)
(* (drain the inbox, claim a task from a list it has read without the lock,*)
(* execute it, report, wait), while the lead assigns, links, completes and *)
(* deletes tasks, sends messages, and removes members (claude_teams/       *)
(* server.py).  The task store appears as TaskBoard promises it and an     *)
(* inbox as Postbox does, every operation one step: TaskStore and Mailbox  *)
(* say what is under them.  Auto-pickup, idle notifications and capability *)
(* manifests are left out.                                                 *)
(***************************************************************************)
EXTENDS Integers, SequencesExt

CONSTANTS Agents,
          Tasks,       \* ids of the tasks there are at the start, all pending
          NoTask, NoOwner,
          Notes,       \* what somebody writes and waits for an answer to
          Letters,     \* what a note may be: pairs of a kind and a note
          Requests,    \* ids of shutdown requests
          AppServer,   \* agents that drain their inbox in the middle of a turn
          Planners,    \* agents in plan mode
          Panes,       \* agents whose row in the config names a tmux pane
          MaxSends,    \* bound: shutdown requests sent
          MaxDeletes,  \* bound: tasks deleted
          MaxRaises,   \* bound: turns, answers and reports that fail
          MaxKills,    \* bound: members killed by force
          MaxSignals   \* bound: signals

ASSUME AdaptersAssumption ==
  /\ Tasks \subseteq Nat /\ NoTask \notin Tasks /\ NoOwner \notin Agents
  /\ AppServer \subseteq Agents /\ Panes \subseteq Agents /\ Planners \subseteq Agents
  /\ Letters \subseteq {"note", "order", "steer", "vain steer", "aside", "plan", "bare plan"} \X Notes
  /\ {MaxSends, MaxDeletes, MaxRaises, MaxKills, MaxSignals} \subseteq Nat

\* Prose of a peer ("note") or of the lead ("order"); typed steers of the lead, of
\* a peer that does not mean to interrupt ("aside"), or in vain: with no text, or
\* of a peer that means to, at an agent that takes steers of the lead only; and
\* requests for a plan, with the id that the answer is to carry or without.
Kinds == {"note", "order", "steer", "vain steer", "aside", "plan", "bare plan"}
Prose == {"note", "order"}
Plans == {"plan", "bare plan"}
Steers == {"order", "steer"}    \* in a turn
PutsOff == {"note", "aside"}    \* in a turn
Message == Letters \union ({"shutdown"} \X Requests)

VARIABLES
  status, owner, waits,   \* the tasks, as in TaskBoard
  members,                \* who is in the team's config
  inbox,                  \* agent -> its unread messages
  pc,                     \* where each agent's loop is
  batch,                  \* agent -> messages drained and not dispatched
  candidates,             \* agent -> tasks it will try to claim: its own, then the unowned
  inFlight,               \* agent -> state.in_flight_task
  stopping,               \* agent -> state.shutdown_requested
  seen,                   \* agent -> state.seen_shutdown_request_ids
  deferred,               \* agent -> notes put off to the end of the turn
  steered,                \* agent -> notes to be steered into the turn
  talk,                   \* agent -> the notes it answers, and what comes then
  answers,                \* answers to shutdown requests in the lead's inbox
  news,                   \* history: task -> what became of the work on it since its last claim
  handled,                \* history: notes whose sender has got something back
  dropped,                \* history: notes that go without an answer, for one of Reasons
  toReset,                \* removed members whose tasks are still to be reset
  overruled,              \* history: agents whose task in flight was given to another
  unsent,                 \* bound: the notes that are still to be written, each once
  sends, deletes, raises, kills, signals

tasks == <<status, owner, waits>>
lead == <<members, toReset>>
aside == <<deferred, steered, talk>>
work == <<inFlight, overruled>>
loop == <<pc, batch, candidates, work, stopping, seen, aside>>
said == <<answers, news, handled, dropped>>
others == <<unsent, sends, deletes, kills, signals>>
bounds == <<raises, others>>
vars == <<tasks, lead, inbox, loop, said, bounds>>

Places == {"drain", "handle", "prose", "repair", "plan", "replan", "list", "claim",
           "turn", "retry", "defer", "complete", "block", "idle", "exit", "leaving",
           "gone", "crashed", "killed"}
Over == {"gone", "crashed", "killed"}

Reasons == {"steered into a turn", "a steer too late", "a steer between turns", "nothing for a turn",
            "no plan mode", "a plan without an id",
            "a plan of a completed task", "left out by the model", "a send that failed",
            "a turn that raised"}

\* The lead is told of a blocked task in two ways: by a mark on the task and by
\* a message.
Ways == {"marked", "reported"}
News == Ways \union {"untold", "refused", "killed"}

\* The notes that are answered, the task a plan is for, where the loop goes on
\* after notes that were put off.
Silent == [notes |-> {}, task |-> NoTask, then |-> "none"]

TypeOK ==
  /\ status \in [Tasks -> {"absent", "pending", "in_progress", "completed"}]
  /\ owner \in [Tasks -> Agents \union {NoOwner}]
  /\ waits \in [Tasks -> SUBSET Tasks]
  /\ members \subseteq Agents /\ toReset \subseteq Agents
  /\ inbox \in [Agents -> Seq(Message)] /\ batch \in [Agents -> Seq(Message)]
  /\ candidates \in [Agents -> [own : SUBSET Tasks, unowned : SUBSET Tasks]]
  /\ pc \in [Agents -> Places]
  /\ inFlight \in [Agents -> Tasks \union {NoTask}]
  /\ stopping \in [Agents -> BOOLEAN]
  /\ seen \in [Agents -> SUBSET Requests]
  /\ deferred \in [Agents -> SUBSET Notes] /\ steered \in [Agents -> SUBSET Notes]
  /\ talk \in [Agents -> [notes : SUBSET Notes, task : Tasks \union {NoTask},
                          then : {"none", "complete", "block"}]]
  /\ answers \subseteq {"approved", "rejected"} \X Agents \X Requests
  /\ news \in [Tasks -> SUBSET News]
  /\ handled \subseteq Notes /\ dropped \subseteq Notes
  /\ overruled \subseteq Agents

\* No candidates.
Nothing == [own |-> {}, unowned |-> {}]

\* Agents that have just started, with these tasks; the others are gone already,
\* and so many kills are counted already.
Start(here, there, killed) ==
  /\ status = [i \in Tasks |-> IF i \in there THEN "pending" ELSE "absent"]
  /\ owner = [i \in Tasks |-> NoOwner]
  /\ waits = [i \in Tasks |-> {}]
  /\ members = here /\ toReset = {}
  /\ inbox = [a \in Agents |-> <<>>]
  /\ pc = [a \in Agents |-> IF a \in here THEN "drain" ELSE "gone"]
  /\ batch = [a \in Agents |-> <<>>]
  /\ candidates = [a \in Agents |-> Nothing]
  /\ inFlight = [a \in Agents |-> NoTask] /\ overruled = {}
  /\ stopping = [a \in Agents |-> FALSE]
  /\ seen = [a \in Agents |-> {}]
  /\ deferred = [a \in Agents |-> {}] /\ steered = [a \in Agents |-> {}]
  /\ talk = [a \in Agents |-> Silent]
  /\ answers = {} /\ news = [i \in Tasks |-> {}] /\ handled = {} /\ dropped = {}
  /\ unsent = Notes /\ sends = 0 /\ deletes = 0 /\ raises = 0 /\ kills = killed /\ signals = 0

Init == Start(Agents, Tasks, 0)

Goto(a, l) == pc' = [pc EXCEPT ![a] = l]

-----------------------------------------------------------------------------
(* The board. *)

\* A task waits for one that exists and is not completed.
Blocked(i) == \E b \in waits[i] : status[b] \notin {"completed", "absent"}

\* The pending, unblocked tasks assigned to the agent.
Mine(a) == {i \in Tasks : owner[i] = a /\ status[i] = "pending" /\ ~Blocked(i)}
Unowned == {i \in Tasks : owner[i] = NoOwner /\ status[i] = "pending" /\ ~Blocked(i)}

\* A mutant: those that wait for the task go on waiting.
Finish_KeepsWaits(i) ==
  /\ status' = [status EXCEPT ![i] = "completed"]
  /\ UNCHANGED <<waits, owner>>

\* What update_task does when a task is completed.
Finish(i) ==
  /\ status' = [status EXCEPT ![i] = "completed"]
  /\ waits' = [j \in Tasks |-> IF j = i THEN waits[j] ELSE waits[j] \ {i}]
  /\ UNCHANGED owner

-----------------------------------------------------------------------------
(* The loop: messages. *)

\* With its messages dispatched the loop goes on to the tasks, unless it has
\* a shutdown to honour.
Proceed(a, rest) ==
  Goto(a, IF rest # <<>> THEN "handle" ELSE IF stopping[a] THEN "idle" ELSE "list")

\* Everything unread is taken and marked.
Drain(a) ==
  /\ pc[a] = "drain"
  /\ batch' = [batch EXCEPT ![a] = inbox[a]]
  /\ inbox' = [inbox EXCEPT ![a] = <<>>]
  /\ Proceed(a, inbox[a])
  /\ UNCHANGED <<tasks, lead, candidates, work, stopping, seen, aside, said, bounds>>

\* The messages at the head of a batch that are prose: one turn for all.
Run(ms) == SelectInSeq(Append(ms, <<"end">>), LAMBDA m : m[1] \notin Prose) - 1

HandleNotes(a) ==
  LET n == Run(batch[a]) IN
  /\ pc[a] = "handle" /\ n > 0
  /\ talk' = [talk EXCEPT ![a].notes = {m[2] : m \in ToSet(SubSeq(batch[a], 1, n))}]
  /\ batch' = [batch EXCEPT ![a] = SubSeq(@, n + 1, Len(@))]
  /\ Goto(a, "prose")
  /\ UNCHANGED <<tasks, lead, inbox, candidates, work, stopping, seen, deferred,
                 steered, said, bounds>>

Drop(why, ns) == why \in Reasons /\ dropped' = dropped \union ns

\* What can fail beside others: at most so often, and it is only logged.
Failing(lost) ==
  \/ lost = {} /\ UNCHANGED raises
  \/ lost # {} /\ raises < MaxRaises /\ raises' = raises + 1

\* A typed steer has nothing to steer between turns.
HandleSteer(a) ==
  /\ pc[a] = "handle" /\ Head(batch[a])[1] \notin Prose \union Plans \union {"shutdown"}
  /\ Drop("a steer between turns", {Head(batch[a])[2]})
  /\ batch' = [batch EXCEPT ![a] = Tail(@)]
  /\ Proceed(a, Tail(batch[a]))
  /\ UNCHANGED <<tasks, lead, inbox, candidates, work, stopping, seen, aside,
                 answers, news, handled, bounds>>

\* New requests are remembered and answered, if that does not fail; one seen
\* before is ignored.
Answer(a, rs, kind) == \E lost \in SUBSET (rs \ seen[a]) :
  /\ answers' = answers \union {<<kind, a, r>> : r \in (rs \ seen[a]) \ lost}
  /\ seen' = [seen EXCEPT ![a] = @ \union rs]
  /\ Failing(lost)

\* _handle_shutdown between turns: a new request is approved, and the loop
\* ends with the rest of the batch undispatched.
HandleShutdown(a) ==
  /\ pc[a] = "handle" /\ Head(batch[a])[1] = "shutdown"
  /\ Answer(a, {Head(batch[a])[2]}, "approved")
  /\ IF Head(batch[a])[2] \in seen[a]
     THEN batch' = [batch EXCEPT ![a] = Tail(@)] /\ Proceed(a, Tail(batch[a]))
     ELSE batch' = [batch EXCEPT ![a] = <<>>] /\ Goto(a, "exit")
  /\ UNCHANGED <<tasks, lead, inbox, candidates, work, stopping, aside, news,
                 handled, dropped, others>>

-----------------------------------------------------------------------------
(* The loop: answers. *)

\* The answers are given: on with the batch, with what was put off, or with the
\* end of the task.
Goes(a) ==
  /\ talk' = [talk EXCEPT ![a] = IF deferred[a] = {} THEN Silent ELSE [@ EXCEPT !.notes = {}]]
  /\ CASE talk[a].then = "none" -> Proceed(a, batch[a])
       [] talk[a].then # "none" /\ deferred[a] # {} -> Goto(a, "defer")
       [] talk[a].then # "none" /\ deferred[a] = {} -> Goto(a, talk[a].then)

Answers(a) == pc[a] \in {"prose", "repair"}
AnswersEnd(a) ==
  /\ Goes(a)
  /\ UNCHANGED <<tasks, lead, inbox, batch, candidates, work, stopping, seen,
                 deferred, steered, answers, news, others>>

\* The turn is a success and has called send_message: the adapter adds nothing,
\* and whom the model has left out gets no answer.
ByTool(a) == \E told \in SUBSET talk[a].notes \ {{}} :
  /\ Answers(a)
  /\ handled' = handled \union told
  /\ Drop("left out by the model", talk[a].notes \ told)
  /\ AnswersEnd(a) /\ UNCHANGED raises

\* The model says that it has no tool to answer with: it is asked again, once.
Claims(a) ==
  /\ pc[a] = "prose"
  /\ Goto(a, "repair")
  /\ UNCHANGED <<tasks, lead, inbox, batch, candidates, work, stopping, seen, aside,
                 said, bounds>>

\* What is sent to each of these senders; what cannot be stored is lost.
Tell(ns) == \E lost \in SUBSET ns :
  /\ handled' = handled \union (ns \ lost)
  /\ Drop("a send that failed", lost)
  /\ Failing(lost)

\* A mutant: the text goes to one of the senders.
Reply_First(a) ==
  /\ Answers(a)
  /\ Tell({CHOOSE n \in talk[a].notes : TRUE})
  /\ AnswersEnd(a)

\* Every sender gets the model's text, or a pointer to the incident if there is
\* none, if the turn failed or raised, or if the claim was repeated.
Reply(a) ==
  /\ Answers(a)
  /\ Tell(talk[a].notes)
  /\ AnswersEnd(a)

PutOff(a) == \E n \in deferred[a] :
  /\ pc[a] = "defer"
  /\ deferred' = [deferred EXCEPT ![a] = @ \ {n}]
  /\ talk' = [talk EXCEPT ![a].notes = {n}]
  /\ Goto(a, "prose")
  /\ UNCHANGED <<tasks, lead, inbox, batch, candidates, work, stopping, seen,
                 steered, said, bounds>>

\* The task the request names, or else one to be claimed, if there is one.
Target(i) == status[i] # "absent"
NoTarget(a) == Mine(a) \union Unowned = {}

HandlePlan(a) ==
  LET n == Head(batch[a])[2] IN
  /\ pc[a] = "handle" /\ Head(batch[a])[1] \in Plans
  /\ batch' = [batch EXCEPT ![a] = Tail(@)]
  /\ \/ /\ a \notin Planners /\ Drop("no plan mode", {n})
        /\ Proceed(a, Tail(batch[a])) /\ UNCHANGED <<talk, handled, raises>>
     \/ /\ a \in Planners /\ Head(batch[a])[1] = "bare plan"
        /\ Drop("a plan without an id", {n})
        /\ Proceed(a, Tail(batch[a])) /\ UNCHANGED <<talk, handled, raises>>
     \/ /\ a \in Planners /\ Head(batch[a])[1] = "plan"
        /\ NoTarget(a) /\ Tell({n})
        /\ Proceed(a, Tail(batch[a])) /\ UNCHANGED talk
     \/ \E i \in Tasks :
          /\ a \in Planners /\ Head(batch[a])[1] = "plan"
          /\ Target(i) /\ Goto(a, "plan")
          /\ talk' = [talk EXCEPT ![a].notes = {n}, ![a].task = i]
          /\ UNCHANGED <<handled, dropped, raises>>
  /\ UNCHANGED <<tasks, lead, inbox, candidates, work, stopping, seen, deferred,
                 steered, answers, news, others>>

Planned(a) ==
  /\ Goes(a)
  /\ UNCHANGED <<tasks, lead, inbox, batch, candidates, work, stopping, seen,
                 deferred, steered, answers, others>>

PlanSent(a) ==
  /\ pc[a] \in {"plan", "replan"}
  /\ Tell(talk[a].notes)
  /\ Planned(a) /\ UNCHANGED news

PlanAgain(a) ==
  /\ pc[a] = "plan"
  /\ Goto(a, "replan")
  /\ UNCHANGED <<tasks, lead, inbox, batch, candidates, work, stopping, seen, aside,
                 said, bounds>>

\* A mutant: marking and telling are tried together.
MarkBlocked_OneTry(i, done) ==
  /\ status[i] # "completed"
  /\ Failing(Ways \ done)
  /\ news' = [news EXCEPT ![i] = @ \union (IF "marked" \in done THEN done ELSE {})]

\* _mark_blocked: the task is marked and the lead is told, whoever has the task,
\* but for one that is completed by now; either may fail without the other.
MarkBlocked(i, done) ==
  /\ status[i] # "completed"
  /\ IF status[i] = "absent" /\ done = {"reported"} THEN UNCHANGED raises
     ELSE Failing(Ways \ done)
  /\ news' = [news EXCEPT ![i] = @ \union IF done = {} THEN {"untold"} ELSE done]

\* Twice no plan: the task is blocked, which is all that the sender hears.
PlanFails(a) ==
  /\ pc[a] = "replan"
  /\ \/ /\ status[talk[a].task] = "completed"
        /\ Drop("a plan of a completed task", talk[a].notes)
        /\ UNCHANGED <<news, handled, raises>>
     \/ \E done \in SUBSET Ways :
          /\ MarkBlocked(talk[a].task, done)
          /\ handled' = IF "reported" \in done THEN handled \union talk[a].notes ELSE handled
          /\ Drop("a send that failed", IF "reported" \in done THEN {} ELSE talk[a].notes)
  /\ Planned(a)

-----------------------------------------------------------------------------
(* The loop: tasks. *)

\* On to the first of the candidates, or to wait if there is none.
Try(a, c) ==
  /\ candidates' = [candidates EXCEPT ![a] = c]
  /\ Goto(a, IF c = Nothing THEN "idle" ELSE "claim")

\* The candidate to try: assigned tasks first, lowest id first.
IsNext(a, i) ==
  LET c == candidates[a]
      s == IF c.own # {} THEN c.own ELSE c.unowned IN
  i \in s /\ \A j \in s : i <= j

\* list_tasks, without the lock.
List(a) ==
  /\ pc[a] = "list"
  /\ Try(a, [own |-> Mine(a), unowned |-> Unowned])
  /\ UNCHANGED <<tasks, lead, inbox, batch, work, stopping, seen, aside, said, bounds>>

\* A mutant: only tasks that were assigned may be claimed.
Free_Assigned(a, i) == status[i] = "pending" /\ owner[i] = a

\* claim_task's compare-and-set; blocked_by is not looked at again.
Free(a, i) == status[i] = "pending" /\ owner[i] \in {NoOwner, a}

Claim(a) == \E i \in Tasks :
  /\ pc[a] = "claim"
  /\ IsNext(a, i) /\ Free(a, i)
  /\ status' = [status EXCEPT ![i] = "in_progress"]
  /\ owner' = [owner EXCEPT ![i] = a]
  /\ inFlight' = [inFlight EXCEPT ![a] = i]
  /\ candidates' = [candidates EXCEPT ![a] = Nothing]
  /\ news' = [news EXCEPT ![i] = {}]
  /\ Goto(a, "turn")
  /\ UNCHANGED <<waits, lead, inbox, batch, overruled, stopping, seen, aside, answers,
                 handled, dropped, bounds>>

\* Somebody else was faster: the next candidate.
ClaimRace(a) == \E i \in Tasks :
  /\ pc[a] = "claim"
  /\ IsNext(a, i) /\ status[i] # "absent" /\ ~Free(a, i)
  /\ Try(a, [own |-> candidates[a].own \ {i}, unowned |-> candidates[a].unowned \ {i}])
  /\ UNCHANGED <<tasks, lead, inbox, batch, work, stopping, seen, aside, said, bounds>>

\* The task is gone: FileNotFoundError, which the loop does not catch.
ClaimVanished(a) == \E i \in Tasks :
  /\ pc[a] = "claim"
  /\ IsNext(a, i) /\ status[i] = "absent"
  /\ candidates' = [candidates EXCEPT ![a] = Nothing]
  /\ Goto(a, "crashed")
  /\ UNCHANGED <<tasks, lead, inbox, batch, work, stopping, seen, aside, said, bounds>>

\* The mid-turn hook of the App Server path drains the inbox: shutdown requests
\* are rejected, to be honoured after the task; what the lead says becomes a
\* steer, what peers say is put off, and vain steers and requests for a plan are
\* passed over.
MidTurn(a) ==
  LET ms == ToSet(inbox[a])
      rs == {r \in Requests : <<"shutdown", r>> \in ms}
      Of(kinds) == {n \in Notes : \E k \in kinds : <<k, n>> \in ms} IN
  /\ pc[a] = "turn" /\ a \in AppServer
  /\ inbox[a] # <<>>
  /\ inbox' = [inbox EXCEPT ![a] = <<>>]
  /\ Answer(a, rs, "rejected")
  /\ stopping' = [stopping EXCEPT ![a] = @ \/ rs \ seen[a] # {}]
  /\ deferred' = [deferred EXCEPT ![a] = @ \union Of(PutsOff)]
  /\ steered' = [steered EXCEPT ![a] = @ \union Of(Steers)]
  /\ Drop("nothing for a turn", Of({"vain steer"} \union Plans))
  /\ UNCHANGED <<tasks, lead, pc, batch, candidates, work, talk, news, handled, others>>

\* turn/steer, which fails when the turn has ended by now; nobody gets an answer
\* to a steer.
Steer(a) ==
  /\ pc[a] = "turn" /\ steered[a] # {}
  /\ Drop("steered into a turn", steered[a]) \/ Drop("a steer too late", steered[a])
  /\ steered' = [steered EXCEPT ![a] = {}]
  /\ UNCHANGED <<tasks, lead, inbox, pc, batch, candidates, work, stopping, seen,
                 deferred, talk, answers, news, handled, bounds>>

\* The turn of a resumed `codex exec` session fails or does not keep to the
\* schema: once more.
TurnAgain(a) ==
  /\ pc[a] = "turn" /\ a \notin AppServer
  /\ Goto(a, "retry")
  /\ UNCHANGED <<tasks, lead, inbox, batch, candidates, work, stopping, seen, aside,
                 said, bounds>>

\* The turn ends, with a result or without; then the notes put off are handled,
\* and a steer that is still in the queue stays there.
TurnEnds(a, next) ==
  /\ pc[a] \in {"turn", "retry"}
  /\ IF deferred[a] = {}
     THEN Goto(a, next) /\ UNCHANGED talk
     ELSE Goto(a, "defer") /\ talk' = [talk EXCEPT ![a].then = next]
  /\ Drop("a steer too late", steered[a])
  /\ steered' = [steered EXCEPT ![a] = {}]
  /\ UNCHANGED <<tasks, lead, inbox, batch, candidates, work, stopping, seen,
                 deferred, answers, news, handled, bounds>>

\* app_server_invoke raises: the notes that were put off are gone, and so are
\* the steers in the queue.
TurnRaises(a) ==
  /\ pc[a] = "turn" /\ a \in AppServer
  /\ raises < MaxRaises
  /\ raises' = raises + 1
  /\ Goto(a, "block")
  /\ deferred' = [deferred EXCEPT ![a] = {}]
  /\ steered' = [steered EXCEPT ![a] = {}]
  /\ Drop("a turn that raised", deferred[a] \union steered[a])
  /\ UNCHANGED <<tasks, lead, inbox, batch, candidates, work, stopping, seen, talk,
                 answers, news, handled, others>>

\* Every end of _execute_task: no task is in flight, and the loop starts over.
TaskOver(a) ==
  /\ inFlight' = [inFlight EXCEPT ![a] = NoTask] /\ overruled' = overruled \ {a}
  /\ Goto(a, "drain")
  /\ UNCHANGED <<lead, inbox, batch, candidates, stopping, seen, aside, answers,
                 handled, dropped, others>>

\* update_task(status="completed"), which does not look at the owner, and
\* send_task_complete, on which nothing depends: the board shows it.
Complete(a) ==
  /\ pc[a] = "complete"
  /\ status[inFlight[a]] # "absent" /\ ~Blocked(inFlight[a])
  /\ Finish(inFlight[a])
  /\ TaskOver(a)
  /\ UNCHANGED <<news, raises>>

\* It raises, when the task is gone or has come to wait for another: that is
\* logged, and nobody is told.
CompleteRefused(a) ==
  /\ pc[a] = "complete"
  /\ status[inFlight[a]] = "absent" \/ Blocked(inFlight[a])
  /\ news' = [news EXCEPT ![inFlight[a]] = @ \union {"refused"}]
  /\ TaskOver(a)
  /\ UNCHANGED <<tasks, raises>>

\* The turn failed: the task stays in progress and is marked as blocked.
Block(a) ==
  /\ pc[a] = "block"
  /\ \/ status[inFlight[a]] = "completed" /\ UNCHANGED <<news, raises>>
     \/ \E done \in SUBSET Ways : MarkBlocked(inFlight[a], done)
  /\ TaskOver(a)
  /\ UNCHANGED tasks

-----------------------------------------------------------------------------
(* The loop: coming to an end. *)

\* A mutant: a shutdown that was put off is not honoured.
Wake_GoesOn(a) ==
  /\ pc[a] = "idle"
  /\ Goto(a, "drain")
  /\ UNCHANGED <<tasks, lead, inbox, batch, candidates, work, stopping, seen, aside,
                 said, bounds>>

\* The wait is over: a shutdown that was put off, or a signal, is honoured.
Wake(a) ==
  /\ pc[a] = "idle"
  /\ Goto(a, IF stopping[a] THEN "exit" ELSE "drain")
  /\ UNCHANGED <<tasks, lead, inbox, batch, candidates, work, stopping, seen, aside,
                 said, bounds>>

\* deregister: out of the config first ...
Deregister(a) ==
  /\ pc[a] = "exit"
  /\ members' = members \ {a}
  /\ Goto(a, "leaving")
  /\ UNCHANGED <<tasks, toReset, inbox, batch, candidates, work, stopping, seen,
                 aside, said, bounds>>

\* ... then the inbox is unlinked.
Leave(a) ==
  /\ pc[a] = "leaving"
  /\ inbox' = [inbox EXCEPT ![a] = <<>>]
  /\ Goto(a, "gone")
  /\ UNCHANGED <<tasks, lead, batch, candidates, work, stopping, seen, aside, said, bounds>>

\* SIGTERM or SIGINT.
Signal(a) ==
  /\ pc[a] \notin Over /\ ~stopping[a]
  /\ signals < MaxSignals
  /\ signals' = signals + 1
  /\ stopping' = [stopping EXCEPT ![a] = TRUE]
  /\ UNCHANGED <<tasks, lead, inbox, pc, batch, candidates, work, seen, aside, said,
                 unsent, sends, deletes, raises, kills>>

-----------------------------------------------------------------------------
(* The lead. *)

\* send_message, to a member; the harness may send the same request again.
Send(a, m) ==
  /\ a \in members
  /\ IF m[1] = "shutdown"
     THEN sends < MaxSends /\ sends' = sends + 1 /\ UNCHANGED unsent
     ELSE m[2] \in unsent /\ unsent' = unsent \ {m[2]} /\ UNCHANGED sends
  /\ inbox' = [inbox EXCEPT ![a] = Append(@, m)]
  /\ UNCHANGED <<tasks, lead, loop, said, deletes, raises, kills, signals>>

\* task_update(owner), whatever the task's status.
Assign(i, a) ==
  /\ a \in members
  /\ status[i] # "absent" /\ owner[i] # a
  /\ owner' = [owner EXCEPT ![i] = a]
  /\ overruled' = overruled \union
       {b \in Agents \ {a} : inFlight[b] = i /\ status[i] = "in_progress"}
  /\ UNCHANGED <<status, waits, lead, inbox, pc, batch, candidates, inFlight, stopping, seen,
                 aside, said, bounds>>

\* task_update(add_blocked_by), here only by tasks with smaller ids.
AddWait(i, j) ==
  /\ j < i /\ status[i] # "absent" /\ status[j] # "absent"
  /\ waits' = [waits EXCEPT ![i] = @ \union {j}]
  /\ UNCHANGED <<status, owner, lead, inbox, loop, said, bounds>>

\* task_update(status="completed").
LeadCompletes(i) ==
  /\ status[i] \in {"pending", "in_progress"} /\ ~Blocked(i)
  /\ Finish(i)
  /\ UNCHANGED <<lead, inbox, loop, said, bounds>>

\* task_update(status="deleted").
Delete(i) ==
  /\ deletes < MaxDeletes
  /\ status[i] # "absent"
  /\ deletes' = deletes + 1
  /\ status' = [status EXCEPT ![i] = "absent"]
  /\ owner' = [owner EXCEPT ![i] = NoOwner]
  /\ waits' = [j \in Tasks |-> IF j = i THEN {} ELSE waits[j] \ {i}]
  /\ UNCHANGED <<lead, inbox, loop, said, unsent, sends, raises, kills, signals>>

\* A mutant: the process is left alone.
Dismiss_LetsLive(a) ==
  /\ a \in members
  /\ members' = members \ {a}
  /\ toReset' = toReset \union {a}
  /\ UNCHANGED <<tasks, inbox, loop, said, unsent, sends, deletes, raises, signals>>

\* A member's pane is killed, and it is taken out of the config ...  A member
\* that registered itself has none ("in-process"), and lives on.
Dismiss(a) ==
  /\ a \in members
  /\ members' = members \ {a}
  /\ toReset' = toReset \union {a}
  /\ IF a \in Panes /\ pc[a] \notin Over
     THEN /\ Goto(a, "killed")
          /\ batch' = [batch EXCEPT ![a] = <<>>]
          /\ candidates' = [candidates EXCEPT ![a] = Nothing]
          /\ deferred' = [deferred EXCEPT ![a] = {}]
          /\ steered' = [steered EXCEPT ![a] = {}]
          /\ talk' = [talk EXCEPT ![a] = Silent]
          /\ inFlight' = [inFlight EXCEPT ![a] = NoTask] /\ overruled' = overruled \ {a}
          /\ news' = [i \in Tasks |-> IF i = inFlight[a] THEN news[i] \union {"killed"}
                                      ELSE news[i]]
     ELSE UNCHANGED <<pc, batch, candidates, aside, work, news>>
  /\ UNCHANGED <<tasks, inbox, stopping, seen, answers, handled, dropped, unsent, sends,
                 deletes, raises, signals>>

\* process_shutdown_approved, when the approval is in the lead's inbox.
ProcessApproved(a) ==
  /\ \E r \in Requests : <<"approved", a, r>> \in answers
  /\ Dismiss(a)
  /\ UNCHANGED kills

ForceKill(a) ==
  /\ kills < MaxKills
  /\ kills' = kills + 1
  /\ Dismiss(a)

\* ... and then reset_owner_tasks gives its tasks back.
Reset(a) ==
  /\ a \in toReset
  /\ toReset' = toReset \ {a}
  /\ owner' = [i \in Tasks |-> IF owner[i] = a THEN NoOwner ELSE owner[i]]
  /\ status' = [i \in Tasks |-> IF owner[i] = a /\ status[i] \notin {"completed", "absent"}
                                THEN "pending" ELSE status[i]]
  /\ UNCHANGED <<waits, members, inbox, loop, said, bounds>>

-----------------------------------------------------------------------------
Turn(a) == TurnEnds(a, "complete") \/ TurnEnds(a, "block")

LoopStep(a) ==
  \/ Drain(a) \/ HandleNotes(a) \/ HandleSteer(a) \/ HandleShutdown(a) \/ HandlePlan(a)
  \/ ByTool(a) \/ Claims(a) \/ Reply(a) \/ PutOff(a)
  \/ PlanSent(a) \/ PlanAgain(a) \/ PlanFails(a)
  \/ List(a) \/ Claim(a) \/ ClaimRace(a) \/ ClaimVanished(a)
  \/ Turn(a) \/ TurnAgain(a) \/ Complete(a) \/ CompleteRefused(a) \/ Block(a)
  \/ Wake(a) \/ Deregister(a) \/ Leave(a)

LeadStep ==
  \/ \E a \in Agents, m \in Message : Send(a, m)
  \/ \E i \in Tasks, a \in Agents : Assign(i, a)
  \/ \E i, j \in Tasks : AddWait(i, j)
  \/ \E i \in Tasks : LeadCompletes(i) \/ Delete(i)
  \/ \E a \in Agents : ProcessApproved(a) \/ ForceKill(a) \/ Reset(a)

Next ==
  \/ \E a \in Agents : LoopStep(a) \/ MidTurn(a) \/ Steer(a) \/ TurnRaises(a) \/ Signal(a)
  \/ LeadStep

\* A living loop goes on, and its turns end: they have timeouts.  The lead is
\* free to do nothing.
Fairness == \A a \in Agents : WF_vars(LoopStep(a))

Spec == Init /\ [][Next]_vars /\ Fairness

-----------------------------------------------------------------------------
(* What the lead can rely on. *)

\* The tasks go only by steps that the task store provides.
Board == INSTANCE TaskBoard WITH Ids <- Tasks, parent <- [i \in Tasks |-> NoTask]
BoardSteps == [][Board!Next]_tasks

\* No two agents work on the same task, though they list tasks without the
\* lock, and though tasks are given back and claimed again.  There are two
\* exceptions: a member with no pane to kill, whose task is given back by
\* force_kill_teammate while it goes on working, and an agent whose task the
\* lead has given to another: when that other is removed, its tasks are given
\* back, whoever works on them.
OneWorker ==
  \A a, b \in Agents : inFlight[a] # NoTask /\ inFlight[a] = inFlight[b] =>
     a = b \/ \E c \in {a, b} : c \notin Panes \union members \/ c \in overruled

\* A task in progress that nobody works on any more has come to be known as
\* blocked since it was last claimed, by its mark or by the report to the lead;
\* the exceptions are an agent that was killed at it, a completion that was
\* refused, and a block of which both the mark and the report failed.
GivenUpIsReported ==
  \A i \in Tasks :
     /\ status[i] = "in_progress" /\ \A a \in Agents : inFlight[a] # i
     /\ {"killed", "refused", "untold"} \intersect news[i] = {}
     => Ways \intersect news[i] # {}

\* "Every team-protocol call is wrapped so a transient FS race doesn't kill the
\* loop": no loop ends but by a shutdown or by force.
LoopSurvivesRaces == \A a \in Agents : pc[a] # "crashed"

\* Whoever is asked to shut down does so, a task in flight or not.
ShutdownHonored ==
  \A a \in Agents, r \in Requests :
     Contains(inbox[a], <<"shutdown", r>>) ~> pc[a] \in Over

\* "So the sender is never left with total silence": whoever writes gets an
\* answer, a batch, a failed turn and a task in between or not.  The exceptions
\* are the agent's end and the named ways for a note to go without an answer.
NotesHandled ==
  \A a \in Agents, n \in Notes :
     (\E k \in Kinds : Contains(inbox[a], <<k, n>>)) ~>
       n \in handled \/ n \in dropped \/ pc[a] \in Over

\* A task that is free to take is taken, as long as somebody is there who is
\* not about to shut down.
FreeTaskIsTaken ==
  \A i \in Tasks :
     i \in Unowned ~> \/ i \notin Unowned
                      \/ \A a \in Agents : stopping[a] \/ pc[a] \in {"exit", "leaving"} \union Over
=============================================================================
