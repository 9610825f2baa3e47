-------------------------------- MODULE Loops --------------------------------
(***************************************************************************)
(* One adapter of the Gemini, Kimi or native Claude kind: its single-      *)
(* threaded main loop, the invocations of its command line tool, the       *)
(* Gemini ACP session with its child process and its permission bridge,    *)
(* and the recovery of a new adapter from the crash of the one before it.  *)
(*                                                                         *)
(* Backends: "acp" (Gemini over ACP), "headless" (Gemini, one process per  *)
(* turn), "kimi", "native".  An adapter talks to the lead through inbox;   *)
(* disk is the adapter's state.json, which alone survives a crash; me is   *)
(* the memory of the process.  Sessions are numbered as they are opened.   *)
(* in_flight_task is always None when messages are handled, so the branch  *)
(* of _handle_shutdown that rejects a request is never taken here.         *)
(***************************************************************************)
EXTENDS Integers, Sequences, FiniteSets

CONSTANTS Backends,   \* the kinds of adapter to look at
          Tasks,      \* the ids of the tasks
          MaxTalk,    \* what lead, peers and model may do: a message or an
                      \* intervention counts 2, a request for a permission 1
          MaxStarts,  \* starts of the adapter
          MaxCrashes  \* kills of the adapter that run no handler

ASSUME LoopsAssumption ==
  /\ Backends \subseteq {"acp", "headless", "kimi", "native"}
  /\ Tasks \subseteq Nat \ {0} /\ IsFiniteSet(Tasks)
  /\ {MaxTalk, MaxStarts, MaxCrashes} \subseteq Nat

VARIABLES backend,   \* the kind of adapter
          pc,        \* where the adapter is
          me,        \* the adapter's memory
          call,      \* the invocation in progress
          disk,      \* state.json
          children,  \* the ACP processes that live
          store,     \* task -> its status on the board
          report,    \* task -> the last report to the lead
          inbox,     \* the adapter's unread messages
          asked,     \* number of permission requests sent to the lead
          allowed,   \* the requests that the lead granted
          answered,  \* the requests that the lead decided
          sent, starts, crashes, sessions,
          spent,     \* history: sessions that timed out, were refused, were cancelled
                     \* with a valid answer, or were cut by a crash a start looked into
          cut,       \* history: the session that the last crash cut
          unseen     \* history: orphans that were never recorded or were passed over

life == <<backend, starts, crashes>>
board == <<store, report>>
lead == <<asked, allowed, answered, sent>>
trail == <<cut, unseen>>
past == <<spent, trail>>
vars == <<life, pc, me, call, disk, children, board, inbox, lead, sessions, past>>

Gemini == backend \in {"acp", "headless"}
Pids == 1..(MaxCrashes + 1)
\* What a turn is for: a task, or none.
NoTurn == 0
Prose == -1
Plan == -2

\* GeminiLoopState(): nothing is remembered from an earlier process.
Memory == [batch |-> <<>>, signal |-> FALSE, session |-> 0, steers |-> {},
           task |-> 0, attempt |-> 1, asks |-> {}]
Idle == [for |-> NoTurn, eph |-> TRUE, child |-> 0, reg |-> FALSE, session |-> 0,
         ask |-> 0, refused |-> FALSE, result |-> "none"]

Init ==
  /\ backend \in Backends
  /\ pc = "down" /\ me = Memory /\ call = Idle
  /\ disk = [ran |-> FALSE, clean |-> FALSE, session |-> 0, child |-> 0]
  /\ children = {} /\ inbox = <<>>
  /\ store = [t \in Tasks |-> "pending"] /\ report = [t \in Tasks |-> "none"]
  /\ asked = 0 /\ allowed = {} /\ answered = {}
  /\ sent = 0 /\ starts = 0 /\ crashes = 0 /\ sessions = 0
  /\ spent = {} /\ cut = {} /\ unseen = {}

-----------------------------------------------------------------------------
(* Start, crash and exit of the adapter. *)

\* A recorded adapter is taken for dead when it did not leave a later clean exit
\* behind and its pid names no living process, is not that of the new adapter,
\* and can be looked up (taken: one of the three fails).
PreviousDied(taken) == disk.ran /\ ~disk.clean /\ ~taken

\* What /proc shows of a child: "own", an ACP process whose environment names this
\* home; "foreign", an ACP process whose environment cannot be read; "strange", a
\* command line that is not recognised; or nothing.
Views == {"own", "foreign", "strange", "absent"}

\* A mutant: only the recorded process is reaped.
Orphans_Recorded(view) == {c \in children : c = disk.child /\ view[c] # "strange"}

\* The recorded process is reaped as well when its environment does not show, or
\* when it is not in /proc but alive.
Orphans(view) ==
  {c \in children : view[c] = "own" \/ (c = disk.child /\ view[c] \in {"foreign", "absent"})}

\* History: what cannot be killed, or recognised, or found by its environment alone.
PassedOver(view, stubborn) ==
  {c \in children : \/ c \in stubborn \/ view[c] = "strange"
                    \/ (view[c] # "own" /\ c \in unseen)}

\* The start of an adapter.  It looks for what the one before it left, unless that
\* one is not taken for dead or worked under another name (renamed); what it cannot
\* kill (stubborn) it forgets.
Recover(taken, renamed, view, stubborn) ==
  /\ pc = "down" /\ starts < MaxStarts
  /\ starts' = starts + 1 /\ pc' = "recovered" /\ cut' = {}
  /\ IF backend = "acp" /\ PreviousDied(taken) /\ ~renamed
     THEN /\ children' = children \ (Orphans(view) \ stubborn)
          /\ disk' = [disk EXCEPT !.session = 0, !.child = 0]
          /\ spent' = spent \cup cut
          /\ unseen' = children' \cap PassedOver(view, stubborn)
     ELSE /\ unseen' = IF PreviousDied(FALSE) THEN children ELSE unseen
          /\ UNCHANGED <<children, disk, spent>>
  /\ UNCHANGED <<backend, crashes, me, call, board, inbox, lead, sessions>>

PreflightFails ==
  /\ pc = "recovered" /\ pc' = "down"
  /\ UNCHANGED <<life, me, call, disk, children, board, inbox, lead, sessions, past>>

MarkStart ==
  /\ pc = "recovered" /\ pc' = "top"
  /\ disk' = [disk EXCEPT !.ran = TRUE, !.clean = FALSE]
  /\ UNCHANGED <<life, me, call, children, board, inbox, lead, sessions, past>>

\* An approved shutdown or a handled signal: deregistration and the clean mark.
Exit ==
  /\ pc = "leaving" /\ pc' = "down" /\ me' = Memory
  /\ disk' = [disk EXCEPT !.clean = TRUE, !.child = 0]
  /\ UNCHANGED <<life, call, children, board, inbox, lead, sessions, past>>

\* SIGKILL, at any point: the memory is gone and the child lives on.
Crash ==
  /\ pc # "down" /\ crashes < MaxCrashes
  /\ crashes' = crashes + 1 /\ pc' = "down" /\ me' = Memory /\ call' = Idle
  /\ cut' = {call.session} \ {0}
  /\ unseen' = IF pc \in {"registering", "started", "hung"}
               THEN unseen \cup (children \cap {call.child}) ELSE unseen
  /\ UNCHANGED <<backend, starts, disk, children, board, inbox, lead, sessions, spent>>

\* SIGTERM or SIGINT: the handler runs in the main thread between two of its
\* instructions.  It ends the registered child and asks for a shutdown; when
\* that thread is inside the registry's lock, which is not reentrant, the
\* handler waits for itself.
Signal ==
  /\ pc \notin {"down", "recovered", "leaving", "hung"} /\ ~me.signal
  /\ me' = [me EXCEPT !.signal = TRUE]
  /\ IF pc \in {"registering", "unregistering"}
     THEN pc' = "hung" /\ UNCHANGED children
     ELSE /\ children' = IF call.reg THEN children \ {call.child} ELSE children
          /\ UNCHANGED pc
  /\ UNCHANGED <<life, call, disk, board, inbox, lead, sessions, past>>

-----------------------------------------------------------------------------
(* The lead, the peers and the task board. *)

Message(k, from, t) == [kind |-> k, from |-> from, task |-> t, id |-> 0]

\* A request, a note or a steer: within MaxTalk.
Send(m) ==
  /\ 2 * sent + asked + 2 <= MaxTalk /\ sent' = sent + 1
  /\ inbox' = Append(inbox, m)
  /\ UNCHANGED <<life, pc, me, call, disk, children, board, asked, allowed, answered,
                 sessions, past>>

\* The lead decides a request it was sent, in time or too late.
Decide(id, ok) ==
  /\ id \in (1..asked) \ answered /\ answered' = answered \cup {id}
  /\ allowed' = IF ok THEN allowed \cup {id} ELSE allowed
  /\ inbox' = Append(inbox, [Message("decision", "lead", 0) EXCEPT !.id = id])
  /\ UNCHANGED <<life, pc, me, call, disk, children, board, asked, sent, sessions, past>>

\* The lead completes or deletes a task under the adapter's feet.
LeadEnds(t, s) ==
  /\ 2 * sent + asked + 2 <= MaxTalk /\ sent' = sent + 1
  /\ store[t] = "in_progress" /\ store' = [store EXCEPT ![t] = s]
  /\ UNCHANGED <<life, pc, me, call, disk, children, report, inbox, asked, allowed,
                 answered, sessions, past>>

-----------------------------------------------------------------------------
(* The main loop. *)

Drain ==
  /\ pc = "top" /\ pc' = "handle"
  /\ me' = [me EXCEPT !.batch = inbox] /\ inbox' = <<>>
  /\ UNCHANGED <<life, call, disk, children, board, lead, sessions, past>>

Arrived(k) == pc = "handle" /\ me.batch # <<>> /\ Head(me.batch).kind = k
Turn(f, eph) == [Idle EXCEPT !.for = f, !.eph = eph]

\* A run of prose messages is one ephemeral turn; the native loop takes them singly.
ProseRun ==
  IF backend = "native" THEN 1
  ELSE CHOOSE n \in 1..Len(me.batch) :
         /\ \A i \in 1..n : me.batch[i].kind = "prose"
         /\ n < Len(me.batch) => me.batch[n + 1].kind # "prose"

HandleProse ==
  /\ Arrived("prose") /\ pc' = "start" /\ call' = Turn(Prose, TRUE)
  /\ me' = [me EXCEPT !.batch = SubSeq(@, ProseRun + 1, Len(@))]
  /\ UNCHANGED <<life, disk, children, board, inbox, lead, sessions, past>>

\* Peers may steer an ACP adapter only; the native loop has no steers.
SteerTaken(m) == backend # "native" /\ (m.from = "lead" \/ backend = "acp")

HandleSteer ==
  /\ Arrived("steer") /\ pc' = "handle"
  /\ me' = [me EXCEPT !.batch = Tail(@),
              !.steers = IF SteerTaken(Head(me.batch)) THEN @ \cup {Head(me.batch).task}
                         ELSE @]
  /\ UNCHANGED <<life, call, disk, children, board, inbox, lead, sessions, past>>

\* A decision nobody waits for any more is no message to the loop.
HandleDecision ==
  /\ Arrived("decision") /\ me' = [me EXCEPT !.batch = Tail(@)]
  /\ UNCHANGED <<life, pc, call, disk, children, board, inbox, lead, sessions, past>>

\* Approval: what was drained after the request is dropped with the process.
HandleShutdown ==
  /\ Arrived("shutdown") /\ pc' = "leaving"
  /\ me' = [me EXCEPT !.session = 0, !.steers = {}, !.batch = <<>>]
  /\ UNCHANGED <<life, call, disk, children, board, inbox, lead, sessions, past>>

Pending == {t \in Tasks : store[t] = "pending"}
Lowest(S) == CHOOSE t \in S : \A u \in S : t <= u

\* The task a plan is asked for: the one named, else the lowest that is free.
PlanTarget(m) ==
  IF m.task \in Tasks /\ store[m.task] # "deleted" THEN m.task
  ELSE IF Pending # {} THEN Lowest(Pending) ELSE 0

HandlePlan ==
  /\ Arrived("plan") /\ backend # "native"
  /\ LET t == PlanTarget(Head(me.batch)) IN
       IF t = 0 THEN /\ me' = [me EXCEPT !.batch = Tail(@)]
                     /\ UNCHANGED <<pc, call>>
       ELSE /\ me' = [me EXCEPT !.batch = Tail(@), !.task = t, !.attempt = 1]
            /\ pc' = "start" /\ call' = Turn(Plan, TRUE)
  /\ UNCHANGED <<life, disk, children, board, inbox, lead, sessions, past>>

\* What the native loop does with a plan request: nothing.
PlanIgnored ==
  /\ Arrived("plan") /\ backend = "native"
  /\ me' = [me EXCEPT !.batch = Tail(@)]
  /\ UNCHANGED <<life, pc, call, disk, children, board, inbox, lead, sessions, past>>

\* The first attempt takes the steers that name no task or this one.
Claim ==
  /\ pc = "handle" /\ me.batch = <<>> /\ ~me.signal /\ Pending # {}
  /\ LET t == Lowest(Pending) IN
       /\ store' = [store EXCEPT ![t] = "in_progress"]
       /\ me' = [me EXCEPT !.task = t, !.attempt = 1, !.asks = {}, !.steers = @ \ {0, t}]
       /\ call' = Turn(t, FALSE)
  /\ pc' = "start"
  /\ UNCHANGED <<life, disk, children, report, inbox, lead, sessions, past>>

\* A mutant: the loop polls on.
Wait_PollsOn ==
  /\ pc = "handle" /\ me.batch = <<>> /\ (me.signal \/ Pending = {})
  /\ pc' = "top"
  /\ UNCHANGED <<life, me, call, disk, children, board, inbox, lead, sessions, past>>

\* Nothing to claim, or a shutdown wanted: wait, then look at the signal.
Wait ==
  /\ pc = "handle" /\ me.batch = <<>> /\ (me.signal \/ Pending = {})
  /\ IF me.signal THEN pc' = "leaving" /\ me' = [me EXCEPT !.session = 0]
                  ELSE pc' = "top" /\ UNCHANGED me
  /\ UNCHANGED <<life, call, disk, children, board, inbox, lead, sessions, past>>

-----------------------------------------------------------------------------
(* One invocation.  Over ACP: start the child, register it for the signal    *)
(* handler, record it on disk, open a session, prompt, close.                *)

\* A mutant: a timeout leaves the session on disk.
Ended_KeepsSession(r) ==
  /\ pc' = "closing" /\ call' = [call EXCEPT !.result = r]
  /\ spent' = IF r \in {"timeout", "refused"} /\ ~call.eph
              THEN spent \cup ({call.session} \ {0}) ELSE spent
  /\ UNCHANGED disk

\* The invocation is over for the caller; a session that timed out or was
\* refused a permission is taken off the disk before the child is closed.
Ended(r) ==
  /\ pc' = "closing" /\ call' = [call EXCEPT !.result = r]
  /\ IF r \in {"timeout", "refused"} /\ ~call.eph
     THEN /\ disk' = [disk EXCEPT !.session = 0]
          /\ spent' = spent \cup ({call.session} \ {0})
     ELSE UNCHANGED <<disk, spent>>

StartChild ==
  /\ pc = "start" /\ backend = "acp"
  /\ LET c == Lowest(Pids \ children) IN
       /\ children' = children \cup {c} /\ call' = [call EXCEPT !.child = c]
  /\ pc' = "registering"
  /\ UNCHANGED <<life, me, disk, board, inbox, lead, sessions, past>>

StartFails ==
  /\ pc = "start" /\ backend = "acp" /\ Ended("bad")
  /\ UNCHANGED <<life, me, children, board, inbox, lead, sessions, trail>>

Register ==
  /\ pc = "registering" /\ pc' = "started" /\ call' = [call EXCEPT !.reg = TRUE]
  /\ UNCHANGED <<life, me, disk, children, board, inbox, lead, sessions, past>>

RecordChild ==
  /\ pc = "started" /\ pc' = "opening" /\ disk' = [disk EXCEPT !.child = call.child]
  /\ UNCHANGED <<life, me, call, children, board, inbox, lead, sessions, past>>

\* The sessions an invocation may continue; an ephemeral one continues none.
Resumable == IF call.eph THEN {} ELSE {me.session, disk.session} \ {0}

\* session/load of a candidate, or session/new.  A turn of a task also renews
\* the recorded start, which outdates an earlier clean exit.
Open(s) ==
  /\ pc = "opening" /\ call.child \in children
  /\ \/ s \in Resumable /\ UNCHANGED sessions
     \/ s = sessions + 1 /\ sessions' = s
  /\ pc' = "prompt"
  /\ call' = [call EXCEPT !.session = IF call.eph THEN 0 ELSE s]
  /\ disk' = IF call.eph THEN disk ELSE [disk EXCEPT !.clean = FALSE]
  /\ UNCHANGED <<life, me, children, board, inbox, lead, past>>

OpenFails(r) ==
  /\ pc = "opening" /\ Ended(r)
  /\ UNCHANGED <<life, me, children, board, inbox, lead, sessions, trail>>

\* The model asks for a permission; the client's reader thread asks the lead
\* and polls the inbox, and reads nothing else from the child meanwhile.
Ask ==
  /\ pc = "prompt" /\ call.child \in children /\ call.ask = 0 /\ 2 * sent + asked < MaxTalk
  /\ asked' = asked + 1
  /\ call' = [call EXCEPT !.ask = asked + 1]
  /\ me' = [me EXCEPT !.asks = @ \cup {asked + 1}]
  /\ UNCHANGED <<life, pc, disk, children, board, inbox, allowed, answered, sent, sessions, past>>

Matching(id) == {i \in 1..Len(inbox) : inbox[i].kind = "decision" /\ inbox[i].id = id}

\* The first unread decision of this request is taken out of the inbox.
Bridge ==
  /\ pc = "prompt" /\ call.ask # 0
  /\ \E i \in Matching(call.ask) :
       inbox' = SubSeq(inbox, 1, i - 1) \o SubSeq(inbox, i + 1, Len(inbox))
  /\ call' = [call EXCEPT !.ask = 0, !.refused = @ \/ call.ask \notin allowed]
  /\ UNCHANGED <<life, pc, me, disk, children, board, lead, sessions, past>>

BridgeTimesOut ==
  /\ pc = "prompt" /\ call.ask # 0
  /\ call' = [call EXCEPT !.ask = 0, !.refused = TRUE]
  /\ UNCHANGED <<life, pc, me, disk, children, board, inbox, lead, sessions, past>>

\* A mutant: a good answer counts for more than a refusal.
PromptEnds_Lenient(r) ==
  /\ pc = "prompt" /\ call.child \in children /\ call.ask = 0 /\ Ended(r)
  /\ UNCHANGED <<life, me, children, board, inbox, lead, sessions, trail>>

\* An answer to session/prompt, or its failure; a refusal counts for more.
\* "stopped" and "stoppedBad": stopReason cancelled, with and without valid JSON.
PromptEnds(r) ==
  /\ pc = "prompt" /\ call.child \in children /\ call.ask = 0
  /\ Ended(IF call.refused THEN "refused" ELSE r)
  /\ UNCHANGED <<life, me, children, board, inbox, lead, sessions, trail>>

\* The deadline passes, the only way out when the child is dead: the reader
\* that meets the end of its output wakes nobody.
PromptTimesOut ==
  /\ pc = "prompt" /\ Ended("timeout")
  /\ UNCHANGED <<life, me, children, board, inbox, lead, sessions, trail>>

Close ==
  /\ pc = "closing" /\ pc' = "unregistering" /\ children' = children \ {call.child}
  /\ UNCHANGED <<life, me, call, disk, board, inbox, lead, sessions, past>>

\* The record of the child is cleared; a good session is kept for the next task,
\* a cancelled one is taken off the disk.
Unregister ==
  /\ pc = "unregistering" /\ pc' = "result"
  /\ call' = [call EXCEPT !.reg = FALSE, !.child = 0]
  /\ LET cancelled == call.result \in {"stopped", "stoppedBad"} /\ ~call.eph IN
       /\ disk' = [disk EXCEPT !.child = 0,
                     !.session = IF cancelled THEN 0
                                 ELSE IF call.result = "ok" /\ ~call.eph THEN call.session
                                 ELSE @]
       /\ spent' = IF cancelled /\ call.result = "stopped" THEN spent \cup {call.session} ELSE spent
  /\ UNCHANGED <<life, me, children, board, inbox, lead, sessions, trail>>

Session(s) ==
  \/ s = 0 /\ UNCHANGED sessions
  \/ s = me.session /\ s # 0 /\ UNCHANGED sessions
  \/ s = sessions + 1 /\ sessions' = s

\* A headless turn is one blocking subprocess; its session id is caught, or not.
\* The native loop passes no session on.
RunHeadless(r, s) ==
  /\ pc = "start" /\ backend # "acp" /\ pc' = "result"
  /\ IF call.eph \/ backend = "native" THEN s = 0 /\ UNCHANGED sessions
                                           ELSE Session(s)
  /\ call' = [call EXCEPT !.result = r, !.session = s]
  /\ spent' = IF r = "timeout" THEN spent \cup ({s} \ {0}) ELSE spent
  /\ UNCHANGED <<life, me, disk, children, board, inbox, lead, trail>>

\* Something raises before the turn is under way: a settings file that cannot be
\* written, a missing binary.  A Gemini task turn takes the whole loop with it.
Raises ==
  /\ pc = "start"
  /\ IF Gemini /\ call.for \in Tasks
     THEN pc' = "down" /\ me' = Memory /\ call' = Idle
     ELSE /\ pc' = "result" /\ call' = [call EXCEPT !.result = "raised"]
          /\ UNCHANGED me
  /\ UNCHANGED <<life, disk, children, board, inbox, lead, sessions, past>>

-----------------------------------------------------------------------------
(* What the loop makes of a result. *)

Back(m) == pc' = "handle" /\ call' = Idle /\ me' = m

ProseDone ==
  /\ pc = "result" /\ call.for = Prose /\ Back(me)
  /\ UNCHANGED <<life, disk, children, board, inbox, lead, sessions, past>>

\* Gemini marks and reports in one go; the others leave a completed task alone
\* and report even when the mark fails.
Reported(t) == IF Gemini THEN store[t] # "deleted" ELSE store[t] # "completed"
MarkBlocked(t) == report' = IF Reported(t) THEN [report EXCEPT ![t] = "blocked"] ELSE report

PlanDone ==
  /\ pc = "result" /\ call.for = Plan
  /\ IF call.result # "ok" /\ me.attempt = 1
     THEN /\ pc' = "start" /\ call' = Turn(Plan, TRUE)
          /\ me' = [me EXCEPT !.attempt = 2] /\ UNCHANGED report
     ELSE /\ Back([me EXCEPT !.task = 0])
          /\ IF call.result = "ok" THEN UNCHANGED report ELSE MarkBlocked(me.task)
  /\ UNCHANGED <<life, disk, children, store, inbox, lead, sessions, past>>

Caught == IF call.session # 0 THEN call.session ELSE me.session

TaskDone ==
  /\ pc = "result" /\ call.for \in Tasks /\ call.result = "ok"
  /\ LET t == call.for IN
       IF store[t] = "deleted" THEN UNCHANGED board
       ELSE /\ store' = [store EXCEPT ![t] = "completed"]
            /\ report' = [report EXCEPT ![t] = "completed"]
  /\ Back([me EXCEPT !.session = Caught, !.task = 0])
  /\ UNCHANGED <<life, disk, children, inbox, lead, sessions, past>>

\* The results after which Gemini neither retries nor keeps the session.
Dropped == Gemini /\ call.result \in {"timeout", "stopped", "refused"}

TaskRetry ==
  /\ pc = "result" /\ call.for \in Tasks /\ call.result \notin {"ok", "raised"}
  /\ ~Dropped /\ me.attempt = 1
  /\ me' = [me EXCEPT !.attempt = 2, !.session = Caught]
  /\ pc' = "start" /\ call' = Turn(call.for, FALSE)
  /\ UNCHANGED <<life, disk, children, board, inbox, lead, sessions, past>>

TaskGivenUp ==
  /\ pc = "result" /\ call.for \in Tasks /\ call.result # "ok"
  /\ Dropped \/ me.attempt = 2 \/ call.result = "raised"
  /\ MarkBlocked(call.for)
  /\ Back([me EXCEPT !.task = 0, !.session = IF Dropped THEN 0 ELSE Caught])
  /\ UNCHANGED <<life, disk, children, store, inbox, lead, sessions, past>>

-----------------------------------------------------------------------------
Ends == {"ok", "bad", "stopped", "stoppedBad"}

\* What the adapter does of its own accord, its timeouts included.
Adapter ==
  \/ Exit \/ Drain \/ HandleProse \/ HandleSteer \/ HandleDecision \/ HandleShutdown
  \/ HandlePlan \/ PlanIgnored \/ Claim \/ Wait
  \/ StartChild \/ StartFails \/ Register \/ RecordChild
  \/ \E s \in 1..(sessions + 1) : Open(s)
  \/ \E r \in {"bad", "timeout"} : OpenFails(r)
  \/ Bridge \/ BridgeTimesOut \/ PromptTimesOut \/ Close \/ Unregister
  \/ \E r \in {"ok", "bad", "timeout"}, s \in 0..(sessions + 1) : RunHeadless(r, s)
  \/ Raises \/ ProseDone \/ PlanDone \/ TaskDone \/ TaskRetry \/ TaskGivenUp

Environment ==
  \/ \E taken, renamed \in BOOLEAN, view \in [children -> Views],
        stubborn \in SUBSET children : Recover(taken, renamed, view, stubborn)
  \/ PreflightFails \/ MarkStart \/ Crash \/ Signal
  \/ \E m \in {Message(k, "lead", 0) : k \in {"shutdown", "prose"}}
            \cup {Message("plan", "lead", 1)}
            \cup {Message("steer", f, t) : f \in {"lead", "peer"}, t \in {1}} : Send(m)
  \/ \E id \in 1..asked, ok \in BOOLEAN : Decide(id, ok)
  \/ \E t \in Tasks, s \in {"completed", "deleted"} : LeadEnds(t, s)
  \/ Ask
  \/ \E r \in Ends : PromptEnds(r)

Next == Adapter \/ Environment
Spec == Init /\ [][Next]_vars /\ WF_vars(Adapter)

-----------------------------------------------------------------------------
TypeOK ==
  /\ backend \in Backends
  /\ pc \in {"down", "recovered", "top", "handle", "start", "registering", "started",
             "opening", "prompt", "closing", "unregistering", "result", "leaving", "hung"}
  /\ disk.child \in Pids \cup {0} /\ children \subseteq Pids /\ unseen \subseteq children
  /\ call.for \in {NoTurn, Prose, Plan} \cup Tasks /\ call.child \in Pids \cup {0}
  /\ {disk.session, me.session, call.session} \subseteq 0..sessions
  /\ spent \subseteq 1..sessions /\ cut \subseteq 1..sessions
  /\ store \in [Tasks -> {"pending", "in_progress", "completed", "deleted"}]
  /\ report \in [Tasks -> {"none", "completed", "blocked"}]
  /\ allowed \subseteq answered /\ answered \subseteq 1..asked

(* While an adapter runs, the only ACP process of its home is the one of its  *)
(* own invocation: the orphan of a killed adapter is reaped before the next   *)
(* one registers.  Passed over are those of a crash that a start did not look *)
(* into, those it could not kill, those whose command line it does not        *)
(* recognise, and, when /proc does not show their environment, those killed   *)
(* over before their pid was recorded or passed over by an earlier start      *)
(* (run_startup_recovery, reap_orphan_acp_processes).                         *)
NoOrphans == pc # "down" => children \ {call.child} \subseteq unseen

(* A Gemini session that timed out, was refused a permission, came back       *)
(* cancelled or was cut by a crash (one the next start looked into) is        *)
(* forgotten before the next turn, both by the loop and by the state on disk, *)
(* so that no turn resumes it (_should_drop_session_after_failure,            *)
(* reset_acp_adapter_state, run_startup_recovery).  Kimi's loop keeps a       *)
(* session that timed out and resumes it; the native loop has no sessions.    *)
SpentIsForgotten ==
  Gemini /\ pc \in {"top", "handle", "start"} => {me.session, disk.session} \cap spent = {}

(* The adapter reports a task complete only when the lead granted every       *)
(* permission that was asked for in the turns of that task: neither a         *)
(* refusal, nor a silence, nor a late answer to an earlier request lets the   *)
(* work pass (handle_server_request, _permission_block_result).               *)
OnlyGrantedWorkCompletes ==
  [][\A t \in Tasks : report[t] # "completed" /\ report'[t] = "completed"
       => me.asks \subseteq allowed]_vars

(* A signal, or a shutdown request that has arrived, ends the adapter, even   *)
(* when the model's process is dead or silent, unless the signal met the      *)
(* registry's lock in the hands of the thread it interrupts (_sig_handler).   *)
ShutdownWaits ==
  pc \notin {"down", "recovered"} /\ \E i \in 1..Len(inbox) : inbox[i].kind = "shutdown"
StopIsHonored == (me.signal \/ ShutdownWaits) ~> (pc \in {"down", "hung"})
=============================================================================
