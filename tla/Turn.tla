-------------------------------- MODULE Turn --------------------------------
(***************************************************************************)
(* One invocation of Codex: codex.app_server_invoke with the client of     *)
(* app_server.py and the JSON-RPC transport of jsonrpc_stdio.py, or        *)
(* codex.run, which runs `codex exec` to its end; before it the probes of  *)
(* the adapter's start.                                                    *)
(*                                                                         *)
(* The adapter's thread starts a child, runs a turn in it and polls a      *)
(* queue that a reader thread fills from the child's pipe.  A child that   *)
(* dies, or whose reader has ended while it runs on, is closed and started *)
(* again once; the queue is not emptied.  A line is sent, read and queued  *)
(* in one step: what a dying child has sent is queued before its death is  *)
(* seen, or never.  Time passes while the adapter's thread waits: in a     *)
(* poll that finds the queue empty and in a request that is not answered.  *)
(***************************************************************************)
EXTENDS Integers, Sequences

CONSTANTS Tools,        \* the wrapper's tools a turn calls
          Window,       \* wrapper_tool_failure_window_s
          Warns,        \* non_progress_warn_s, 0 for None
          Stops,        \* non_progress_interrupt_s, 0 for None
          Deadline,     \* overall_timeout_s
          ReqTimeout,   \* the timeout of a request
          MaxRetries,   \* of a cold start
          MaxWals,      \* bound: Codex's log files that are over the threshold
          MaxNotes,     \* bound: what the child sends
          MaxSteers,    \* bound: fragments pushed by the hook
          MaxDeaths     \* bound: children that die and readers that end

ASSUME TurnAssumption ==
  /\ Window \in Nat \ {0} /\ Deadline \in Nat \ {0} /\ ReqTimeout \in Nat
  /\ Warns \subseteq Nat /\ Stops \subseteq Nat
  /\ MaxRetries \in 0..3 /\ {MaxWals, MaxNotes, MaxSteers, MaxDeaths} \subseteq Nat
  /\ Tools \intersect {"message", "activity", "completed", "failed"} = {}

Turns == 1..2                \* the turn and its recovery; 0 is the earlier task's

\* How notifications are told apart: activity (a message of the agent, another
\* tool, an artifact), a wrapper's tool that failed, and the end of the turn.
Kinds == {"message", "activity", "completed", "failed"} \union Tools
Note == [kind : Kinds, turn : Turns]
Progress(n) == n.kind \in {"message", "activity"} \union Tools

VARIABLES
  pc, now, tries,
  children,  \* how many children run
  reading,   \* whether the reader thread of the client's child runs
  state,     \* turn -> where the server has it
  queue,     \* notifications that are not handled
  steers,    \* how many fragments are in the steer queue
  turn,      \* current_turn_id
  answer,    \* the turn last_message is of, if there is one
  fails,     \* pending_wrapper_tool_failures
  reported,  \* emitted_unrecovered_wrapper_tools
  progress, warnedAt, stopped, recovered,  \* the watchdogs' bookkeeping
  exit,      \* how the invocation ends
  wals,      \* the log files that are still to be checkpointed
  gate,      \* whether this adapter holds the start gate's lock
  out,       \* what `codex exec` has printed, and its last message
  told,      \* the events of an exec turn, in the log
  settings,  \* what this invocation is given
  used       \* what the bounds count, and whether the server lost the turn

server == <<children, reading, state>>
io == <<queue, steers, turn, answer>>
book == <<fails, reported, progress, warnedAt, stopped, recovered>>
exec == <<out, told>>
rest == <<wals, gate, exec, settings>>
vars == <<pc, now, tries, server, io, book, exit, rest, used>>

Never == -1

\* heard: whether activity, or a recovery that counts as progress, has been
\* handled since; the code does not keep it.
Failure == [tool : Tools, at : Nat, recovered : BOOLEAN, emitted : BOOLEAN, heard : BOOLEAN]
Failed(tool) == [tool |-> tool, at |-> now, recovered |-> FALSE, emitted |-> FALSE, heard |-> FALSE]

\* The turn's watchdogs, or whether an exec turn's answer has a schema.
Settings == [mode : {"server"}, warn : Warns, stop : Stops, schema : {FALSE}]
              \union [mode : {"exec"}, warn : {0}, stop : {0}, schema : BOOLEAN]

CourseOK ==
  /\ pc \in {"probe", "wrapper", "begin", "preflight", "gate", "start", "open",
             "turn", "top", "steer", "hook", "get", "quiet", "resume", "close", "exec", "ended"}
  /\ exit \in {"open", "ok", "error", "timeout", "raised"}
  /\ tries \in 0..MaxRetries /\ wals \in 0..MaxWals /\ gate \in BOOLEAN
ServerOK ==
  /\ children \in Nat /\ reading \in BOOLEAN
  /\ state \in [Turns -> {"none", "running", "completed", "failed", "cut"}]
IoOK ==
  /\ queue \in Seq(Note) /\ turn \in Turns \union {0} /\ answer \subseteq Turns \union {0}
BookOK ==
  /\ now \in Nat /\ progress \in 0..now /\ warnedAt \in -1..now
  /\ fails \in Seq(Failure) /\ reported \subseteq Tools
  /\ stopped \in BOOLEAN /\ recovered \in BOOLEAN
ExecOK ==
  /\ settings \in Settings
  /\ out \in [events : SUBSET {"session", "tool"}, last : {"none", "text", "json"},
              code : {Never, 0, 1}]
  /\ told \in Seq({"turn_started", "tool_event", "turn_completed", "turn_failed"})
UsedOK ==
  /\ steers \in 0..MaxSteers
  /\ used \in [notes : Nat, steers : steers..MaxSteers, deaths : Nat, lost : BOOLEAN]
TypeOK == CourseOK /\ ServerOK /\ IoOK /\ BookOK /\ ExecOK /\ UsedOK

Init ==
  /\ pc = "probe" /\ now = 0 /\ tries = 0
  /\ children = 0 /\ reading = FALSE /\ state = [t \in Turns |-> "none"]
  /\ queue = <<>> /\ steers = 0 /\ turn = 0 /\ answer = {}
  /\ fails = <<>> /\ reported = {}
  /\ progress = 0 /\ warnedAt = Never /\ stopped = FALSE /\ recovered = FALSE
  /\ exit = "open" /\ settings \in Settings
  /\ wals = 0 /\ gate = FALSE
  /\ out = [events |-> {}, last |-> "none", code |-> Never] /\ told = <<>>
  /\ used = [notes |-> 0, steers |-> 0, deaths |-> 0, lost |-> FALSE]

-----------------------------------------------------------------------------
(* The child and the reader of its pipe                                    *)

Cut == [t \in Turns |-> IF state[t] = "running" THEN "cut" ELSE state[t]]

\* _read_loop and _dispatch; without its reader the child goes on unheard.
Send == \E t \in Turns, k \in Kinds :
  /\ children > 0 /\ pc \notin {"close", "exec"} /\ state[t] = "running" /\ used.notes < MaxNotes
  /\ queue' = IF reading THEN Append(queue, [kind |-> k, turn |-> t]) ELSE queue
  /\ state' = [state EXCEPT ![t] = IF k \in {"completed", "failed"} THEN k ELSE @]
  /\ used' = [used EXCEPT !.notes = @ + 1]
  /\ UNCHANGED <<pc, now, tries, children, reading, steers, turn, answer, book, exit, rest>>

Die ==
  /\ children > 0 /\ pc \notin {"close", "exec"} /\ used.deaths < MaxDeaths
  /\ children' = children - 1 /\ reading' = FALSE /\ state' = Cut
  /\ used' = [used EXCEPT !.deaths = @ + 1]
  /\ UNCHANGED <<pc, now, tries, io, book, exit, rest>>

\* The reader ends while its child runs: the pipe is closed or a line is not to be read.
ReaderEnds ==
  /\ reading /\ pc \notin {"close", "exec"} /\ used.deaths < MaxDeaths
  /\ reading' = FALSE
  /\ used' = [used EXCEPT !.deaths = @ + 1]
  /\ UNCHANGED <<pc, now, tries, children, state, io, book, exit, rest>>

-----------------------------------------------------------------------------
(* A cold start, and the turn                                              *)

\* is_transport_alive: the process runs and its reader reads.
Alive == children > 0 /\ reading

\* start, and close of the client's child, which may be dead.
Spawned == children' = children + 1 /\ reading' = TRUE
Closed == children' = (IF children > 0 THEN children - 1 ELSE 0) /\ reading' = FALSE /\ state' = Cut

Fail(e) == pc' = "close" /\ exit' = e
Goto(p) == pc' = p /\ UNCHANGED exit

\* At the adapter's start: the binary, its version and its flags, and the wrapper.
FeatureTest ==
  /\ pc = "probe"
  /\ Goto("wrapper") \/ (pc' = "ended" /\ exit' = "raised")
  /\ UNCHANGED <<now, tries, server, io, book, rest, used>>

ProbeWrapper ==
  /\ pc = "wrapper"
  /\ Goto("begin") \/ (pc' = "ended" /\ exit' = "raised")
  /\ UNCHANGED <<now, tries, server, io, book, rest, used>>

\* The clock counts from OpenTurn on: before, only a recovery takes time.
Cost(c) == now' = now + IF recovered THEN c ELSE 0

\* The hook before a start lists the log files that are too long; it never raises.
Inspect ==
  /\ pc = "begin" /\ settings.mode = "server"
  /\ wals' \in 0..MaxWals
  /\ Goto("preflight")
  /\ UNCHANGED <<now, tries, server, io, book, gate, exec, settings, used>>

\* A checkpoint is done or refused at once, or given up when the time that is left
\* of the budget has passed.
Checkpoint == {0, 1}

\* One after the other while the budget lasts; a busy database is left alone.
CheckpointWals == \E cost \in Checkpoint :
  /\ pc = "preflight" /\ wals > 0
  /\ Cost(cost)
  /\ wals' = IF cost = 0 THEN wals - 1 ELSE 0
  /\ Goto("preflight")
  /\ UNCHANGED <<tries, server, io, book, gate, exec, settings, used>>

PreSpawn ==
  /\ pc = "preflight" /\ wals = 0
  /\ Goto("gate")
  /\ UNCHANGED <<now, tries, server, io, book, rest, used>>

\* app_server_start_gate: when the lock is not to be had the start goes on.
Gate == \E got \in BOOLEAN :
  /\ pc = "gate"
  /\ gate' = got /\ Cost(IF got THEN 0 ELSE 1)
  /\ Goto("start")
  /\ UNCHANGED <<tries, server, io, book, wals, exec, settings, used>>

\* However the launch goes the gate is left.
Launched == gate' = FALSE /\ UNCHANGED <<wals, exec, settings>>

\* Popen finds no binary.
NoBinary ==
  /\ pc = "start" /\ Launched
  /\ Fail("raised")
  /\ UNCHANGED <<now, tries, server, io, book, used>>

\* A child is started; initialize is answered, or refused.
Initialize ==
  /\ pc = "start" /\ ~recovered /\ Launched
  /\ Spawned
  /\ Goto("open") \/ Fail("error")
  /\ tries' = 0
  /\ UNCHANGED <<now, state, io, book, used>>

\* A child that does not answer is closed before the next attempt.
InitializeTimesOut ==
  /\ pc = "start" /\ ~recovered /\ Launched
  /\ IF tries < MaxRetries THEN Goto("begin") /\ tries' = tries + 1 /\ UNCHANGED <<children, reading>>
                           ELSE Fail("error") /\ UNCHANGED tries /\ Spawned
  /\ UNCHANGED <<now, state, io, book, used>>

\* An answer in time, or an error: the server's, or that there is none.
ThreadStart == (Alive /\ Goto("turn")) \/ Fail("error")

\* Also when the thread that is to be forked is not to be read.
ThreadFork == ThreadStart

\* _start_or_fork_thread: thread/fork when the server has the earlier task's
\* thread on disk, or else thread/start: which of the two is left open until it
\* matters, in Resume.
Thread ==
  /\ pc = "open"
  /\ ThreadStart \/ ThreadFork
  /\ UNCHANGED <<now, tries, server, io, book, rest, used>>

\* turn/start; the deadline counts from here.
OpenTurn ==
  /\ pc = "turn"
  /\ \/ /\ Alive /\ Goto("top")
        /\ turn' = 1 /\ state' = [state EXCEPT ![1] = "running"]
     \/ Fail("error") /\ UNCHANGED <<turn, state>>
  /\ UNCHANGED <<now, tries, children, reading, queue, steers, answer, book, rest, used>>

-----------------------------------------------------------------------------
(* `codex exec`: one child, run to its end                                 *)

\* The events of the turn as they are logged: its start, then the tools its
\* output names and its end.
Started == <<"turn_started">>
ToolEvents == IF "tool" \in out.events THEN <<"tool_event">> ELSE <<>>
Terminal(success) == ToolEvents \o <<IF success THEN "turn_completed" ELSE "turn_failed">>

\* Without a binary nothing reports the end of the turn.
ExecRun ==
  /\ pc = "begin" /\ settings.mode = "exec"
  /\ told' = Started
  /\ \/ Goto("exec") /\ children' = 1 /\ state' = [state EXCEPT ![1] = "running"] /\ UNCHANGED reading
     \/ pc' = "ended" /\ exit' = "raised" /\ UNCHANGED server
  /\ UNCHANGED <<now, tries, io, book, wals, gate, out, settings, used>>

\* The child prints its session, calls tools and leaves its last message.
ExecPrints == \E e \in {"session", "tool"}, last \in {"none", "text", "json"} :
  /\ pc = "exec" /\ children > 0 /\ e \notin out.events
  /\ out' = [out EXCEPT !.events = @ \union {e}, !.last = last]
  /\ UNCHANGED <<pc, now, tries, server, io, book, exit, wals, gate, told, settings, used>>

ExecExits == \E code \in {0, 1} :
  /\ pc = "exec" /\ children > 0
  /\ children' = 0 /\ out' = [out EXCEPT !.code = code]
  /\ state' = [state EXCEPT ![1] = IF code = 0 THEN "completed" ELSE "failed"]
  /\ UNCHANGED <<pc, now, tries, reading, io, book, exit, wals, gate, told, settings, used>>

\* subprocess.run kills the child; what it has printed is parsed all the same.
ExecTimesOut ==
  /\ pc = "exec" /\ children > 0
  /\ children' = 0 /\ state' = Cut
  /\ told' = told \o Terminal(FALSE)
  /\ pc' = "ended" /\ exit' = "timeout"
  /\ UNCHANGED <<now, tries, reading, io, book, wals, gate, out, settings, used>>

\* With a schema a last message that is no JSON is an error.
Structured == settings.schema /\ out.last # "none" => out.last = "json"

ExecEnds ==
  /\ pc = "exec" /\ children = 0
  /\ LET success == out.code = 0 /\ Structured IN
       /\ told' = told \o Terminal(success)
       /\ pc' = "ended" /\ exit' = IF success THEN "ok" ELSE "error"
  /\ UNCHANGED <<now, tries, server, io, book, wals, gate, out, settings, used>>

-----------------------------------------------------------------------------
(* The event loop                                                          *)

\* The server answers, refuses or is dead at once, or does not answer in time.
Request == \E cost \in {0, ReqTimeout} : now' = now + cost

Late == now >= Deadline

\* The deadline is looked at before the first fragment, not between two.
InTime == pc = "steer" \/ (pc = "top" /\ ~Late)

\* A fragment the server does not take is dropped.
Steer ==
  /\ InTime /\ steers > 0
  /\ steers' = steers - 1
  /\ Goto("steer") /\ Request
  /\ UNCHANGED <<tries, server, queue, turn, answer, book, rest, used>>

Steered ==
  /\ InTime /\ steers = 0
  /\ Goto("hook")
  /\ UNCHANGED <<now, tries, server, io, book, rest, used>>

\* mid_turn_hook takes what is in the inbox; when it raises the loop goes on.
Hook == \E n \in 0..(MaxSteers - used.steers) :
  /\ pc = "hook" /\ Goto("get")
  /\ steers' = steers + n /\ used' = [used EXCEPT !.steers = @ + n]
  /\ UNCHANGED <<now, tries, server, queue, turn, answer, book, rest>>

\* A mutant: the failure of a tool counts as recovery from those before.
Recorded_Failure(n) ==
  LET closed == [i \in DOMAIN fails |-> [fails[i] EXCEPT !.recovered = @ \/ Progress(n),
                              !.heard = @ \/ (Progress(n) /\ n.kind \notin Tools)]]
  IN IF n.kind \in Tools THEN Append(closed, Failed(n.kind)) ELSE closed

\* Progress of the turn closes every failure that is pending.
AllClosed == [i \in DOMAIN fails |-> [fails[i] EXCEPT !.recovered = TRUE, !.heard = TRUE]]

\* _record: activity closes the failures that are pending, a failure is added.
Recorded(n) ==
  CASE n.kind \in Tools -> Append(fails, Failed(n.kind))
    [] n.kind \in {"message", "activity"} -> AllClosed
    [] OTHER -> fails

\* The end of any turn ends the loop.
Handle ==
  LET n == Head(queue) IN
  /\ pc = "get" /\ queue # <<>>
  /\ queue' = Tail(queue)
  /\ fails' = Recorded(n)
  /\ answer' = IF n.kind = "message" THEN {n.turn} ELSE answer
  /\ progress' = IF Progress(n) THEN now ELSE progress
  /\ CASE n.kind = "completed" -> Fail("ok")
       [] n.kind = "failed" -> Fail("error")
       [] OTHER -> Goto("top")
  /\ UNCHANGED <<now, tries, server, steers, turn, reported, warnedAt, stopped,
                 recovered, rest, used>>

Empty ==
  /\ pc = "get" /\ queue = <<>>
  /\ Goto("quiet") /\ now' = now + 1
  /\ UNCHANGED <<tries, server, io, book, rest, used>>

\* A mutant: the old child is not closed before the new one is started.
Lost_LeavesChild ==
  /\ pc = "quiet" /\ ~Alive
  /\ recovered' = TRUE
  /\ IF recovered THEN Fail("error") ELSE Goto("begin")
  /\ UNCHANGED <<now, tries, server, io, fails, reported, progress, warnedAt, stopped,
                 rest, used>>

\* The transport is dead; it is recovered once, and the old child is closed first.
Lost ==
  /\ pc = "quiet" /\ ~Alive
  /\ recovered' = TRUE
  /\ IF recovered THEN Fail("error") /\ UNCHANGED server ELSE Goto("begin") /\ Closed
  /\ UNCHANGED <<now, tries, io, fails, reported, progress, warnedAt, stopped, rest, used>>

\* The failures that are due: pending for the window, the last of its tool, and
\* the first of it to be reported.
Due(i) ==
  LET f == fails[i] IN
  /\ f.tool \notin reported /\ ~f.emitted /\ ~f.recovered
  /\ now - f.at >= Window
  /\ \A j \in DOMAIN fails : j > i /\ fails[j].tool = f.tool => fails[j].recovered

DueTools == {fails[i].tool : i \in {j \in DOMAIN fails : Due(j)}}

Report ==
  /\ reported' = reported \union DueTools
  /\ fails' = [i \in DOMAIN fails |-> [fails[i] EXCEPT !.emitted = @ \/ fails[i].tool \in DueTools]]

Warning == settings.warn # 0 /\ warnedAt = Never /\ now - progress >= settings.warn

Stopping ==
  /\ ~Warning /\ settings.stop # 0 /\ ~stopped
  /\ IF settings.warn # 0
     THEN warnedAt # Never /\ progress <= warnedAt /\ now >= settings.stop
     ELSE now - progress >= settings.stop

Quiet ==
  /\ pc = "quiet" /\ Alive /\ ~Warning /\ ~Stopping
  /\ Report /\ Goto("top")
  /\ UNCHANGED <<now, tries, server, io, progress, warnedAt, stopped, recovered, rest, used>>

\* Once, with a steer.  The event of the warning counts as activity of the turn.
Warn ==
  /\ pc = "quiet" /\ Alive /\ Warning
  /\ reported' = reported \union DueTools
  /\ fails' = [i \in DOMAIN fails |-> [fails[i] EXCEPT !.recovered = TRUE]]
  /\ warnedAt' = now /\ Request
  /\ Goto("top")
  /\ UNCHANGED <<tries, server, io, progress, stopped, recovered, rest, used>>

\* Once, also when the server does not take it.
Interrupt ==
  /\ pc = "quiet" /\ Alive /\ Stopping
  /\ Report
  /\ stopped' = TRUE
  /\ \/ Fail("timeout") /\ UNCHANGED now
     \/ Goto("top") /\ Request
  /\ UNCHANGED <<tries, server, io, progress, warnedAt, recovered, rest, used>>

-----------------------------------------------------------------------------
(* Recovery of the transport: restart, thread/resume and a new turn        *)

Restart ==
  /\ pc = "start" /\ recovered /\ Launched
  /\ Spawned /\ Request
  /\ Goto("resume") \/ Fail("error")
  /\ UNCHANGED <<tries, state, io, book, used>>

\* A mutant: whatever state the turn is in, its message is the answer.
Snapshot_AnyStatus(lost, forked) ==
  IF lost THEN [turn |-> IF forked THEN {0} ELSE {}, ended |-> forked]
          ELSE [turn |-> {1}, ended |-> TRUE]

\* _resume_turn_snapshot: the turn, if the server has written it down, or else
\* the last one of the thread.
Snapshot(lost, forked) ==
  IF lost THEN [turn |-> IF forked THEN {0} ELSE {}, ended |-> forked]
          ELSE [turn |-> {1}, ended |-> state[1] \in {"completed", "cut"}]

\* A mutant: a failed resume is tried again without being counted.
ResumeFails_Again ==
  /\ pc = "resume" /\ Request
  /\ Goto("begin") /\ Closed
  /\ UNCHANGED <<tries, io, book, rest, used>>

ResumeFails ==
  /\ pc = "resume" /\ Request
  /\ Fail("error")
  /\ UNCHANGED <<tries, server, io, book, rest, used>>

\* Its last message is the answer; when it has ended there is nothing more to do.
\* Either way the recovery is told as progress of the turn.
Resume == \E lost, said, forked \in BOOLEAN :
  LET s == Snapshot(lost, forked) IN
  /\ pc = "resume" /\ Alive /\ Request
  /\ used' = [used EXCEPT !.lost = lost]
  /\ answer' = IF said /\ s.turn # {} THEN s.turn ELSE answer
  /\ IF said /\ s.ended
     THEN Fail("ok") /\ fails' = AllClosed /\ UNCHANGED <<turn, state, progress, warnedAt>>
     ELSE \/ /\ Goto("top") /\ turn' = 2 /\ state' = [state EXCEPT ![2] = "running"]
             /\ progress' = now' /\ warnedAt' = Never /\ fails' = AllClosed
          \/ Fail("error") /\ UNCHANGED <<turn, state, progress, warnedAt, fails>>
  /\ UNCHANGED <<tries, children, reading, queue, steers, reported, stopped, recovered, rest>>

-----------------------------------------------------------------------------
(* The end                                                                 *)

\* A completion that is in the queue is not looked at any more.
TimeOut ==
  /\ pc = "top" /\ Late
  /\ Fail("timeout") /\ Request
  /\ UNCHANGED <<tries, server, io, book, rest, used>>

\* In any case the client is closed, and fragments and notifications that are
\* left are dropped; an answer that is no JSON is an error.
Close ==
  /\ pc = "close"
  /\ pc' = "ended"
  /\ Closed
  /\ exit' \in {exit} \union IF exit = "ok" /\ answer # {} THEN {"error"} ELSE {}
  /\ queue' = <<>> /\ steers' = 0 /\ fails' = <<>>
  /\ UNCHANGED <<now, tries, turn, answer, reported, progress, warnedAt, stopped,
                 recovered, rest, used>>

-----------------------------------------------------------------------------
Invocation ==
  \/ FeatureTest \/ ProbeWrapper \/ Inspect \/ CheckpointWals \/ PreSpawn \/ Gate
  \/ NoBinary \/ Initialize \/ InitializeTimesOut \/ Thread \/ OpenTurn
  \/ ExecRun \/ ExecTimesOut \/ ExecEnds
  \/ Steer \/ Steered \/ Hook \/ Handle \/ Empty
  \/ Lost \/ Quiet \/ Warn \/ Interrupt
  \/ Restart \/ ResumeFails \/ Resume \/ TimeOut \/ Close

Next == Invocation \/ Send \/ Die \/ ReaderEnds \/ ExecPrints \/ ExecExits

Spec == Init /\ [][Next]_vars /\ WF_vars(Invocation)

-----------------------------------------------------------------------------
\* However the start, the restart and the end go, there is at most one child at
\* a time, and none after the invocation has returned or raised; the start gate is
\* not held by then either.
OneChild == children <= 1 /\ (pc = "ended" => children = 0 /\ ~gate)

\* A success is reported only when a turn of this invocation has come to its end
\* at the server, completed or cut off; an earlier task's message passes for the
\* answer only when the server has lost the turn.  An exec turn succeeds when its
\* child has exited with 0 and what a schema asks for is there, and the log tells
\* how each exec turn has ended unless it raised.
SuccessIsReal ==
  /\ exit = "ok" => /\ used.lost \/ \E t \in Turns : state[t] \in {"completed", "cut"}
                    /\ 0 \in answer => used.lost
  /\ settings.mode = "exec" /\ exit = "ok" => state[1] = "completed" /\ Structured
  /\ settings.mode = "exec" /\ exit \notin {"open", "raised"} =>
       /\ told[1] = "turn_started"
       /\ told[Len(told)] = IF exit = "ok" THEN "turn_completed" ELSE "turn_failed"

\* A wrapper's tool that failed and after which nothing was heard for the
\* window, and no child was recovered, has been reported whenever the loop has
\* found the queue empty; but a warning that is set to come before the window has
\* passed closes what it finds.
SilenceIsReported ==
  [][pc = "quiet" /\ pc' # "quiet" /\ Alive /\ settings.warn \notin 1..Window - 1 =>
       \A i \in DOMAIN fails : ~fails[i].heard /\ now - fails[i].at >= Window =>
         \/ fails[i].tool \in reported'
         \/ \E j \in DOMAIN fails : j > i /\ fails[j].tool = fails[i].tool
    ]_vars

\* The invocation ends, whatever the child does.
TurnEnds == <>(pc = "ended")
=============================================================================
