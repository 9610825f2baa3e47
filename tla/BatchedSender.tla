--------------------------- MODULE BatchedSender ---------------------------
(***************************************************************************)
(* BatchedSender (claude_teams/messaging.py): messages to one recipient    *)
(* are buffered, and a timer flushes the buffer into the inbox with one    *)
(* append_messages_batch.  Senders, timer threads and a caller of flush()  *)
(* and close() share the buffer; self._lock covers single accesses to it,  *)
(* not the append and not the steps between two accesses.  The debounce is *)
(* taken to be positive: with 0 every send is a send and a flush().        *)
(***************************************************************************)
EXTENDS Integers, SequencesExt

CONSTANTS Senders,
          MaxSends,     \* bound: calls of send per sender
          MaxFailures,  \* bound: appends that raise
          MayClose      \* whether close() is called

\* What the constants may be.
BatchedConstants ==
  MaxSends \in Nat /\ MaxFailures \in Nat /\ MayClose \in BOOLEAN

Message == Senders \X (1..MaxSends)

VARIABLES
  closed,   \* self._closed
  buffer,   \* self._buffers[key]
  timer,    \* self._timers[key]: "none", "armed", or "fired" (running, not cancellable)
  running,  \* timer threads that have fired and not yet taken the lock
  hands,    \* batches popped and not yet appended, with who popped them
  pc,       \* where each sender is
  caller,   \* where the caller of flush() and close() is
  count,    \* sender -> messages it has called send for
  inbox,    \* what has been appended
  failures

vars == <<closed, buffer, timer, running, hands, pc, caller, count, inbox, failures>>

TypeOK ==
  /\ closed \in BOOLEAN
  /\ buffer \in Seq(Message) /\ inbox \in Seq(Message)
  /\ timer \in {"none", "armed", "fired"} /\ running \in Nat
  /\ \A h \in hands : h.by \in {"timer", "caller"} /\ h.batch \in Seq(Message)
  /\ pc \in [Senders -> {"idle", "checked", "arm"}]
  /\ caller \in {"out", "popping", "appending", "flushed", "closed"}
  /\ count \in [Senders -> 0..MaxSends]
  /\ failures \in 0..MaxFailures

Init ==
  /\ closed = FALSE
  /\ buffer = <<>> /\ inbox = <<>>
  /\ timer = "none" /\ running = 0
  /\ hands = {}
  /\ pc = [s \in Senders |-> "idle"] /\ caller = "out"
  /\ count = [s \in Senders |-> 0]
  /\ failures = 0

-----------------------------------------------------------------------------
(* send *)

\* It looks at _closed, without the lock; when it is set it raises.
Check(s) ==
  /\ pc[s] = "idle"
  /\ count[s] < MaxSends
  /\ ~closed
  /\ count' = [count EXCEPT ![s] = @ + 1]
  /\ pc' = [pc EXCEPT ![s] = "checked"]
  /\ UNCHANGED <<closed, buffer, timer, running, hands, caller, inbox, failures>>

\* The message is buffered; with a timer pending the call is done.
Buffer(s) ==
  /\ pc[s] = "checked"
  /\ buffer' = Append(buffer, <<s, count[s]>>)
  /\ pc' = [pc EXCEPT ![s] = IF timer = "none" THEN "arm" ELSE "idle"]
  /\ UNCHANGED <<closed, timer, running, hands, caller, count, inbox, failures>>

\* The lock is taken again to put a timer in place, unless there is one by now.
Arm(s) ==
  /\ pc[s] = "arm"
  /\ timer' = IF timer = "none" THEN "armed" ELSE timer
  /\ pc' = [pc EXCEPT ![s] = "idle"]
  /\ UNCHANGED <<closed, buffer, running, hands, caller, count, inbox, failures>>

-----------------------------------------------------------------------------
(* _flush_key, by a timer's thread or by the caller of flush() *)

Fire ==
  /\ timer = "armed"
  /\ timer' = "fired"
  /\ running' = running + 1
  /\ UNCHANGED <<closed, buffer, hands, pc, caller, count, inbox, failures>>

\* A mutant: the timer stays in self._timers.
Pop_KeepsTimer(by) ==
  /\ hands' = IF buffer = <<>> THEN hands
              ELSE hands \union {[by |-> by, batch |-> buffer]}
  /\ buffer' = <<>>
  /\ UNCHANGED <<closed, timer, pc, count, inbox, failures>>

\* The buffer and the timer are popped; a timer that has not fired is cancelled.
Pop(by) ==
  /\ hands' = IF buffer = <<>> THEN hands
              ELSE hands \union {[by |-> by, batch |-> buffer]}
  /\ buffer' = <<>>
  /\ timer' = "none"
  /\ UNCHANGED <<closed, pc, count, inbox, failures>>

TimerPops ==
  /\ running > 0
  /\ running' = running - 1
  /\ Pop("timer")
  /\ UNCHANGED caller

Done(h, next) ==
  /\ hands' = hands \ {h}
  /\ caller' = IF h.by = "caller" THEN next ELSE caller
  /\ UNCHANGED <<closed, timer, running, pc, count>>

\* The batch is appended to the inbox, outside the lock ...
Deliver(h) ==
  /\ inbox' = inbox \o h.batch
  /\ Done(h, "flushed")
  /\ UNCHANGED <<buffer, failures>>

\* A mutant: the batch replaces what was buffered since.
Fail_Replaces(h) ==
  /\ failures < MaxFailures
  /\ failures' = failures + 1
  /\ buffer' = h.batch
  /\ Done(h, "out")
  /\ UNCHANGED inbox

\* ... or that raises, and it goes back in front of what was buffered since.
Fail(h) ==
  /\ failures < MaxFailures
  /\ failures' = failures + 1
  /\ buffer' = h.batch \o buffer
  /\ Done(h, "out")
  /\ UNCHANGED inbox

-----------------------------------------------------------------------------
(* flush() and close() *)

\* flush() lists the keys under the lock ...
List ==
  /\ caller = "out"
  /\ caller' = IF buffer = <<>> THEN "flushed" ELSE "popping"
  /\ UNCHANGED <<closed, buffer, timer, running, hands, pc, count, inbox, failures>>

\* ... and flushes each.
CallerPops ==
  /\ caller = "popping"
  /\ caller' = IF buffer = <<>> THEN "flushed" ELSE "appending"
  /\ running' = running
  /\ Pop("caller")

FlushReturns ==
  /\ caller = "flushed"
  /\ caller' = "out"
  /\ UNCHANGED <<closed, buffer, timer, running, hands, pc, count, inbox, failures>>

\* close() goes on after its flush(): no more sends, no more timers.
Close ==
  /\ caller = "flushed" /\ MayClose
  /\ caller' = "closed"
  /\ closed' = TRUE
  /\ timer' = "none"
  /\ UNCHANGED <<buffer, running, hands, pc, count, inbox, failures>>

-----------------------------------------------------------------------------
SenderStep(s) == Buffer(s) \/ Arm(s)
TimerStep == Fire \/ TimerPops
FlushStep == \E h \in hands : Deliver(h) \/ Fail(h)
CallerStep == List \/ CallerPops \/ FlushReturns \/ Close

Next ==
  \/ \E s \in Senders : Check(s) \/ SenderStep(s)
  \/ TimerStep \/ FlushStep \/ CallerStep

\* Threads are scheduled; nobody has to call flush() or close().
Fairness ==
  /\ \A s \in Senders : WF_vars(SenderStep(s))
  /\ WF_vars(Fire) /\ WF_vars(TimerPops)
  /\ \A m \in Message : WF_vars(\E h \in hands : Contains(h.batch, m) /\ Deliver(h))

Spec == Init /\ [][Next]_vars /\ Fairness

-----------------------------------------------------------------------------
\* The messages whose call of send has got past the buffering.
Sent == {m \in Message : /\ m[2] <= count[m[1]]
                         /\ pc[m[1]] = "checked" => m[2] < count[m[1]]}

\* The batches, wherever they are.
Held == {h.batch : h \in hands} \union {buffer, inbox}

\* A message is in exactly one place, once: the buffer, the hands of one
\* flush, or the inbox.  A flush that fails loses and duplicates nothing.
ExactlyOnce ==
  \A m \in Sent :
     /\ \A b \in Held : \A i, j \in DOMAIN b : b[i] = m /\ b[j] = m => i = j
     /\ \E b \in Held : Contains(b, m)
     /\ ~ \E h \in hands : Contains(h.batch, m) /\ Contains(buffer \o inbox, m)
     /\ ~ (Contains(buffer, m) /\ Contains(inbox, m))
     /\ \A g, h \in hands : Contains(g.batch, m) /\ Contains(h.batch, m) => g = h

\* With an inbox that takes appends, whatever was sent gets there without
\* anybody calling flush(), unless close() cancels its timer.
EventuallyPosted ==
  \A m \in Message : m \in Sent ~> Contains(inbox, m) \/ failures > 0 \/ closed
=============================================================================
