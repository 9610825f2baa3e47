------------------------------ MODULE Mailbox ------------------------------
(***************************************************************************)
(* One agent's inbox file, inboxes/<agent>.json: a JSON array that every   *)
(* sender rewrites as a whole to append to it, and that its owner rewrites *)
(* as a whole to mark what it has read (claude_teams/messaging.py).        *)
(* Rewrites happen under inboxes/.lock; registration puts an empty inbox   *)
(* in place and deregistration and teardown unlink it, all without the     *)
(* lock (registration.py, teardown.py).                                    *)
(*                                                                         *)
(* A rewrite is path.write_text: it opens and truncates the file, then     *)
(* writes.  In between the path holds no JSON, and a rewrite whose file    *)
(* was unlinked or replaced meanwhile ends in a file nobody can find.      *)
(***************************************************************************)
EXTENDS Integers, SequencesExt

CONSTANTS Writers,      \* processes that append
          Owner,        \* the process that reads and marks
          Nobody,
          MaxSends,     \* bound: messages per writer
          MaxBatch,     \* bound: messages per append_messages_batch
          Limits,       \* bound: limits given to read_inbox_filtered
          Exists,       \* whether the inbox is there when the run starts
          MaxUnlinks,   \* bound: unlinks of the inbox
          MaxCrashes    \* bound: deaths of a process

ASSUME BoundsAssumption == /\ MaxSends \in Nat /\ MaxBatch \in Nat \ {0}
                           /\ MaxUnlinks \in Nat /\ MaxCrashes \in Nat
                           /\ Limits \subseteq Nat \ {0}
ASSUME NamesAssumption == /\ Owner \notin Writers /\ Nobody \notin Writers
                          /\ Owner # Nobody /\ Exists \in BOOLEAN

\* A message is named by its sender and its number at that sender.
Message == Writers \X (1..MaxSends)

VARIABLES
  path,      \* "missing", "torn" (truncated, no JSON) or "ok"
  msgs,      \* the array: message and read flag, in file order
  open,      \* who has the file at the path open for writing
  lock,      \* who holds inboxes/.lock
  buf,       \* what the holder of the lock has read
  pc,        \* where each process is
  batch,     \* writer -> the messages it is appending
  count,     \* writer -> how many messages it has tried to send
  acked,     \* messages whose append has returned to the sender
  picked,    \* the messages the owner's read will mark and return
  hand,      \* messages the owner's read has returned, not yet handled
  handled,   \* messages the owner has handled, in order
  unlinks, crashes

vars == <<path, msgs, open, lock, buf, pc, batch, count, acked, picked, hand,
          handled, unlinks, crashes>>
file == <<path, msgs, open>>
owner == <<picked, hand, handled>>
bounds == <<unlinks, crashes>>

Row == [msg : Message, read : BOOLEAN]
New(b) == [i \in DOMAIN b |-> [msg |-> b[i], read |-> FALSE]]
Messages(rows) == [i \in DOMAIN rows |-> rows[i].msg]

\* The elements of a sequence that are in a set, in their order: a recursive
\* function, so that what it keeps can be proved.
Those(s, S) ==
  LET F[n \in 0..Len(s)] ==
        IF n = 0 THEN <<>> ELSE IF s[n] \in S THEN Append(F[n - 1], s[n]) ELSE F[n - 1]
  IN F[Len(s)]

Unread(rows) == Those(rows, [msg : Message, read : {FALSE}])

\* What a writer may have sent.
From(w) == {w} \X (1..MaxSends)

TypeOK ==
  /\ path \in {"missing", "torn", "ok"}
  /\ msgs \in Seq(Row) /\ buf \in Seq(Row)
  /\ open \in Writers \union {Owner, Nobody}
  /\ lock \in Writers \union {Owner, Nobody}
  /\ pc \in [Writers \union {Owner} ->
               {"idle", "ensure", "append", "locked", "open", "handling",
                "starting", "missing"}]
  /\ batch \in [Writers -> Seq(Message)]
  /\ count \in [Writers -> 0..MaxSends]
  /\ acked \subseteq Message
  /\ picked \subseteq Message /\ hand \in Seq(Message) /\ handled \in Seq(Message)
  /\ unlinks \in 0..MaxUnlinks /\ crashes \in 0..MaxCrashes

Init ==
  /\ path = IF Exists THEN "ok" ELSE "missing"
  /\ msgs = <<>> /\ buf = <<>>
  /\ open = Nobody /\ lock = Nobody
  /\ pc = [p \in Writers \union {Owner} |->
             IF p = Owner /\ ~Exists THEN "starting" ELSE "idle"]
  /\ batch = [w \in Writers |-> <<>>]
  /\ count = [w \in Writers |-> 0]
  /\ acked = {}
  /\ picked = {} /\ hand = <<>> /\ handled = <<>>
  /\ unlinks = 0 /\ crashes = 0

Goto(p, l) == pc' = [pc EXCEPT ![p] = l]

-----------------------------------------------------------------------------
(* Rewriting the array: the same two steps for everybody. *)

\* write_text opens the path and truncates what it finds there.
Truncate(p) ==
  /\ lock = p
  /\ pc[p] = "locked"
  /\ path' = "torn" /\ msgs' = <<>> /\ open' = p
  /\ Goto(p, "open")
  /\ UNCHANGED <<lock, buf, batch, count, acked, owner, bounds>>

\* write_text writes: what is visible at the path changes only if the path
\* still leads to the file that was opened.
Written(p, rows) ==
  /\ lock = p
  /\ pc[p] = "open"
  /\ lock' = Nobody
  /\ buf' = <<>>
  /\ open' = IF open = p THEN Nobody ELSE open
  /\ path' = IF open = p THEN "ok" ELSE path
  /\ msgs' = IF open = p THEN rows ELSE msgs

-----------------------------------------------------------------------------
(* Senders. *)

\* append_message with one message, append_messages_batch with several.
Send(w, n) ==
  /\ pc[w] = "idle"
  /\ count[w] + n <= MaxSends
  /\ count' = [count EXCEPT ![w] = @ + n]
  /\ batch' = [batch EXCEPT ![w] = [i \in 1..n |-> <<w, count[w] + i>>]]
  /\ Goto(w, "ensure")
  /\ UNCHANGED <<file, lock, buf, acked, owner, bounds>>

\* ensure_inbox, in a locked section of its own.
Ensure(w) ==
  /\ pc[w] = "ensure"
  /\ lock = Nobody
  /\ path' = IF path = "missing" THEN "ok" ELSE path
  /\ Goto(w, "append")
  /\ UNCHANGED <<msgs, open, lock, buf, batch, count, acked, owner, bounds>>

\* The append takes the lock and reads the array.
ReadToAppend(w) ==
  /\ pc[w] = "append"
  /\ lock = Nobody
  /\ path = "ok"
  /\ lock' = w
  /\ buf' = msgs
  /\ Goto(w, "locked")
  /\ UNCHANGED <<file, batch, count, acked, owner, bounds>>

\* It finds no file or no JSON and raises: the sender knows.
AppendRaises(w) ==
  /\ pc[w] = "append"
  /\ lock = Nobody
  /\ path # "ok"
  /\ batch' = [batch EXCEPT ![w] = <<>>]
  /\ Goto(w, "idle")
  /\ UNCHANGED <<file, lock, buf, count, acked, owner, bounds>>

\* The new rows are written and the call returns.
AppendRows(w) ==
  /\ Written(w, buf \o New(batch[w]))
  /\ acked' = acked \union ToSet(batch[w])
  /\ batch' = [batch EXCEPT ![w] = <<>>]
  /\ Goto(w, "idle")
  /\ UNCHANGED <<count, owner, bounds>>

-----------------------------------------------------------------------------
(* The owner. *)

\* read_inbox(unread_only, mark_as_read): everything unread.
PickAll(rows) == ToSet(Messages(Unread(rows)))

\* A mutant: rows that were read before are picked again.
PickFrom_Read(rows, w, limit) ==
  LET own == Those(Messages(rows), From(w)) IN
  {own[i] : i \in {j \in DOMAIN own : j > Len(own) - limit}}

\* read_inbox_filtered(mark_as_read): of what is unread from one sender the
\* newest, if there is more than the limit.
PickFrom(rows, w, limit) ==
  LET own == Those(Messages(Unread(rows)), From(w)) IN
  {own[i] : i \in {j \in DOMAIN own : j > Len(own) - limit}}

\* A read takes the lock and picks; one that picks nothing, or finds no file or
\* no JSON, returns [] and changes nothing.
ReadToMark(S) ==
  /\ pc[Owner] = "idle"
  /\ lock = Nobody
  /\ path = "ok"
  /\ S # {}
  /\ lock' = Owner
  /\ buf' = msgs
  /\ picked' = S
  /\ Goto(Owner, "locked")
  /\ UNCHANGED <<file, batch, count, acked, hand, handled, bounds>>

\* A mutant: every row is marked, the picked ones are returned.
Mark_All ==
  /\ Written(Owner, [i \in DOMAIN buf |-> [buf[i] EXCEPT !.read = TRUE]])
  /\ hand' = Those(Messages(buf), picked)
  /\ picked' = {}
  /\ Goto(Owner, "handling")
  /\ UNCHANGED <<batch, count, acked, handled, bounds>>

\* A mutant: the picked rows are marked, every row is returned.
Mark_ReturnAll ==
  /\ Written(Owner, [i \in DOMAIN buf |->
                       IF buf[i].msg \in picked THEN [buf[i] EXCEPT !.read = TRUE]
                       ELSE buf[i]])
  /\ hand' = Messages(buf)
  /\ picked' = {}
  /\ Goto(Owner, "handling")
  /\ UNCHANGED <<batch, count, acked, handled, bounds>>

\* The rows are written back marked, and the messages are returned.
Mark ==
  /\ Written(Owner, [i \in DOMAIN buf |->
                       IF buf[i].msg \in picked THEN [buf[i] EXCEPT !.read = TRUE]
                       ELSE buf[i]])
  /\ hand' = Those(Messages(buf), picked)
  /\ picked' = {}
  /\ Goto(Owner, "handling")
  /\ UNCHANGED <<batch, count, acked, handled, bounds>>

\* A mutant: the loop goes back to polling after the first message.
Handle_First ==
  /\ pc[Owner] = "handling"
  /\ handled' = Append(handled, Head(hand))
  /\ hand' = Tail(hand)
  /\ Goto(Owner, "idle")
  /\ UNCHANGED <<file, lock, buf, batch, count, acked, picked, bounds>>

\* The loop handles them one after the other.
Handle ==
  /\ pc[Owner] = "handling"
  /\ handled' = Append(handled, Head(hand))
  /\ hand' = Tail(hand)
  /\ Goto(Owner, IF Len(hand) = 1 THEN "idle" ELSE "handling")
  /\ UNCHANGED <<file, lock, buf, batch, count, acked, picked, bounds>>

-----------------------------------------------------------------------------
(* Coming and going. *)

\* registration._ensure_inbox looks whether the inbox exists ...
RegisterLooks ==
  /\ pc[Owner] = "starting"
  /\ Goto(Owner, IF path = "missing" THEN "missing" ELSE "idle")
  /\ UNCHANGED <<file, lock, buf, batch, count, acked, owner, bounds>>

\* ... and puts an empty one in its place with os.replace, without the lock.
RegisterReplaces ==
  /\ pc[Owner] = "missing"
  /\ path' = "ok" /\ msgs' = <<>> /\ open' = Nobody
  /\ Goto(Owner, "idle")
  /\ UNCHANGED <<lock, buf, batch, count, acked, owner, bounds>>

Unlink ==
  /\ path # "missing"
  /\ unlinks < MaxUnlinks
  /\ unlinks' = unlinks + 1
  /\ path' = "missing" /\ msgs' = <<>> /\ open' = Nobody
  /\ UNCHANGED <<lock, buf, batch, count, acked, owner, crashes>>

\* deregister, by the owner, between two polls; it may register again.
Deregister ==
  /\ pc[Owner] = "idle"
  /\ Unlink
  /\ Goto(Owner, "starting")

\* _force_cleanup_member, by the lead, at any time.
CleanUp == Unlink /\ UNCHANGED pc

\* A process dies and is started again: its lock is released by the operating
\* system, what it had read and not handled is gone.
Crash(p) ==
  /\ pc[p] \notin {"idle", "starting"}
  /\ crashes < MaxCrashes
  /\ crashes' = crashes + 1
  /\ lock' = IF lock = p THEN Nobody ELSE lock
  /\ buf' = IF lock = p THEN <<>> ELSE buf
  /\ open' = IF open = p THEN Nobody ELSE open
  /\ batch' = [w \in Writers |-> IF w = p THEN <<>> ELSE batch[w]]
  /\ IF p = Owner THEN picked' = {} /\ hand' = <<>> ELSE UNCHANGED <<picked, hand>>
  /\ Goto(p, IF p = Owner THEN "starting" ELSE "idle")
  /\ UNCHANGED <<path, msgs, count, acked, handled, unlinks>>

-----------------------------------------------------------------------------
WriterStep(w) ==
  Ensure(w) \/ ReadToAppend(w) \/ AppendRaises(w) \/ Truncate(w) \/ AppendRows(w)

OwnerStep ==
  \/ ReadToMark(PickAll(msgs))
  \/ \E w \in Writers, l \in Limits : ReadToMark(PickFrom(msgs, w, l))
  \/ Truncate(Owner) \/ Mark \/ Handle
  \/ RegisterLooks \/ RegisterReplaces

Next ==
  \/ \E w \in Writers : WriterStep(w) \/ \E n \in 1..MaxBatch : Send(w, n)
  \/ OwnerStep
  \/ Deregister \/ CleanUp
  \/ \E p \in Writers \union {Owner} : Crash(p)

\* The loop polls for ever; a call that has started goes on.
Fairness == WF_vars(OwnerStep) /\ \A w \in Writers : WF_vars(WriterStep(w))

Spec == Init /\ [][Next]_vars /\ Fairness

\* The steps of an inbox that stays where it is and is read as a whole.
StableStep ==
  \/ \E w \in Writers : WriterStep(w) \/ \E n \in 1..MaxBatch : Send(w, n)
  \/ ReadToMark(PickAll(msgs)) \/ Truncate(Owner) \/ Mark \/ Handle

-----------------------------------------------------------------------------
(* What senders and the owner can rely on. *)

\* The array as it is for whoever gets the lock next, if nobody dies: a rewrite
\* that is under way has not happened yet.
Settled == IF open # Nobody THEN buf ELSE msgs

Waiting == Messages(Unread(Settled))

\* Nothing is handled twice: what the owner has been given is neither given to
\* it again nor waiting to be, whatever was unlinked, replaced or cut short.
AtMostOnce ==
  IsInjective(handled \o hand \o Waiting)

\* "No message is permanently lost during concurrent operation": one whose append has returned waits in the
\* inbox, is in the owner's hands, or has been handled.
NoAckedLoss == acked \subseteq ToSet(handled \o hand \o Waiting)

\* It is lost only where the file goes without the lock: it is unlinked or
\* replaced by a registration, or a process dies over it.
LostOnlyByChurn == Exists /\ unlinks = 0 /\ crashes = 0 => NoAckedLoss

=============================================================================
