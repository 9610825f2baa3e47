--------------------------- MODULE AdaptersProofs ---------------------------
(* Theorems about Adapters, for any agents, tasks, messages and bounds.     *)
EXTENDS Adapters, Lemmas

-----------------------------------------------------------------------------
(* Type correctness, with where an agent is in its loop. *)

Working == {"turn", "retry", "complete", "block"}

\* A task is in flight in a turn, at its end, and while the notes that were put
\* off are answered before that end; and a pane whose agent is no member any
\* more runs no loop.
Flow(a) ==
  /\ inFlight[a] # NoTask <=> pc[a] \in Working \/ talk[a].then # "none"
  /\ talk[a].then # "none" => pc[a] \in {"defer", "prose", "repair"}
  /\ pc[a] = "handle" => batch[a] # <<>>
  /\ pc[a] \in {"plan", "replan"} => talk[a].task \in Tasks
  /\ a \in Panes \ members => pc[a] \in {"leaving"} \union Over

FlowInv == TypeOK /\ \A a \in Agents : Flow(a)

Talk == [notes : SUBSET Notes, task : Tasks \union {NoTask}, then : {"none", "complete", "block"}]

LEMMA FlowInit == Init => FlowInv
<1> SUFFICES ASSUME Init PROVE FlowInv
  OBVIOUS
<1>1. Silent \in Talk /\ Silent.then = "none"
  BY DEF Silent, Talk
<1>2. TypeOK
  BY <1>1 DEF Init, Start, TypeOK, Places, Over, Nothing, Talk
<1> QED
  BY <1>1, <1>2 DEF Init, Start, FlowInv, Flow, Working, Over

\* What is in an inbox or a batch.
LEMMA MessageParts ==
  ASSUME NEW m \in Message
  PROVE  /\ m[1] \in Kinds \union {"shutdown"}
         /\ m[1] # "shutdown" => m[2] \in Notes
         /\ m[1] = "shutdown" => m[2] \in Requests
  BY AdaptersAssumption DEF Message, Kinds

LEMMA HeadOfBatch ==
  ASSUME FlowInv, NEW a \in Agents, pc[a] = "handle"
  PROVE  /\ batch[a] \in Seq(Message) /\ batch[a] # <<>>
         /\ Head(batch[a]) \in Message
         /\ Tail(batch[a]) \in Seq(Message)
<1>1. batch[a] \in Seq(Message) /\ batch[a] # <<>>
  BY DEF FlowInv, Flow, TypeOK
<1> QED
  BY <1>1, HeadTailProperties

\* What is handled in one turn is prose.
LEMMA RunIsProse ==
  ASSUME NEW ms \in Seq(Message)
  PROVE  /\ Run(ms) \in 0..Len(ms)
         /\ \A k \in 1..Run(ms) : ms[k][1] \in Prose
<1> DEFINE es == Append(ms, <<"end">>)
           I == {i \in 1..Len(es) : es[i][1] \notin Prose}
<1>1. /\ Len(ms) \in Nat /\ Len(es) = Len(ms) + 1
      /\ \A k \in 1..Len(ms) : es[k] = ms[k]
      /\ es[Len(ms) + 1] = <<"end">>
  OBVIOUS
<1>2. I \in SUBSET Nat /\ Len(ms) + 1 \in I
  BY <1>1 DEF Prose
<1>3. Run(ms) = Min(I) - 1
  BY <1>2 DEF Run, SelectInSeq
<1> HIDE DEF es
<1>4. Min(I) \in I /\ \A j \in I : Min(I) <= j
  BY <1>2, LeastOf
<1>5. Min(I) \in 1..Len(ms) + 1 /\ Min(I) <= Len(ms) + 1
  BY <1>1, <1>2, <1>4
<1>6. \A k \in 1..Run(ms) : ms[k][1] \in Prose
  <2> TAKE k \in 1..Run(ms)
  <2>1. k \in 1..Len(ms) /\ k < Min(I) /\ k \in 1..Len(es)
    BY <1>1, <1>3, <1>5
  <2>2. k \notin I
    BY <1>2, <1>4, <2>1
  <2> QED
    BY <1>1, <2>1, <2>2
<1> QED
  BY <1>1, <1>3, <1>5, <1>6

\* A step of one agent leaves the others where they are.
LEMMA KeepsFlow ==
  ASSUME FlowInv, TypeOK', NEW a \in Agents, Flow(a)',
         \A b \in Agents \ {a} :
            /\ pc'[b] = pc[b] /\ inFlight'[b] = inFlight[b] /\ talk'[b] = talk[b]
            /\ batch'[b] = batch[b] /\ (b \in members' <=> b \in members)
  PROVE  FlowInv'
  BY DEF FlowInv, Flow

\* A step of nobody's loop.
LEMMA KeepsFlowOfAll ==
  ASSUME FlowInv, TypeOK', UNCHANGED <<pc, inFlight, talk, batch, members>>
  PROVE  FlowInv'
  BY DEF FlowInv, Flow

LEMMA DropType ==
  ASSUME TypeOK, NEW why, NEW ns \in SUBSET Notes, Drop(why, ns)
  PROVE  dropped' \subseteq Notes
  BY DEF TypeOK, Drop

\* What is told to senders, and what of it is lost.
LEMMA TellType ==
  ASSUME TypeOK, NEW ns \in SUBSET Notes, Tell(ns)
  PROVE  handled' \subseteq Notes /\ dropped' \subseteq Notes
  BY DEF TypeOK, Tell, Drop

\* The mark and the report of a blocked task.
LEMMA MarkType ==
  ASSUME TypeOK, NEW i \in Tasks, NEW done \in SUBSET Ways, MarkBlocked(i, done)
  PROVE  news' \in [Tasks -> SUBSET News]
  BY DEF TypeOK, MarkBlocked, News, Ways

\* The answers to shutdown requests.
LEMMA AnswerType ==
  ASSUME TypeOK, NEW a \in Agents, NEW rs \in SUBSET Requests,
         NEW kind \in {"approved", "rejected"}, Answer(a, rs, kind)
  PROVE  /\ answers' \subseteq {"approved", "rejected"} \X Agents \X Requests
         /\ seen' \in [Agents -> SUBSET Requests]
<1>1. PICK lost \in SUBSET (rs \ seen[a]) :
        /\ answers' = answers \union {<<kind, a, r>> : r \in (rs \ seen[a]) \ lost}
        /\ seen' = [seen EXCEPT ![a] = @ \union rs]
  BY DEF Answer
<1> QED
  BY <1>1 DEF TypeOK

\* What an agent is to answer.
LEMMA TalkOfNotes ==
  ASSUME FlowInv, NEW a \in Agents, NEW ns \in SUBSET Notes,
         talk' = [talk EXCEPT ![a].notes = ns]
  PROVE  /\ talk' \in [Agents -> Talk] /\ talk'[a].then = talk[a].then
         /\ \A b \in Agents \ {a} : talk'[b] = talk[b]
<1>1. talk \in [Agents -> Talk] /\ talk[a] \in Talk
  BY DEF FlowInv, TypeOK, Talk
<1>2. /\ [talk[a] EXCEPT !.notes = ns] \in Talk
      /\ [talk[a] EXCEPT !.notes = ns].then = talk[a].then
  BY <1>1 DEF Talk
<1>3. talk' = [talk EXCEPT ![a] = [talk[a] EXCEPT !.notes = ns]]
  BY <1>1
<1> QED
  BY <1>1, <1>2, <1>3

\* What an agent is to plan.
LEMMA TalkOfPlan ==
  ASSUME FlowInv, NEW a \in Agents, NEW ns \in SUBSET Notes, NEW i \in Tasks,
         talk' = [talk EXCEPT ![a].notes = ns, ![a].task = i]
  PROVE  /\ talk' \in [Agents -> Talk] /\ talk'[a].then = talk[a].then /\ talk'[a].task = i
         /\ \A b \in Agents \ {a} : talk'[b] = talk[b]
<1>1. talk \in [Agents -> Talk] /\ talk[a] \in Talk
  BY DEF FlowInv, TypeOK, Talk
<1>2. /\ [talk[a] EXCEPT !.notes = ns, !.task = i] \in Talk
      /\ [talk[a] EXCEPT !.notes = ns, !.task = i].then = talk[a].then
      /\ [talk[a] EXCEPT !.notes = ns, !.task = i].task = i
  BY <1>1 DEF Talk
<1>3. talk' = [talk EXCEPT ![a] = [talk[a] EXCEPT !.notes = ns, !.task = i]]
  BY <1>1
<1> QED
  BY <1>1, <1>2, <1>3

\* What an agent does when it has answered.
LEMMA TalkOfEnd ==
  ASSUME FlowInv, NEW a \in Agents, NEW next \in {"complete", "block"},
         talk' = [talk EXCEPT ![a].then = next]
  PROVE  /\ talk' \in [Agents -> Talk] /\ talk'[a].then = next
         /\ \A b \in Agents \ {a} : talk'[b] = talk[b]
<1>1. talk \in [Agents -> Talk] /\ talk[a] \in Talk
  BY DEF FlowInv, TypeOK, Talk
<1>2. /\ [talk[a] EXCEPT !.then = next] \in Talk
      /\ [talk[a] EXCEPT !.then = next].then = next
  BY <1>1 DEF Talk
<1>3. talk' = [talk EXCEPT ![a] = [talk[a] EXCEPT !.then = next]]
  BY <1>1
<1> QED
  BY <1>1, <1>2, <1>3

\* With its messages dispatched an agent is where it handles the next one, lists
\* the tasks or waits.
LEMMA ProceedFlow ==
  ASSUME FlowInv, NEW a \in Agents, NEW rest, Proceed(a, rest), batch'[a] = rest,
         inFlight[a] = NoTask, pc[a] \notin {"leaving"} \union Over,
         inFlight' = inFlight, members' = members, talk'[a].then = "none"
  PROVE  /\ pc' \in [Agents -> Places]
         /\ \A b \in Agents \ {a} : pc'[b] = pc[b]
         /\ Flow(a)'
<1>1. pc' \in [Agents -> Places] /\ \A b \in Agents \ {a} : pc'[b] = pc[b]
  BY DEF FlowInv, TypeOK, Proceed, Goto, Places
<1>2. /\ pc'[a] \in {"handle", "idle", "list"}
      /\ pc'[a] = "handle" => rest # <<>>
  BY DEF FlowInv, TypeOK, Proceed, Goto
<1>3. a \notin Panes \ members
  BY DEF FlowInv, Flow
<1> QED
  BY <1>1, <1>2, <1>3 DEF Flow, Working, Over

\* After its answers an agent goes on with the batch, with the next note that
\* was put off, or with the end of the task it has in flight.
LEMMA GoesFlow ==
  ASSUME FlowInv, NEW a \in Agents, Goes(a), pc[a] \in {"prose", "repair", "plan", "replan"},
         batch' = batch, inFlight' = inFlight, members' = members
  PROVE  /\ talk' \in [Agents -> Talk] /\ pc' \in [Agents -> Places]
         /\ \A b \in Agents \ {a} : pc'[b] = pc[b] /\ talk'[b] = talk[b]
         /\ Flow(a)'
<1> DEFINE s == IF deferred[a] = {} THEN Silent ELSE [talk[a] EXCEPT !.notes = {}]
<1>0. /\ talk \in [Agents -> Talk] /\ pc \in [Agents -> Places]
      /\ inFlight[a] # NoTask <=> talk[a].then # "none"
      /\ a \notin Panes \ members
      /\ Silent \in Talk /\ Silent.then = "none"
  BY DEF FlowInv, TypeOK, Talk, Flow, Working, Over, Silent
<1>1. talk' = [talk EXCEPT ![a] = s]
  BY DEF Goes
<1>2. /\ s \in Talk
      /\ deferred[a] = {} => s.then = "none"
      /\ deferred[a] # {} => s.then = talk[a].then
  BY <1>0 DEF Talk
<1> HIDE DEF s
<1>3. talk' \in [Agents -> Talk] /\ talk'[a] = s /\ \A b \in Agents \ {a} : talk'[b] = talk[b]
  BY <1>0, <1>1, <1>2
<1>4. CASE talk[a].then = "none"
  <2>1. Proceed(a, batch[a])
    BY <1>4 DEF Goes
  <2>2. talk'[a].then = "none" /\ inFlight[a] = NoTask
    BY <1>0, <1>2, <1>3, <1>4
  <2> QED
    BY <1>3, <2>1, <2>2, ProceedFlow DEF Over
<1>5. CASE talk[a].then # "none"
  <2>1. Goto(a, IF deferred[a] # {} THEN "defer" ELSE talk[a].then)
    BY <1>5 DEF Goes
  <2>2. talk[a].then \in {"complete", "block"}
    BY <1>0, <1>5 DEF Talk
  <2>3. /\ pc' \in [Agents -> Places]
        /\ \A b \in Agents \ {a} : pc'[b] = pc[b]
        /\ pc'[a] = IF deferred[a] # {} THEN "defer" ELSE talk[a].then
    BY <1>0, <2>1, <2>2 DEF Goto, Places
  <2>4. Flow(a)'
    BY <1>0, <1>2, <1>3, <1>5, <2>2, <2>3 DEF Flow, Working, Over
  <2> QED
    BY <1>3, <2>3, <2>4
<1> QED
  BY <1>4, <1>5

-----------------------------------------------------------------------------
(* One lemma per group of operations. *)

LEMMA FlowDrain == ASSUME FlowInv, NEW a \in Agents, Drain(a) PROVE FlowInv'
<1>0. inFlight[a] = NoTask /\ talk[a].then = "none"
  BY DEF FlowInv, Flow, Working, Drain
<1>1. /\ batch'[a] = inbox[a]
      /\ \A b \in Agents \ {a} : batch'[b] = batch[b]
      /\ batch' \in [Agents -> Seq(Message)] /\ inbox' \in [Agents -> Seq(Message)]
      /\ talk' = talk /\ members' = members /\ inFlight' = inFlight
  BY DEF FlowInv, TypeOK, Drain, lead, aside, work
<1>2. /\ pc' \in [Agents -> Places] /\ Flow(a)' /\ \A b \in Agents \ {a} : pc'[b] = pc[b]
  BY <1>0, <1>1, ProceedFlow DEF Drain, Over
<1>3. TypeOK'
  BY <1>1, <1>2 DEF FlowInv, TypeOK, Drain, tasks, lead, aside, work, said
<1> QED
  BY <1>1, <1>2, <1>3, KeepsFlow

LEMMA FlowSteer == ASSUME FlowInv, NEW a \in Agents, HandleSteer(a) PROVE FlowInv'
<1>1. /\ Head(batch[a])[2] \in Notes /\ Tail(batch[a]) \in Seq(Message)
  BY HeadOfBatch, MessageParts DEF HandleSteer
<1>2. /\ batch'[a] = Tail(batch[a]) /\ inFlight[a] = NoTask /\ talk[a].then = "none"
      /\ \A b \in Agents \ {a} : batch'[b] = batch[b]
      /\ batch' \in [Agents -> Seq(Message)]
      /\ talk' = talk /\ members' = members /\ inFlight' = inFlight
  BY <1>1 DEF FlowInv, TypeOK, Flow, Working, HandleSteer, lead, aside, work
<1>3. /\ pc' \in [Agents -> Places] /\ Flow(a)' /\ \A b \in Agents \ {a} : pc'[b] = pc[b]
  BY <1>2, ProceedFlow DEF HandleSteer, Over
<1>4. dropped' \subseteq Notes
  BY <1>1, DropType DEF FlowInv, HandleSteer
<1>5. TypeOK'
  BY <1>2, <1>3, <1>4 DEF FlowInv, TypeOK, HandleSteer, tasks, lead, aside, work
<1> QED
  BY <1>2, <1>3, <1>5, KeepsFlow

LEMMA FlowShutdown == ASSUME FlowInv, NEW a \in Agents, HandleShutdown(a) PROVE FlowInv'
<1>0. /\ Head(batch[a])[2] \in Requests /\ Tail(batch[a]) \in Seq(Message)
  BY HeadOfBatch, MessageParts DEF HandleShutdown
<1>1. /\ inFlight[a] = NoTask /\ talk[a].then = "none"
      /\ talk' = talk /\ members' = members /\ inFlight' = inFlight
  BY DEF FlowInv, TypeOK, Flow, Working, HandleShutdown, lead, aside, work
<1>2. /\ answers' \subseteq {"approved", "rejected"} \X Agents \X Requests
      /\ seen' \in [Agents -> SUBSET Requests]
  <2>1. {Head(batch[a])[2]} \in SUBSET Requests
           /\ Answer(a, {Head(batch[a])[2]}, "approved")
    BY <1>0 DEF HandleShutdown
  <2> QED
    BY <2>1, AnswerType DEF FlowInv
<1>3. CASE Head(batch[a])[2] \in seen[a]
  <2>1. /\ batch'[a] = Tail(batch[a])
        /\ \A b \in Agents \ {a} : batch'[b] = batch[b]
        /\ batch' \in [Agents -> Seq(Message)]
    BY <1>0, <1>3 DEF FlowInv, TypeOK, HandleShutdown
  <2>2. /\ pc' \in [Agents -> Places] /\ Flow(a)' /\ \A b \in Agents \ {a} : pc'[b] = pc[b]
    BY <1>1, <1>3, <2>1, ProceedFlow DEF HandleShutdown, Over
  <2>3. TypeOK'
    BY <1>1, <1>2, <2>1, <2>2 DEF FlowInv, TypeOK, HandleShutdown, tasks, lead, aside, work
  <2> QED
    BY <1>1, <2>1, <2>2, <2>3, KeepsFlow
<1>4. CASE Head(batch[a])[2] \notin seen[a]
  <2>1. /\ pc' = [pc EXCEPT ![a] = "exit"] /\ batch' = [batch EXCEPT ![a] = <<>>]
    BY <1>4 DEF HandleShutdown, Goto
  <2>2. /\ pc' \in [Agents -> Places] /\ batch' \in [Agents -> Seq(Message)]
        /\ \A b \in Agents \ {a} : pc'[b] = pc[b] /\ batch'[b] = batch[b]
        /\ pc'[a] = "exit"
    BY <2>1 DEF FlowInv, TypeOK, Places
  <2>3. Flow(a)'
    BY <1>1, <2>2 DEF FlowInv, Flow, HandleShutdown, Working, Over
  <2>4. TypeOK'
    BY <1>1, <1>2, <2>2 DEF FlowInv, TypeOK, HandleShutdown, tasks, lead, aside, work
  <2> QED
    BY <1>1, <2>2, <2>3, <2>4, KeepsFlow
<1> QED
  BY <1>3, <1>4

LEMMA FlowNotes == ASSUME FlowInv, NEW a \in Agents, HandleNotes(a) PROVE FlowInv'
<1> DEFINE n == Run(batch[a])
           ns == {m[2] : m \in ToSet(SubSeq(batch[a], 1, n))}
<1>1. /\ batch[a] \in Seq(Message)
      /\ n \in 1..Len(batch[a])
      /\ \A k \in 1..n : batch[a][k][1] \in Prose
  BY RunIsProse DEF FlowInv, TypeOK, HandleNotes
<1> HIDE DEF n
<1>2. ns \in SUBSET Notes
  <2> SUFFICES ASSUME NEW m \in ToSet(SubSeq(batch[a], 1, n)) PROVE m[2] \in Notes
    OBVIOUS
  <2>1. PICK k \in 1..n : m = batch[a][k]
    BY <1>1, SubSeqProperties DEF ToSet
  <2>2. m \in Message /\ m[1] \in Prose
    BY <1>1, <2>1
  <2> QED
    BY <2>2, MessageParts DEF Prose
<1>3. SubSeq(batch[a], n + 1, Len(batch[a])) \in Seq(Message)
  BY <1>1, SubSeqProperties
<1>4. /\ pc[a] = "handle" /\ pc' = [pc EXCEPT ![a] = "prose"]
      /\ talk' = [talk EXCEPT ![a].notes = ns]
      /\ batch' = [batch EXCEPT ![a] = SubSeq(@, n + 1, Len(@))]
      /\ members' = members /\ inFlight' = inFlight
  BY DEF HandleNotes, Goto, n, lead, work
<1> HIDE DEF ns
<1>5. /\ talk' \in [Agents -> Talk] /\ talk'[a].then = talk[a].then
      /\ \A b \in Agents \ {a} : talk'[b] = talk[b]
  BY <1>2, <1>4, TalkOfNotes
<1>6. /\ pc' \in [Agents -> Places] /\ batch' \in [Agents -> Seq(Message)]
      /\ pc'[a] = "prose"
      /\ \A b \in Agents \ {a} : pc'[b] = pc[b] /\ batch'[b] = batch[b]
  BY <1>3, <1>4 DEF FlowInv, TypeOK, Places
<1>7. Flow(a)'
  BY <1>4, <1>5, <1>6 DEF FlowInv, Flow, Working, Over
<1>8. TypeOK'
  BY <1>5, <1>6 DEF FlowInv, TypeOK, HandleNotes, tasks, lead, work, said, Talk
<1> QED
  BY <1>4, <1>5, <1>6, <1>7, <1>8, KeepsFlow

\* Where an agent is asked for a plan, it has one of the tasks there are.
LEMMA FlowPlan == ASSUME FlowInv, NEW a \in Agents, HandlePlan(a) PROVE FlowInv'
<1> DEFINE n == Head(batch[a])[2]
<1>0. n \in Notes /\ Tail(batch[a]) \in Seq(Message)
  BY HeadOfBatch, MessageParts DEF HandlePlan, Plans
<1>1. /\ batch'[a] = Tail(batch[a])
      /\ \A b \in Agents \ {a} : batch'[b] = batch[b]
      /\ batch' \in [Agents -> Seq(Message)]
      /\ pc[a] = "handle" /\ inFlight[a] = NoTask /\ talk[a].then = "none"
      /\ members' = members /\ inFlight' = inFlight
      /\ a \notin Panes \ members
  BY <1>0 DEF FlowInv, TypeOK, Flow, Working, HandlePlan, lead, work, Over
<1>2. CASE Proceed(a, Tail(batch[a])) /\ UNCHANGED talk
           /\ handled' \subseteq Notes /\ dropped' \subseteq Notes
  <2>1. /\ pc' \in [Agents -> Places] /\ Flow(a)' /\ \A b \in Agents \ {a} : pc'[b] = pc[b]
    BY <1>1, <1>2, ProceedFlow DEF Over
  <2>2. TypeOK'
    BY <1>1, <1>2, <2>1 DEF FlowInv, TypeOK, HandlePlan, tasks, lead, work
  <2> QED
    BY <1>1, <1>2, <2>1, <2>2, KeepsFlow
<1>3. ASSUME NEW i \in Tasks, Goto(a, "plan"),
             talk' = [talk EXCEPT ![a].notes = {n}, ![a].task = i],
             UNCHANGED <<handled, dropped>>
      PROVE  FlowInv'
  <2>1. {n} \in SUBSET Notes
    BY <1>0
  <2> HIDE DEF n
  <2>2. /\ talk' \in [Agents -> Talk] /\ talk'[a].then = talk[a].then /\ talk'[a].task = i
        /\ \A b \in Agents \ {a} : talk'[b] = talk[b]
    BY <1>3, <2>1, TalkOfPlan
  <2>3. /\ pc' \in [Agents -> Places] /\ pc'[a] = "plan"
        /\ \A b \in Agents \ {a} : pc'[b] = pc[b]
    BY <1>3 DEF FlowInv, TypeOK, Goto, Places
  <2>4. Flow(a)'
    BY <1>1, <2>2, <2>3 DEF Flow, Working, Over
  <2>5. TypeOK'
    BY <1>1, <1>3, <2>2, <2>3 DEF FlowInv, TypeOK, HandlePlan, tasks, lead, work, Talk
  <2> QED
    BY <1>1, <2>2, <2>3, <2>4, <2>5, KeepsFlow
<1>4. \/ (\E why : Drop(why, {n}))
           /\ Proceed(a, Tail(batch[a])) /\ UNCHANGED <<talk, handled>>
      \/ Tell({n}) /\ Proceed(a, Tail(batch[a])) /\ UNCHANGED talk
      \/ \E i \in Tasks :
           /\ Goto(a, "plan")
           /\ talk' = [talk EXCEPT ![a].notes = {n}, ![a].task = i]
           /\ UNCHANGED <<handled, dropped>>
  BY DEF HandlePlan
<1>5. /\ \A why : Drop(why, {n}) => dropped' \subseteq Notes
      /\ Tell({n}) => handled' \subseteq Notes /\ dropped' \subseteq Notes
  <2>1. {n} \in SUBSET Notes
    BY <1>0
  <2> HIDE DEF n
  <2> QED
    BY <2>1, DropType, TellType DEF FlowInv
<1>6. handled \subseteq Notes /\ dropped \subseteq Notes
  BY DEF FlowInv, TypeOK
<1> HIDE DEF n
<1> QED
  BY <1>0, <1>2, <1>3, <1>4, <1>5, <1>6

\* The answers of an agent: the tasks, its inbox and its batch stay.
LEMMA FlowAnswers ==
  ASSUME FlowInv, NEW a \in Agents, Goes(a), pc[a] \in {"prose", "repair", "plan", "replan"},
         UNCHANGED <<tasks, lead, inbox, batch, candidates, work, stopping, seen,
                     deferred, steered, answers>>,
         news' \in [Tasks -> SUBSET News],
         handled' \subseteq Notes, dropped' \subseteq Notes
  PROVE  FlowInv'
<1>1. batch' = batch /\ inFlight' = inFlight /\ members' = members
  BY DEF lead, work
<1>2. /\ talk' \in [Agents -> Talk] /\ pc' \in [Agents -> Places]
      /\ \A b \in Agents \ {a} : pc'[b] = pc[b] /\ talk'[b] = talk[b]
      /\ Flow(a)'
  BY <1>1, GoesFlow
<1>3. TypeOK'
  BY <1>2 DEF FlowInv, TypeOK, tasks, lead, work, Talk
<1> QED
  BY <1>1, <1>2, <1>3, KeepsFlow

\* What an agent is to answer are notes.
LEMMA AnswerParts ==
  ASSUME FlowInv, NEW a \in Agents
  PROVE  /\ talk[a].notes \in SUBSET Notes
         /\ handled \subseteq Notes /\ dropped \subseteq Notes
         /\ news \in [Tasks -> SUBSET News]
  BY DEF FlowInv, TypeOK

LEMMA FlowTalk ==
  ASSUME FlowInv, NEW a \in Agents, ByTool(a) \/ Reply(a)
  PROVE  FlowInv'
<1>1. CASE ByTool(a)
  <2> PICK told \in SUBSET talk[a].notes \ {{}} :
         handled' = handled \union told
         /\ Drop("left out by the model", talk[a].notes \ told)
    BY <1>1 DEF ByTool
  <2>1. talk[a].notes \ told \in SUBSET Notes
    BY AnswerParts
  <2>2. dropped' \subseteq Notes /\ handled' \subseteq Notes
    BY <2>1, AnswerParts, DropType DEF FlowInv
  <2> QED
    BY <1>1, <2>2, AnswerParts, FlowAnswers DEF ByTool, Answers, AnswersEnd
<1>2. CASE Reply(a)
  <2>1. dropped' \subseteq Notes /\ handled' \subseteq Notes
    BY <1>2, AnswerParts, TellType DEF FlowInv, Reply
  <2> QED
    BY <1>2, <2>1, AnswerParts, FlowAnswers DEF Reply, Answers, AnswersEnd
<1> QED
  BY <1>1, <1>2

LEMMA FlowPlanned ==
  ASSUME FlowInv, NEW a \in Agents, PlanSent(a) \/ PlanFails(a)
  PROVE  FlowInv'
<1>1. CASE PlanSent(a)
  <2>1. dropped' \subseteq Notes /\ handled' \subseteq Notes
    BY <1>1, AnswerParts, TellType DEF FlowInv, PlanSent
  <2> QED
    BY <1>1, <2>1, AnswerParts, FlowAnswers DEF PlanSent, Planned
<1>2. CASE PlanFails(a)
  <2>1. talk[a].task \in Tasks
    BY <1>2 DEF FlowInv, Flow, PlanFails
  <2>2. /\ news' \in [Tasks -> SUBSET News]
        /\ handled' \subseteq Notes /\ dropped' \subseteq Notes
    <3>1. CASE /\ Drop("a plan of a completed task", talk[a].notes)
               /\ UNCHANGED <<news, handled, raises>>
      BY <3>1, AnswerParts, DropType DEF FlowInv
    <3>2. ASSUME NEW done \in SUBSET Ways, MarkBlocked(talk[a].task, done),
                 handled' = IF "reported" \in done THEN handled \union talk[a].notes ELSE handled,
                 Drop("a send that failed", IF "reported" \in done THEN {} ELSE talk[a].notes)
          PROVE  /\ news' \in [Tasks -> SUBSET News]
                 /\ handled' \subseteq Notes /\ dropped' \subseteq Notes
      <4>1. news' \in [Tasks -> SUBSET News]
        BY <2>1, <3>2, MarkType DEF FlowInv
      <4> QED
        BY <3>2, <4>1, AnswerParts DEF Drop
    <3> QED
      BY <1>2, <3>1, <3>2 DEF PlanFails
  <2> QED
    BY <1>2, <2>2, FlowAnswers DEF PlanFails, Planned
<1> QED
  BY <1>1, <1>2

LEMMA FlowPutOff == ASSUME FlowInv, NEW a \in Agents, PutOff(a) PROVE FlowInv'
<1>1. PICK n \in deferred[a] :
        /\ deferred' = [deferred EXCEPT ![a] = @ \ {n}]
        /\ talk' = [talk EXCEPT ![a].notes = {n}]
  BY DEF PutOff
<1>2. {n} \in SUBSET Notes /\ deferred' \in [Agents -> SUBSET Notes]
  BY <1>1 DEF FlowInv, TypeOK
<1>3. /\ talk' \in [Agents -> Talk] /\ talk'[a].then = talk[a].then
      /\ \A b \in Agents \ {a} : talk'[b] = talk[b]
  BY <1>1, <1>2, TalkOfNotes
<1>4. /\ pc' \in [Agents -> Places] /\ pc[a] = "defer" /\ pc'[a] = "prose"
      /\ \A b \in Agents \ {a} : pc'[b] = pc[b]
      /\ batch' = batch /\ members' = members /\ inFlight' = inFlight
  BY DEF FlowInv, TypeOK, PutOff, Goto, Places, lead, work
<1>5. Flow(a)'
  BY <1>3, <1>4 DEF FlowInv, Flow, Working, Over
<1>6. TypeOK'
  BY <1>2, <1>3, <1>4 DEF FlowInv, TypeOK, PutOff, tasks, lead, work, said, Talk
<1> QED
  BY <1>3, <1>4, <1>5, <1>6, KeepsFlow

\* Steps of the loop that answer nobody.
LEMMA FlowStays ==
  ASSUME FlowInv, NEW a \in Agents,
         Claims(a) \/ PlanAgain(a) \/ TurnAgain(a) \/ Wake(a) \/ Deregister(a) \/ Leave(a)
           \/ TurnRaises(a)
  PROVE  FlowInv'
<1>1. /\ TypeOK' /\ Flow(a)'
      /\ \A b \in Agents \ {a} : pc'[b] = pc[b] /\ (b \in members' <=> b \in members)
      /\ talk' = talk /\ inFlight' = inFlight /\ batch' = batch
  <2>1. CASE Claims(a)
    BY <2>1 DEF FlowInv, TypeOK, Flow, Working, Over, Places, Goto, tasks, lead, aside, work,
                said, Claims
  <2>2. CASE PlanAgain(a)
    BY <2>2 DEF FlowInv, TypeOK, Flow, Working, Over, Places, Goto, tasks, lead, aside, work,
                said, PlanAgain
  <2>3. CASE TurnAgain(a)
    BY <2>3 DEF FlowInv, TypeOK, Flow, Working, Over, Places, Goto, tasks, lead, aside, work,
                said, TurnAgain
  <2>4. CASE Wake(a)
    BY <2>4 DEF FlowInv, TypeOK, Flow, Working, Over, Places, Goto, tasks, lead, aside, work,
                said, Wake
  <2>5. CASE Deregister(a)
    BY <2>5 DEF FlowInv, TypeOK, Flow, Working, Over, Places, Goto, tasks, aside, work, said,
                Deregister
  <2>6. CASE Leave(a)
    <3>1. inbox' \in [Agents -> Seq(Message)]
      BY <2>6 DEF FlowInv, TypeOK, Leave
    <3>2. TypeOK'
      BY <2>6, <3>1 DEF FlowInv, TypeOK, Places, Goto, tasks, lead, aside, work, said, Leave
    <3> QED
      BY <2>6, <3>2 DEF FlowInv, TypeOK, Flow, Working, Over, Goto, lead, aside, work, Leave
  <2>7. CASE TurnRaises(a)
    <3>1. /\ UNCHANGED <<tasks, lead, inbox, batch, candidates, work, stopping, seen, talk,
                         answers, news, handled>>
          /\ pc[a] = "turn" /\ pc' = [pc EXCEPT ![a] = "block"]
          /\ deferred' = [deferred EXCEPT ![a] = {}] /\ steered' = [steered EXCEPT ![a] = {}]
      BY <2>7 DEF TurnRaises, Goto
    <3>2. dropped' \subseteq Notes
      BY <2>7 DEF FlowInv, TypeOK, TurnRaises, Drop
    <3> QED
      BY <3>1, <3>2 DEF FlowInv, TypeOK, Flow, Working, Over, Places, tasks, lead, work
  <2> QED
    BY <2>1, <2>2, <2>3, <2>4, <2>5, <2>6, <2>7
<1> QED
  BY <1>1, KeepsFlow

\* The list of tasks and the claims that fail.
LEMMA FlowClaiming ==
  ASSUME FlowInv, NEW a \in Agents, List(a) \/ ClaimRace(a) \/ ClaimVanished(a)
  PROVE  FlowInv'
<1>1. PICK c \in [own : SUBSET Tasks, unowned : SUBSET Tasks] :
        /\ candidates' = [candidates EXCEPT ![a] = c]
        /\ pc' = [pc EXCEPT ![a] = pc'[a]] /\ pc'[a] \in {"idle", "claim", "crashed"}
  <2>1. Nothing \in [own : SUBSET Tasks, unowned : SUBSET Tasks]
    BY DEF Nothing
  <2>2. CASE List(a)
    <3>1. [own |-> Mine(a), unowned |-> Unowned] \in [own : SUBSET Tasks, unowned : SUBSET Tasks]
      BY DEF Mine, Unowned
    <3> QED
      BY <2>2, <3>1 DEF List, Try, Goto, FlowInv, TypeOK
  <2>3. CASE ClaimRace(a)
    <3>1. PICK i \in Tasks : Try(a, [own |-> candidates[a].own \ {i},
                                     unowned |-> candidates[a].unowned \ {i}])
      BY <2>3 DEF ClaimRace
    <3>2. [own |-> candidates[a].own \ {i}, unowned |-> candidates[a].unowned \ {i}]
            \in [own : SUBSET Tasks, unowned : SUBSET Tasks]
      BY DEF FlowInv, TypeOK
    <3> QED
      BY <3>1, <3>2 DEF Try, Goto, FlowInv, TypeOK
  <2>4. CASE ClaimVanished(a)
    BY <2>1, <2>4 DEF ClaimVanished, Goto, FlowInv, TypeOK
  <2> QED
    BY <2>2, <2>3, <2>4
<1>2. /\ UNCHANGED <<tasks, lead, inbox, batch, work, stopping, seen, aside, said, bounds>>
      /\ pc[a] \in {"list", "claim"}
  BY DEF List, ClaimRace, ClaimVanished
<1> DEFINE C == [own : SUBSET Tasks, unowned : SUBSET Tasks]
<1>c. candidates' \in [Agents -> C]
  <2>1. candidates \in [Agents -> C] /\ c \in C
    BY DEF FlowInv, TypeOK
  <2> HIDE DEF C
  <2> QED
    BY <1>1, <2>1
<1>3. /\ pc' \in [Agents -> Places] /\ \A b \in Agents \ {a} : pc'[b] = pc[b]
      /\ inFlight' = inFlight /\ talk' = talk /\ batch' = batch /\ members' = members
  <2>1. pc \in [Agents -> Places] /\ pc'[a] \in Places
    BY <1>1 DEF FlowInv, TypeOK, Places
  <2> QED
    BY <1>1, <1>2, <2>1 DEF work, aside, lead
<1>4. Flow(a)'
  BY <1>1, <1>2, <1>3 DEF FlowInv, Flow, Working, Over
<1>5. TypeOK'
  BY <1>2, <1>c, <1>3 DEF FlowInv, TypeOK, tasks, lead, work, aside, said
<1> QED
  BY <1>3, <1>4, <1>5, KeepsFlow

LEMMA FlowClaim == ASSUME FlowInv, NEW a \in Agents, Claim(a) PROVE FlowInv'
<1>1. PICK i \in Tasks :
        /\ status' = [status EXCEPT ![i] = "in_progress"]
        /\ owner' = [owner EXCEPT ![i] = a]
        /\ inFlight' = [inFlight EXCEPT ![a] = i]
  BY DEF Claim
<1>n. news' \in [Tasks -> SUBSET News]
  BY DEF FlowInv, TypeOK, Claim
<1>2. TypeOK'
  BY <1>1, <1>n DEF FlowInv, TypeOK, Claim, Goto, Places, Nothing, lead, aside
<1>3. Flow(a)'
  <2>0. /\ pc[a] = "claim" /\ pc' = [pc EXCEPT ![a] = "turn"]
        /\ talk' = talk /\ batch' = batch /\ members' = members
    BY DEF Claim, Goto, lead, aside
  <2>1. pc'[a] = "turn" /\ inFlight'[a] = i /\ i # NoTask
    BY <1>1, <2>0, AdaptersAssumption DEF FlowInv, TypeOK
  <2> QED
    BY <2>0, <2>1 DEF FlowInv, Flow, Working, Over
<1>4. \A b \in Agents \ {a} : pc'[b] = pc[b] /\ inFlight'[b] = inFlight[b]
  BY <1>1 DEF FlowInv, TypeOK, Claim, Goto
<1> QED
  BY <1>2, <1>3, <1>4, KeepsFlow DEF Claim, lead, aside

\* What is put off or steered, and what else a turn hears.
LEMMA FlowTurn ==
  ASSUME FlowInv, NEW a \in Agents, Turn(a) \/ MidTurn(a) \/ Steer(a)
  PROVE  FlowInv'
<1>1. ASSUME NEW next \in {"complete", "block"}, TurnEnds(a, next)
      PROVE  FlowInv'
  <2>1. /\ batch' = batch /\ inFlight' = inFlight /\ members' = members
        /\ pc[a] \in {"turn", "retry"} /\ inFlight[a] # NoTask /\ talk[a].then = "none"
        /\ a \notin Panes \ members
    BY <1>1 DEF FlowInv, Flow, TurnEnds, lead, work, Working, Over
  <2>2. /\ steered' \in [Agents -> SUBSET Notes]
        /\ dropped' \subseteq Notes
    <3>1. steered[a] \in SUBSET Notes
      BY DEF FlowInv, TypeOK
    <3> QED
      BY <1>1, <3>1, DropType DEF FlowInv, TypeOK, TurnEnds
  <2>3. CASE deferred[a] = {}
    <3>1. /\ pc' = [pc EXCEPT ![a] = next] /\ talk' = talk
      BY <1>1, <2>3 DEF TurnEnds, Goto
    <3>2. /\ pc' \in [Agents -> Places] /\ pc'[a] = next
          /\ \A b \in Agents \ {a} : pc'[b] = pc[b]
      BY <3>1 DEF FlowInv, TypeOK, Places
    <3>3. Flow(a)'
      BY <2>1, <3>1, <3>2 DEF Flow, Working, Over
    <3>4. TypeOK'
      BY <1>1, <2>2, <3>1, <3>2 DEF FlowInv, TypeOK, TurnEnds, tasks, lead, work
    <3> QED
      BY <2>1, <3>1, <3>2, <3>3, <3>4, KeepsFlow
  <2>4. CASE deferred[a] # {}
    <3>1. /\ pc' = [pc EXCEPT ![a] = "defer"]
          /\ talk' = [talk EXCEPT ![a].then = next]
      BY <1>1, <2>4 DEF TurnEnds, Goto
    <3>2. /\ talk' \in [Agents -> Talk] /\ talk'[a].then = next
          /\ \A b \in Agents \ {a} : talk'[b] = talk[b]
      BY <3>1, TalkOfEnd
    <3>3. /\ pc' \in [Agents -> Places] /\ pc'[a] = "defer"
          /\ \A b \in Agents \ {a} : pc'[b] = pc[b]
      BY <3>1 DEF FlowInv, TypeOK, Places
    <3>4. Flow(a)'
      BY <2>1, <3>2, <3>3 DEF Flow, Working, Over
    <3>5. TypeOK'
      BY <1>1, <2>2, <3>2, <3>3 DEF FlowInv, TypeOK, TurnEnds, tasks, lead, work, Talk
    <3> QED
      BY <2>1, <3>2, <3>3, <3>4, <3>5, KeepsFlow
  <2> QED
    BY <2>3, <2>4
<1>2. CASE MidTurn(a)
  <2> DEFINE ms == ToSet(inbox[a])
             rs == {r \in Requests : <<"shutdown", r>> \in ms}
             Of(kinds) == {n \in Notes : \E k \in kinds : <<k, n>> \in ms}
  <2>1. /\ inbox' = [inbox EXCEPT ![a] = <<>>]
        /\ Answer(a, rs, "rejected")
        /\ stopping' = [stopping EXCEPT ![a] = @ \/ rs \ seen[a] # {}]
        /\ deferred' = [deferred EXCEPT ![a] = @ \union Of(PutsOff)]
        /\ steered' = [steered EXCEPT ![a] = @ \union Of(Steers)]
        /\ Drop("nothing for a turn", Of({"vain steer"} \union Plans))
    BY <1>2 DEF MidTurn
  <2>2. /\ rs \in SUBSET Requests /\ Of(PutsOff) \subseteq Notes
        /\ Of(Steers) \subseteq Notes /\ Of({"vain steer"} \union Plans) \in SUBSET Notes
    OBVIOUS
  <2> HIDE DEF rs, Of
  <2>3. /\ answers' \subseteq {"approved", "rejected"} \X Agents \X Requests
        /\ seen' \in [Agents -> SUBSET Requests]
    BY <2>1, <2>2, AnswerType DEF FlowInv
  <2>4. stopping' \in [Agents -> BOOLEAN]
    BY <2>1 DEF FlowInv, TypeOK
  <2>5. /\ deferred' \in [Agents -> SUBSET Notes] /\ steered' \in [Agents -> SUBSET Notes]
    BY <2>1, <2>2 DEF FlowInv, TypeOK
  <2>6. dropped' \subseteq Notes
    BY <2>1, <2>2, DropType DEF FlowInv
  <2>7. inbox' \in [Agents -> Seq(Message)]
    <3>1. inbox \in [Agents -> Seq(Message)] /\ <<>> \in Seq(Message)
      BY DEF FlowInv, TypeOK
    <3> QED
      BY <2>1, <3>1
  <2>8. UNCHANGED <<tasks, lead, pc, batch, candidates, work, talk, news, handled, others>>
    BY <1>2 DEF MidTurn
  <2>9. TypeOK'
    BY <2>3, <2>4, <2>5, <2>6, <2>7, <2>8 DEF FlowInv, TypeOK, tasks, lead, work
  <2> QED
    BY <2>8, <2>9, KeepsFlowOfAll DEF lead, work
<1>3. CASE Steer(a)
  <2>1. steered[a] \in SUBSET Notes
    BY DEF FlowInv, TypeOK
  <2>2. handled' \subseteq Notes /\ dropped' \subseteq Notes
    BY <1>3, <2>1, AnswerParts, DropType DEF FlowInv, Steer
  <2>3. TypeOK'
    BY <1>3, <2>2 DEF FlowInv, TypeOK, Steer, tasks, lead, work
  <2> QED
    BY <1>3, <2>3, KeepsFlowOfAll DEF Steer, lead, work
<1> QED
  BY <1>1, <1>2, <1>3 DEF Turn

\* Every end of a task.
LEMMA FlowTaskOver ==
  ASSUME FlowInv, NEW a \in Agents, Complete(a) \/ CompleteRefused(a) \/ Block(a)
  PROVE  FlowInv'
<1>0. inFlight[a] \in Tasks
  BY DEF FlowInv, TypeOK, Flow, Working, Complete, CompleteRefused, Block
<1>1. /\ TaskOver(a) /\ pc[a] \in {"complete", "block"}
      /\ status' \in [Tasks -> {"absent", "pending", "in_progress", "completed"}]
      /\ owner' = owner /\ waits' \in [Tasks -> SUBSET Tasks]
      /\ news' \in [Tasks -> SUBSET News]
  <2>1. CASE Complete(a)
    BY <1>0, <2>1 DEF FlowInv, TypeOK, Complete, Finish
  <2>2. CASE CompleteRefused(a)
    BY <1>0, <2>2 DEF FlowInv, TypeOK, CompleteRefused, tasks, News
  <2>3. CASE Block(a)
    <3>1. news' \in [Tasks -> SUBSET News]
      BY <1>0, <2>3, AnswerParts, MarkType DEF FlowInv, Block
    <3> QED
      BY <1>0, <2>3, <3>1 DEF FlowInv, TypeOK, Block, tasks
  <2> QED
    BY <2>1, <2>2, <2>3
<1>2. /\ TypeOK' /\ inFlight'[a] = NoTask /\ pc'[a] = "drain"
      /\ \A b \in Agents \ {a} : pc'[b] = pc[b] /\ inFlight'[b] = inFlight[b]
      /\ talk' = talk /\ batch' = batch /\ members' = members
  BY <1>1 DEF FlowInv, TypeOK, TaskOver, Goto, Places, lead, aside
<1>3. Flow(a)'
  BY <1>1, <1>2 DEF FlowInv, Flow, Working, Over
<1> QED
  BY <1>2, <1>3, KeepsFlow

\* What others do: signals, messages, and the lead's changes to the tasks.
LEMMA FlowOfLead ==
  ASSUME FlowInv,
         \/ \E a \in Agents : Signal(a) \/ Reset(a)
         \/ \E a \in Agents, m \in Message : Send(a, m)
         \/ \E i \in Tasks, a \in Agents : Assign(i, a)
         \/ \E i, j \in Tasks : AddWait(i, j)
         \/ \E i \in Tasks : LeadCompletes(i) \/ Delete(i)
  PROVE  FlowInv'
<1>1. TypeOK' /\ UNCHANGED <<pc, inFlight, talk, batch, members>>
  <2>1. ASSUME NEW a \in Agents, Signal(a)
        PROVE  TypeOK' /\ UNCHANGED <<pc, inFlight, talk, batch, members>>
    BY <2>1 DEF FlowInv, TypeOK, Signal, tasks, lead, aside, work, said
  <2>2. ASSUME NEW a \in Agents, Reset(a)
        PROVE  TypeOK' /\ UNCHANGED <<pc, inFlight, talk, batch, members>>
    BY <2>2 DEF FlowInv, TypeOK, Reset, loop, aside, work, said
  <2>3. ASSUME NEW a \in Agents, NEW m \in Message, Send(a, m)
        PROVE  TypeOK' /\ UNCHANGED <<pc, inFlight, talk, batch, members>>
    <3>1. Append(inbox[a], m) \in Seq(Message)
      BY DEF FlowInv, TypeOK
    <3>2. inbox' \in [Agents -> Seq(Message)]
      BY <2>3, <3>1 DEF FlowInv, TypeOK, Send
    <3> QED
      BY <2>3, <3>2 DEF FlowInv, TypeOK, Send, tasks, lead, loop, aside, work, said
  <2>4. ASSUME NEW i \in Tasks, NEW a \in Agents, Assign(i, a)
        PROVE  TypeOK' /\ UNCHANGED <<pc, inFlight, talk, batch, members>>
    BY <2>4 DEF FlowInv, TypeOK, Assign, lead, aside, said
  <2>5. ASSUME NEW i \in Tasks, NEW j \in Tasks, AddWait(i, j)
        PROVE  TypeOK' /\ UNCHANGED <<pc, inFlight, talk, batch, members>>
    BY <2>5 DEF FlowInv, TypeOK, AddWait, lead, loop, aside, work, said
  <2>6. ASSUME NEW i \in Tasks, LeadCompletes(i)
        PROVE  TypeOK' /\ UNCHANGED <<pc, inFlight, talk, batch, members>>
    BY <2>6 DEF FlowInv, TypeOK, LeadCompletes, Finish, lead, loop, aside, work, said
  <2>7. ASSUME NEW i \in Tasks, Delete(i)
        PROVE  TypeOK' /\ UNCHANGED <<pc, inFlight, talk, batch, members>>
    BY <2>7 DEF FlowInv, TypeOK, Delete, lead, loop, aside, work, said
  <2> QED
    BY <2>1, <2>2, <2>3, <2>4, <2>5, <2>6, <2>7
<1> QED
  BY <1>1, KeepsFlowOfAll

\* What is known of the task that an agent was killed at.
LEMMA NewsOfDismissed ==
  ASSUME TypeOK, NEW a \in Agents, Dismiss(a)
  PROVE  /\ news' \in [Tasks -> SUBSET News]
         /\ \A i \in Tasks : news[i] \subseteq news'[i]
         /\ \A i \in Tasks : inFlight[a] = i /\ inFlight'[a] # i => "killed" \in news'[i]
<1>1. \/ news' = news /\ inFlight' = inFlight
      \/ news' = [i \in Tasks |-> IF i = inFlight[a] THEN news[i] \union {"killed"}
                                 ELSE news[i]]
  BY DEF Dismiss, work
<1>2. CASE news' = news /\ inFlight' = inFlight
  BY <1>2 DEF TypeOK
<1>3. CASE news' = [i \in Tasks |-> IF i = inFlight[a] THEN news[i] \union {"killed"} ELSE news[i]]
  <2>1. news \in [Tasks -> SUBSET News] /\ "killed" \in News
    BY DEF TypeOK, News
  <2>2. \A i \in Tasks : news'[i] = IF i = inFlight[a] THEN news[i] \union {"killed"} ELSE news[i]
    BY <1>3
  <2>3. \A i \in Tasks : news'[i] \in SUBSET News
    BY <2>1, <2>2
  <2>4. news' \in [Tasks -> SUBSET News]
    BY <1>3, <2>2, <2>3
  <2> QED
    BY <2>2, <2>4
<1> QED
  BY <1>1, <1>2, <1>3

\* A member is removed: its loop is over if it had a pane, and goes on if not.
LEMMA FlowDismiss == ASSUME FlowInv, NEW a \in Agents, Dismiss(a) PROVE FlowInv'
<1>1. /\ members' = members \ {a} /\ toReset' = toReset \union {a}
      /\ UNCHANGED <<tasks, inbox, stopping, seen, answers, handled, dropped>>
  BY DEF Dismiss
<1>n. news' \in [Tasks -> SUBSET News]
  BY NewsOfDismissed DEF FlowInv
<1>2. CASE a \in Panes /\ pc[a] \notin Over
  <2>1. /\ pc' = [pc EXCEPT ![a] = "killed"] /\ batch' = [batch EXCEPT ![a] = <<>>]
        /\ candidates' = [candidates EXCEPT ![a] = Nothing]
        /\ deferred' = [deferred EXCEPT ![a] = {}] /\ steered' = [steered EXCEPT ![a] = {}]
        /\ talk' = [talk EXCEPT ![a] = Silent]
        /\ inFlight' = [inFlight EXCEPT ![a] = NoTask] /\ overruled' = overruled \ {a}
    BY <1>2 DEF Dismiss, Goto
  <2>2. Silent \in Talk /\ Silent.then = "none" /\ <<>> \in Seq(Message)
        /\ Nothing \in [own : SUBSET Tasks, unowned : SUBSET Tasks]
    BY DEF Silent, Talk, Nothing
  <2>3. /\ talk' \in [Agents -> Talk] /\ talk'[a] = Silent
        /\ \A b \in Agents \ {a} : talk'[b] = talk[b]
    BY <2>1, <2>2 DEF FlowInv, TypeOK, Talk
  <2>4. /\ batch' \in [Agents -> Seq(Message)]
        /\ candidates' \in [Agents -> [own : SUBSET Tasks, unowned : SUBSET Tasks]]
    <3> DEFINE C == [own : SUBSET Tasks, unowned : SUBSET Tasks]
    <3>1. candidates \in [Agents -> C] /\ batch \in [Agents -> Seq(Message)] /\ Nothing \in C
      BY <2>2 DEF FlowInv, TypeOK
    <3> HIDE DEF C
    <3>2. candidates' \in [Agents -> C]
      BY <2>1, <3>1
    <3> QED
      BY <2>1, <2>2, <3>1, <3>2 DEF C
  <2>5. /\ pc' \in [Agents -> Places] /\ pc'[a] = "killed"
        /\ inFlight' \in [Agents -> Tasks \union {NoTask}] /\ inFlight'[a] = NoTask
        /\ deferred' \in [Agents -> SUBSET Notes] /\ steered' \in [Agents -> SUBSET Notes]
        /\ overruled' \subseteq Agents
        /\ \A b \in Agents \ {a} :
              /\ pc'[b] = pc[b] /\ inFlight'[b] = inFlight[b] /\ batch'[b] = batch[b]
    BY <2>1 DEF FlowInv, TypeOK, Places
  <2>6. TypeOK'
    BY <1>1, <1>n, <2>3, <2>4, <2>5 DEF FlowInv, TypeOK, Talk, tasks
  <2>7. Flow(a)'
    BY <2>2, <2>3, <2>5 DEF Flow, Working, Over
  <2> QED
    BY <1>1, <2>3, <2>5, <2>6, <2>7, KeepsFlow
<1>3. CASE ~(a \in Panes /\ pc[a] \notin Over)
  <2>1. UNCHANGED <<pc, batch, candidates, aside, work>>
    BY <1>3 DEF Dismiss
  <2>2. TypeOK'
    BY <1>1, <1>n, <2>1 DEF FlowInv, TypeOK, tasks, aside, work
  <2>3. Flow(a)'
    BY <1>1, <1>3, <2>1 DEF FlowInv, Flow, aside, work
  <2> QED
    BY <1>1, <2>1, <2>2, <2>3, KeepsFlow DEF aside, work
<1> QED
  BY <1>2, <1>3

LEMMA FlowStep == FlowInv /\ [Next]_vars => FlowInv'
<1> SUFFICES ASSUME FlowInv, [Next]_vars PROVE FlowInv'
  OBVIOUS
<1>1. ASSUME NEW a \in Agents, LoopStep(a) PROVE FlowInv'
  BY <1>1, FlowDrain, FlowNotes, FlowSteer, FlowShutdown, FlowPlan, FlowTalk, FlowPutOff,
     FlowPlanned, FlowStays, FlowClaiming, FlowClaim, FlowTurn, FlowTaskOver
     DEF LoopStep
<1>2. ASSUME NEW a \in Agents,
             MidTurn(a) \/ Steer(a) \/ TurnRaises(a) \/ Signal(a)
      PROVE FlowInv'
  BY <1>2, FlowTurn, FlowStays, FlowTalk, FlowOfLead
<1>3. CASE LeadStep
  BY <1>3, FlowOfLead, FlowDismiss DEF LeadStep, ProcessApproved, ForceKill
<1>4. CASE UNCHANGED vars
  BY <1>4 DEF FlowInv, TypeOK, Flow, vars, tasks, lead, loop, aside, work, said, bounds
<1> QED
  BY <1>1, <1>2, <1>3, <1>4 DEF Next

\* Every variable keeps its type, and an agent is in a turn, or on its way to
\* the end of one, exactly while it has a task in flight.
THEOREM TypeCorrect == Spec => []TypeOK
<1>1. FlowInv => TypeOK
  BY DEF FlowInv
<1> QED
  BY <1>1, FlowInit, FlowStep, PTL DEF Spec

-----------------------------------------------------------------------------
(* Who works on what. *)

\* What an agent has in flight is its own and in progress, unless somebody has
\* finished or deleted it, or the agent can be removed without being stopped,
\* or the lead has given the task to another.
Holds(a) ==
  inFlight[a] # NoTask /\ a \in Panes \union members /\ a \notin overruled
    => \/ status[inFlight[a]] \in {"completed", "absent"}
       \/ status[inFlight[a]] = "in_progress" /\ owner[inFlight[a]] = a

\* Only those who have left the team have tasks to give back.
WorkInv ==
  /\ toReset \intersect members = {}
  /\ \A a \in Agents : Holds(a)
  /\ OneWorker
  /\ GivenUpIsReported

LEMMA WorkInit == Init => WorkInv
  BY DEF Init, Start, WorkInv, Holds, OneWorker, GivenUpIsReported

\* A task in flight is a task, and one who is over has none.
LEMMA InFlight ==
  ASSUME FlowInv, NEW a \in Agents
  PROVE  /\ pc[a] \in Working => inFlight[a] \in Tasks
         /\ pc[a] \in {"claim", "exit", "leaving"} \union Over => inFlight[a] = NoTask
         /\ a \in Panes \ members => inFlight[a] = NoTask
  BY DEF FlowInv, TypeOK, Flow, Working, Over

\* What is known of a block is added to what was known, and is never nothing.
LEMMA NewsGrows ==
  ASSUME TypeOK, NEW i, NEW done \in SUBSET Ways, MarkBlocked(i, done)
  PROVE  /\ \A j \in Tasks : news[j] \subseteq news'[j]
         /\ i \in Tasks => (Ways \union {"untold"}) \intersect news'[i] # {}
<1>1. PICK more : /\ more = (IF done = {} THEN {"untold"} ELSE done)
                  /\ news' = [news EXCEPT ![i] = @ \union more]
  BY DEF MarkBlocked
<1>2. (Ways \union {"untold"}) \intersect more # {}
  BY <1>1
<1> QED
  BY <1>1, <1>2 DEF TypeOK

\* A step that takes no task up and gives none up.
LEMMA KeepsWork ==
  ASSUME WorkInv, UNCHANGED <<tasks, work, toReset>>, members' \subseteq members,
         \A a \in members \ members' : inFlight[a] = NoTask,
         \A i \in Tasks : news[i] \subseteq news'[i]
  PROVE  WorkInv'
<1>1. toReset' \intersect members' = {}
  BY DEF WorkInv
<1>2. \A a \in Agents : Holds(a)'
  BY DEF WorkInv, Holds, tasks, work
<1>3. OneWorker'
  BY DEF WorkInv, OneWorker, work
<1>4. GivenUpIsReported'
  BY DEF WorkInv, GivenUpIsReported, tasks, work
<1> QED
  BY <1>1, <1>2, <1>3, <1>4 DEF WorkInv

\* What an agent does that changes no task.
LEMMA WorkOfLoop ==
  ASSUME FlowInv, WorkInv, NEW a \in Agents,
         LoopStep(a) \/ TurnRaises(a),
         ~(Claim(a) \/ Complete(a) \/ CompleteRefused(a) \/ Block(a))
  PROVE  WorkInv'
<1>1. UNCHANGED <<tasks, work, toReset>> /\ \A i \in Tasks : news[i] \subseteq news'[i]
  <2>1. CASE Drain(a) \/ HandleNotes(a) \/ HandleSteer(a) \/ HandleShutdown(a) \/ HandlePlan(a)
    BY <2>1 DEF Drain, HandleNotes, HandleSteer, HandleShutdown, HandlePlan, lead, said
  <2>2. CASE ByTool(a) \/ Reply(a)
    BY <2>2 DEF ByTool, Reply, AnswersEnd, lead
  <2>3. CASE PlanSent(a) \/ PlanFails(a)
    <3>1. UNCHANGED <<tasks, work, toReset>>
      BY <2>3 DEF PlanSent, PlanFails, Planned, lead
    <3>2. CASE news' = news
      BY <3>1, <3>2
    <3>3. ASSUME NEW done \in SUBSET Ways, MarkBlocked(talk[a].task, done)
          PROVE  \A i \in Tasks : news[i] \subseteq news'[i]
      BY <3>3, NewsGrows DEF FlowInv
    <3> QED
      BY <2>3, <3>1, <3>2, <3>3 DEF PlanSent, PlanFails
  <2>4. CASE List(a) \/ ClaimRace(a) \/ ClaimVanished(a)
    BY <2>4 DEF List, ClaimRace, ClaimVanished, lead, said
  <2>5. CASE Turn(a) \/ TurnAgain(a) \/ TurnRaises(a)
    BY <2>5 DEF Turn, TurnEnds, TurnAgain, TurnRaises, lead, said
  <2>6. CASE Claims(a) \/ PutOff(a) \/ PlanAgain(a) \/ Wake(a) \/ Deregister(a) \/ Leave(a)
    BY <2>6 DEF Claims, PutOff, PlanAgain, Wake, Deregister, Leave, lead, said
  <2> QED
    BY <2>1, <2>2, <2>3, <2>4, <2>5, <2>6 DEF LoopStep
<1>2. members' \subseteq members /\ \A b \in members \ members' : inFlight[b] = NoTask
  <2>1. CASE Deregister(a)
    BY <2>1, InFlight DEF Deregister
  <2>2. CASE Drain(a) \/ HandleNotes(a) \/ HandleSteer(a) \/ HandleShutdown(a) \/ HandlePlan(a)
    BY <2>2 DEF Drain, HandleNotes, HandleSteer, HandleShutdown, HandlePlan, lead
  <2>3. CASE ByTool(a) \/ Reply(a) \/ PlanSent(a) \/ PlanFails(a)
    BY <2>3 DEF ByTool, Reply, AnswersEnd, PlanSent, PlanFails, Planned, lead
  <2>4. CASE List(a) \/ ClaimRace(a) \/ ClaimVanished(a)
    BY <2>4 DEF List, ClaimRace, ClaimVanished, lead
  <2>5. CASE Turn(a) \/ TurnAgain(a) \/ TurnRaises(a)
    BY <2>5 DEF Turn, TurnEnds, TurnAgain, TurnRaises, lead
  <2>6. CASE Claims(a) \/ PutOff(a) \/ PlanAgain(a) \/ Wake(a) \/ Leave(a)
    BY <2>6 DEF Claims, PutOff, PlanAgain, Wake, Leave, lead
  <2> QED
    BY <2>1, <2>2, <2>3, <2>4, <2>5, <2>6 DEF LoopStep
<1> QED
  BY <1>1, <1>2, KeepsWork

\* Whoever claims a task finds it pending, so that nobody who can be stopped, and
\* whom the lead has not overruled, is at work on it.
LEMMA WorkOfClaim == ASSUME FlowInv, WorkInv, NEW a \in Agents, Claim(a) PROVE WorkInv'
<1>1. PICK i \in Tasks :
        /\ status' = [status EXCEPT ![i] = "in_progress"] /\ status[i] = "pending"
        /\ owner' = [owner EXCEPT ![i] = a]
        /\ inFlight' = [inFlight EXCEPT ![a] = i]
  BY DEF Claim, Free
<1>2. /\ inFlight[a] = NoTask /\ a \notin Panes \ members
      /\ members' = members /\ toReset' = toReset /\ overruled' = overruled
  BY InFlight DEF Claim, FlowInv, Flow, Over, lead
<1>3. /\ status'[i] = "in_progress" /\ owner'[i] = a
      /\ \A j \in Tasks \ {i} : status'[j] = status[j] /\ owner'[j] = owner[j]
      /\ inFlight'[a] = i /\ \A b \in Agents \ {a} : inFlight'[b] = inFlight[b]
      /\ \A b \in Agents : inFlight[b] \in Tasks \union {NoTask}
  BY <1>1 DEF FlowInv, TypeOK
<1>4. \A b \in Agents : inFlight[b] = i => b \notin Panes \union members \/ b \in overruled
  BY <1>1, AdaptersAssumption DEF WorkInv, Holds
<1>5. \A b \in Agents : Holds(b)'
  BY <1>2, <1>3, <1>4 DEF WorkInv, Holds
<1>6. OneWorker'
  <2> SUFFICES ASSUME NEW b \in Agents, NEW c \in Agents,
                      inFlight'[b] # NoTask, inFlight'[b] = inFlight'[c], b # c
               PROVE  \E d \in {b, c} : d \notin Panes \union members \/ d \in overruled
    BY <1>2 DEF OneWorker
  <2> QED
    BY <1>3, <1>4 DEF WorkInv, OneWorker
<1>7. \A j \in Tasks \ {i} : news'[j] = news[j]
  <2>1. PICK k \in Tasks : inFlight' = [inFlight EXCEPT ![a] = k] /\ news' = [news EXCEPT ![k] = {}]
    BY DEF Claim
  <2>2. k = i
    BY <1>3, <2>1 DEF FlowInv, TypeOK
  <2> QED
    BY <2>1, <2>2 DEF FlowInv, TypeOK
<1>8. GivenUpIsReported'
  <2> SUFFICES ASSUME NEW j \in Tasks, status'[j] = "in_progress",
                      {"killed", "refused", "untold"} \intersect news'[j] = {},
                      \A b \in Agents : inFlight'[b] # j
               PROVE  Ways \intersect news'[j] # {}
    BY DEF GivenUpIsReported
  <2>1. j # i /\ \A b \in Agents : inFlight[b] # j
    BY <1>2, <1>3, AdaptersAssumption
  <2> QED
    BY <1>3, <1>7, <2>1 DEF WorkInv, GivenUpIsReported
<1> QED
  BY <1>2, <1>5, <1>6, <1>8 DEF WorkInv

\* Whoever gives its task up has finished it, been refused, or told the lead.
LEMMA WorkOfTaskOver ==
  ASSUME FlowInv, WorkInv, NEW a \in Agents, Complete(a) \/ CompleteRefused(a) \/ Block(a)
  PROVE  WorkInv'
<1> DEFINE i == inFlight[a]
<1>0. i \in Tasks /\ i # NoTask
  BY InFlight, AdaptersAssumption DEF Complete, CompleteRefused, Block, Working
<1>1. /\ inFlight' = [inFlight EXCEPT ![a] = NoTask] /\ overruled' = overruled \ {a}
      /\ members' = members /\ toReset' = toReset /\ owner' = owner
      /\ status' = status \/ status' = [status EXCEPT ![i] = "completed"]
  BY DEF Complete, CompleteRefused, Block, TaskOver, Finish, tasks, lead
<1>2. /\ inFlight'[a] = NoTask /\ \A b \in Agents \ {a} : inFlight'[b] = inFlight[b]
      /\ \A b \in Agents \ {a} : b \in overruled' <=> b \in overruled
      /\ \A j \in Tasks : status'[j] = status[j] \/ status'[j] = "completed"
      /\ \A b \in Agents : inFlight[b] \in Tasks \union {NoTask}
  BY <1>1 DEF FlowInv, TypeOK
<1>3. \A b \in Agents : Holds(b)'
  BY <1>1, <1>2 DEF WorkInv, Holds
<1>4. OneWorker'
  BY <1>1, <1>2 DEF WorkInv, OneWorker
<1>5. /\ \A j \in Tasks : news[j] \subseteq news'[j]
      /\ \/ status'[i] # "in_progress"
         \/ (Ways \union {"untold", "refused"}) \intersect news'[i] # {}
  <2>1. CASE Complete(a)
    BY <1>0, <2>1 DEF Complete, Finish, FlowInv, TypeOK
  <2>2. CASE CompleteRefused(a)
    BY <1>0, <2>2 DEF CompleteRefused, FlowInv, TypeOK
  <2>3. CASE Block(a)
    <3>1. CASE status[i] = "completed" /\ news' = news
      BY <2>3, <3>1 DEF Block, tasks
    <3>2. ASSUME NEW done \in SUBSET Ways, MarkBlocked(i, done)
          PROVE  /\ \A j \in Tasks : news[j] \subseteq news'[j]
                 /\ (Ways \union {"untold", "refused"}) \intersect news'[i] # {}
      BY <1>0, <3>2, NewsGrows DEF FlowInv
    <3> QED
      BY <2>3, <3>1, <3>2 DEF Block
  <2> QED
    BY <2>1, <2>2, <2>3
<1>7. GivenUpIsReported'
  <2> SUFFICES ASSUME NEW j \in Tasks, status'[j] = "in_progress",
                      {"killed", "refused", "untold"} \intersect news'[j] = {},
                      \A b \in Agents : inFlight'[b] # j
               PROVE  Ways \intersect news'[j] # {}
    BY DEF GivenUpIsReported
  <2>1. CASE j = i
    BY <1>5, <2>1
  <2>2. CASE j # i
    <3>1. status[j] = "in_progress" /\ {"killed", "refused", "untold"} \intersect news[j] = {}
      BY <1>1, <1>2, <1>5
    <3>2. \A b \in Agents : inFlight[b] # j
      BY <1>2, <2>2
    <3>3. Ways \intersect news[j] # {}
      BY <3>1, <3>2 DEF WorkInv, GivenUpIsReported
    <3> QED
      BY <1>5, <3>3
  <2> QED
    BY <2>1, <2>2
<1> QED
  BY <1>1, <1>3, <1>4, <1>7 DEF WorkInv

\* Whoever is removed is stopped if it has a pane.
LEMMA WorkOfDismiss == ASSUME FlowInv, WorkInv, NEW a \in Agents, Dismiss(a) PROVE WorkInv'
<1>1. /\ members' = members \ {a} /\ toReset' = toReset \union {a}
      /\ status' = status /\ owner' = owner
  BY DEF Dismiss, tasks
<1>2. /\ \A b \in Agents \ {a} : inFlight'[b] = inFlight[b]
      /\ \A b \in Agents \ {a} : b \in overruled' <=> b \in overruled
      /\ a \in Panes => inFlight'[a] = NoTask
      /\ inFlight'[a] \in {inFlight[a], NoTask}
  BY InFlight DEF FlowInv, TypeOK, Dismiss, Goto, work, Over
<1>n. /\ \A i \in Tasks : news[i] \subseteq news'[i]
      /\ \A i \in Tasks : inFlight[a] = i /\ inFlight'[a] # i => "killed" \in news'[i]
  BY NewsOfDismissed DEF FlowInv
<1>3. \A b \in Agents : Holds(b)'
  BY <1>1, <1>2 DEF WorkInv, Holds
<1>4. OneWorker'
  BY <1>1, <1>2 DEF WorkInv, OneWorker
<1>5. GivenUpIsReported'
  <2> SUFFICES ASSUME NEW j \in Tasks, status'[j] = "in_progress",
                      {"killed", "refused", "untold"} \intersect news'[j] = {},
                      \A b \in Agents : inFlight'[b] # j
               PROVE  Ways \intersect news'[j] # {}
    BY DEF GivenUpIsReported
  <2>1. \A b \in Agents : inFlight[b] # j
    BY <1>2, <1>n
  <2>2. Ways \intersect news[j] # {}
    BY <1>1, <1>n, <2>1 DEF WorkInv, GivenUpIsReported
  <2> QED
    BY <1>n, <2>2
<1>6. toReset' \intersect members' = {}
  BY <1>1 DEF WorkInv
<1> QED
  BY <1>3, <1>4, <1>5, <1>6 DEF WorkInv

\* What is given back is nobody's who is still a member: its owner has left, and
\* is over if it had a pane.
LEMMA WorkOfReset == ASSUME FlowInv, WorkInv, NEW a \in Agents, Reset(a) PROVE WorkInv'
<1>1. /\ members' = members /\ toReset' = toReset \ {a} /\ a \notin members
      /\ inFlight' = inFlight /\ overruled' = overruled /\ news' = news
      /\ \A i \in Tasks : owner'[i] = IF owner[i] = a THEN NoOwner ELSE owner[i]
      /\ \A i \in Tasks : status'[i] =
            IF owner[i] = a /\ status[i] \notin {"completed", "absent"}
            THEN "pending" ELSE status[i]
      /\ \A b \in Agents : inFlight[b] \in Tasks \union {NoTask}
  BY DEF WorkInv, FlowInv, TypeOK, Reset, loop, work, said
<1>2. a \in Panes => inFlight[a] = NoTask
  BY <1>1, InFlight
<1>3. \A b \in Agents : Holds(b)'
  <2> SUFFICES ASSUME NEW b \in Agents, inFlight[b] # NoTask, b \in Panes \union members,
                      b \notin overruled
               PROVE  \/ status'[inFlight[b]] \in {"completed", "absent"}
                      \/ status'[inFlight[b]] = "in_progress" /\ owner'[inFlight[b]] = b
    BY <1>1 DEF Holds
  <2>1. inFlight[b] \in Tasks /\ b # a
    BY <1>1, <1>2
  <2> QED
    BY <1>1, <2>1 DEF WorkInv, Holds
<1>4. OneWorker'
  BY <1>1 DEF WorkInv, OneWorker
<1>5. GivenUpIsReported'
  BY <1>1 DEF WorkInv, GivenUpIsReported
<1>6. toReset' \intersect members' = {}
  BY <1>1 DEF WorkInv
<1> QED
  BY <1>3, <1>4, <1>5, <1>6 DEF WorkInv

\* The lead finishes, deletes or links a task, or gives it to somebody.
LEMMA WorkOfLead ==
  ASSUME FlowInv, WorkInv,
         \/ \E i \in Tasks, a \in Agents : Assign(i, a)
         \/ \E i, j \in Tasks : AddWait(i, j)
         \/ \E i \in Tasks : LeadCompletes(i) \/ Delete(i)
  PROVE  WorkInv'
<1>0. \A b \in Agents : inFlight[b] \in Tasks \union {NoTask}
  BY DEF FlowInv, TypeOK
<1>1. /\ inFlight' = inFlight /\ news' = news
      /\ members' = members /\ toReset' = toReset
      /\ \A j \in Tasks : status'[j] \in {status[j], "completed", "absent"}
      /\ overruled \subseteq overruled'
  BY DEF Assign, AddWait, LeadCompletes, Delete, Finish, FlowInv, TypeOK, lead, loop, work, said
<1>2. \A b \in Agents : Holds(b)'
  <2>1. ASSUME NEW i \in Tasks, NEW a \in Agents, Assign(i, a)
        PROVE  \A b \in Agents : Holds(b)'
    <3>1. /\ owner'[i] = a /\ \A j \in Tasks \ {i} : owner'[j] = owner[j]
          /\ owner[i] # a /\ status' = status /\ members' = members
          /\ \A b \in Agents \ {a} : inFlight[b] = i /\ status[i] = "in_progress" => b \in overruled'
      BY <2>1 DEF Assign, FlowInv, TypeOK, lead
    <3> QED
      BY <1>0, <1>1, <3>1 DEF WorkInv, Holds
  <2>2. ASSUME overruled' = overruled, UNCHANGED owner
        PROVE  \A b \in Agents : Holds(b)'
    BY <1>0, <1>1, <2>2 DEF WorkInv, Holds
  <2>3. ASSUME NEW i \in Tasks, Delete(i)
        PROVE  \A b \in Agents : Holds(b)'
    <3>1. /\ status'[i] = "absent" /\ overruled' = overruled
          /\ \A j \in Tasks \ {i} : owner'[j] = owner[j]
      BY <2>3 DEF Delete, FlowInv, TypeOK, loop, work
    <3> QED
      BY <1>0, <1>1, <3>1 DEF WorkInv, Holds
  <2> QED
    BY <2>1, <2>2, <2>3 DEF AddWait, LeadCompletes, Finish, loop, work
<1>3. OneWorker'
  BY <1>1 DEF WorkInv, OneWorker
<1>4. GivenUpIsReported'
  BY <1>1 DEF WorkInv, GivenUpIsReported
<1> QED
  BY <1>1, <1>2, <1>3, <1>4 DEF WorkInv

LEMMA WorkStep == FlowInv /\ WorkInv /\ [Next]_vars => WorkInv'
<1> SUFFICES ASSUME FlowInv, WorkInv, [Next]_vars PROVE WorkInv'
  OBVIOUS
<1>1. ASSUME NEW a \in Agents, LoopStep(a) \/ TurnRaises(a)
      PROVE  WorkInv'
  BY <1>1, WorkOfLoop, WorkOfClaim, WorkOfTaskOver
<1>2. ASSUME NEW a \in Agents, MidTurn(a) \/ Steer(a) \/ Signal(a)
      PROVE  WorkInv'
  BY <1>2, KeepsWork DEF MidTurn, Steer, Signal, lead, said
<1>3. CASE LeadStep
  <2>1. ASSUME NEW a \in Agents, NEW m \in Message, Send(a, m) PROVE WorkInv'
    BY <2>1, KeepsWork DEF Send, lead, loop, said
  <2> QED
    BY <1>3, <2>1, WorkOfLead, WorkOfDismiss, WorkOfReset DEF LeadStep, ProcessApproved, ForceKill
<1>4. CASE UNCHANGED vars
  BY <1>4, KeepsWork DEF vars, lead, loop, said
<1> QED
  BY <1>1, <1>2, <1>3, <1>4 DEF Next

LEMMA Worked == Spec => [](FlowInv /\ WorkInv)
  BY FlowInit, FlowStep, WorkInit, WorkStep, PTL DEF Spec

\* However the tasks are listed, claimed, given away and given back, two agents
\* work on one task only if one of them cannot be stopped, or was overruled.
THEOREM OneAtATime == Spec => []OneWorker
<1>1. WorkInv => OneWorker
  BY DEF WorkInv
<1> QED
  BY <1>1, Worked, PTL

\* A task in progress that nobody works on any more is marked as blocked or was
\* reported to the lead since it was last claimed, unless its agent was killed at
\* it, its completion was refused, or mark and report have both failed.
THEOREM NoTaskIsAbandoned == Spec => []GivenUpIsReported
<1>1. WorkInv => GivenUpIsReported
  BY DEF WorkInv
<1> QED
  BY <1>1, Worked, PTL

-----------------------------------------------------------------------------
(* Every change of the tasks is a step of the task board. *)

\* A task that is gone belongs to nobody and waits for nothing; a task waits for
\* older ones that there are.
TasksInv ==
  \A i \in Tasks :
     /\ status[i] = "absent" => owner[i] = NoOwner /\ waits[i] = {}
     /\ \A j \in waits[i] : j < i /\ status[j] # "absent"

LEMMA TasksInit == Init => TasksInv
  BY DEF Init, Start, TasksInv

\* The board reads the graph of waits the way the module Reachability does.
LEMMA OldersOnly ==
  ASSUME TypeOK', TasksInv' PROVE Board!NoCycle(Tasks, waits')
<1> SUFFICES ASSUME NEW i \in Tasks, NEW j \in waits'[i]
             PROVE  i \notin Board!Reach(Tasks, waits', j)
  BY DEF Board!NoCycle
<1> DEFINE S == {k \in Tasks : k <= j}
<1>1. Tasks \subseteq Nat /\ j \in Tasks /\ j < i
  BY AdaptersAssumption DEF TypeOK, TasksInv
<1>2. j \in S /\ i \notin S /\ S \in SUBSET Tasks
  BY <1>1
<1>3. Board!Closed(waits', S)
  <2> SUFFICES ASSUME NEW k \in S, NEW l \in waits'[k] PROVE l \in S
    BY DEF Board!Closed
  <2>1. l \in Tasks /\ l < k /\ k <= j /\ k \in Tasks
    BY DEF TypeOK, TasksInv
  <2> QED
    BY <1>1, <2>1
<1> QED
  BY <1>2, <1>3 DEF Board!Reach

\* What every operation does to the tasks.
Revised(i) ==
  /\ status[i] # "absent" /\ status'[i] # "absent"
  /\ \A j \in Tasks \ {i} : status'[j] = status[j] /\ owner'[j] = owner[j]
  /\ \A j \in Tasks \ {i} : waits'[j] \subseteq waits[j]
  /\ \A j \in waits'[i] \ waits[i] : j < i /\ status[j] # "absent"

LEMMA RevisedKeeps ==
  ASSUME FlowInv, FlowInv', TasksInv, NEW i \in Tasks, Revised(i) PROVE TasksInv'
<1>1. /\ waits \in [Tasks -> SUBSET Tasks] /\ waits' \in [Tasks -> SUBSET Tasks]
      /\ i \in Nat
  BY AdaptersAssumption DEF FlowInv, TypeOK
<1>2. ASSUME NEW k \in Tasks, NEW j \in waits'[k] PROVE j < k /\ status'[j] # "absent"
  <2>1. j \in Tasks
    BY <1>1
  <2>2. CASE k # i
    BY <1>1, <1>2, <2>1, <2>2 DEF Revised, TasksInv
  <2>3. CASE k = i
    BY <1>1, <1>2, <2>1, <2>3 DEF Revised, TasksInv
  <2> QED
    BY <2>2, <2>3
<1>3. ASSUME NEW k \in Tasks, status'[k] = "absent" PROVE owner'[k] = NoOwner /\ waits'[k] = {}
  BY <1>1, <1>3 DEF Revised, TasksInv
<1> QED
  BY <1>2, <1>3 DEF TasksInv

\* What a step that revises a task has to keep, to be the board's.
LEMMA BoardRevises ==
  ASSUME FlowInv, FlowInv', TasksInv, NEW i \in Tasks, Revised(i),
         status' = [status EXCEPT ![i] = status'[i]],
         owner' = [owner EXCEPT ![i] = owner'[i]],
         \/ /\ status'[i] = "completed"
            /\ \A j \in Tasks : waits[j] \ {i} \subseteq waits'[j]
            /\ \A j \in Tasks : i \notin waits'[j]
            /\ \A j \in waits'[i] : status[j] = "completed"
         \/ /\ <<status[i], status'[i]>> \in
                 {<<"pending", "pending">>, <<"pending", "in_progress">>,
                  <<"in_progress", "in_progress">>, <<"completed", "completed">>}
            /\ \A j \in Tasks : waits[j] \subseteq waits'[j]
  PROVE  TasksInv' /\ Board!Next
<1>1. TasksInv'
  BY RevisedKeeps
<1>2. Board!NoCycle(Tasks, waits')
  BY <1>1, OldersOnly DEF FlowInv
<1>3. \A j \in Tasks \ {i} : waits'[j] \subseteq waits[j] \union {i}
  BY DEF Revised
<1>4. status[i] # "absent"
  BY DEF Revised
<1>5. LET none == [j \in Tasks |-> NoTask] IN none = [none EXCEPT ![i] = none[i]]
  OBVIOUS
<1>6. Board!Revise(i)
  BY <1>2, <1>3, <1>4, <1>5 DEF Board!Revise
<1> QED
  BY <1>1, <1>6 DEF Board!Next

LEMMA BoardFinishes ==
  ASSUME FlowInv, FlowInv', TasksInv, NEW i \in Tasks, status[i] # "absent", ~Blocked(i),
         Finish(i)
  PROVE  TasksInv' /\ Board!Next
<1>1. /\ status' = [status EXCEPT ![i] = "completed"] /\ owner' = owner
      /\ waits' = [j \in Tasks |-> IF j = i THEN waits[j] ELSE waits[j] \ {i}]
  BY DEF Finish
<1>2. /\ status \in [Tasks -> {"absent", "pending", "in_progress", "completed"}]
      /\ waits \in [Tasks -> SUBSET Tasks] /\ i \in Nat
      /\ owner \in [Tasks -> Agents \union {NoOwner}]
  BY AdaptersAssumption DEF FlowInv, TypeOK
<1>3. /\ status'[i] = "completed" /\ \A j \in Tasks \ {i} : status'[j] = status[j]
      /\ status' = [status EXCEPT ![i] = status'[i]]
      /\ owner' = [owner EXCEPT ![i] = owner'[i]]
  BY <1>1, <1>2
<1>4. /\ waits'[i] = waits[i] /\ \A j \in Tasks \ {i} : waits'[j] = waits[j] \ {i}
  BY <1>1
<1>5. \A j \in waits[i] : j \in Tasks /\ j < i /\ status[j] = "completed"
  BY <1>2 DEF TasksInv, Blocked
<1>6. Revised(i)
  BY <1>1, <1>3, <1>4 DEF Revised
<1>7. /\ \A j \in Tasks : waits[j] \ {i} \subseteq waits'[j]
      /\ \A j \in Tasks : i \notin waits'[j]
      /\ \A j \in waits'[i] : status[j] = "completed"
  <2>1. i \notin waits[i]
    BY <1>2, <1>5
  <2>2. \A j \in Tasks : i \notin waits'[j]
    BY <1>4, <2>1
  <2> QED
    BY <1>4, <1>5, <2>2
<1> QED
  BY <1>3, <1>6, <1>7, BoardRevises

LEMMA BoardOfClaim ==
  ASSUME FlowInv, FlowInv', TasksInv, NEW a \in Agents, Claim(a)
  PROVE  TasksInv' /\ Board!Next
<1>1. PICK i \in Tasks :
        /\ status' = [status EXCEPT ![i] = "in_progress"] /\ owner' = [owner EXCEPT ![i] = a]
        /\ Free(a, i) /\ waits' = waits
  BY DEF Claim
<1>2. Board!Take(i, a)
  BY <1>1 DEF Board!Take, Free
<1>3. Revised(i)
  BY <1>1 DEF Revised, Free, FlowInv, TypeOK
<1> QED
  BY <1>2, <1>3, RevisedKeeps DEF Board!Next

LEMMA BoardOfAssign ==
  ASSUME FlowInv, FlowInv', TasksInv, NEW i \in Tasks, NEW a \in Agents, Assign(i, a)
  PROVE  TasksInv' /\ Board!Next
<1>1. /\ status' = status /\ waits' = waits /\ owner' = [owner EXCEPT ![i] = a]
      /\ status[i] # "absent"
  BY DEF Assign
<1>2. /\ status' = [status EXCEPT ![i] = status'[i]]
      /\ owner' = [owner EXCEPT ![i] = owner'[i]]
      /\ status[i] \in {"pending", "in_progress", "completed"}
      /\ \A j \in Tasks \ {i} : owner'[j] = owner[j]
  BY <1>1 DEF FlowInv, TypeOK
<1>3. Revised(i)
  BY <1>1, <1>2 DEF Revised
<1> QED
  BY <1>1, <1>2, <1>3, BoardRevises

LEMMA BoardOfAddWait ==
  ASSUME FlowInv, FlowInv', TasksInv, NEW i \in Tasks, NEW k \in Tasks, AddWait(i, k)
  PROVE  TasksInv' /\ Board!Next
<1>1. /\ status' = status /\ owner' = owner /\ waits' = [waits EXCEPT ![i] = @ \union {k}]
      /\ status[i] # "absent" /\ k < i /\ status[k] # "absent"
  BY DEF AddWait
<1>2. /\ status' = [status EXCEPT ![i] = status'[i]]
      /\ owner' = [owner EXCEPT ![i] = owner'[i]]
      /\ status[i] \in {"pending", "in_progress", "completed"}
      /\ waits'[i] = waits[i] \union {k}
      /\ \A j \in Tasks \ {i} : waits'[j] = waits[j]
  BY <1>1 DEF FlowInv, TypeOK
<1>3. Revised(i)
  BY <1>1, <1>2 DEF Revised
<1>4. \A j \in Tasks : waits[j] \subseteq waits'[j]
  BY <1>2
<1> QED
  BY <1>1, <1>2, <1>3, <1>4, BoardRevises

\* A deleted task leaves no trace.
LEMMA BoardOfDelete ==
  ASSUME FlowInv, TasksInv, NEW i \in Tasks, Delete(i)
  PROVE  TasksInv' /\ Board!Next
<1>1. /\ status' = [status EXCEPT ![i] = "absent"] /\ owner' = [owner EXCEPT ![i] = NoOwner]
      /\ waits' = [j \in Tasks |-> IF j = i THEN {} ELSE waits[j] \ {i}]
      /\ status[i] # "absent"
  BY DEF Delete
<1>2. LET none == [j \in Tasks |-> NoTask] IN
      none = [j \in Tasks |-> IF i \in {j, none[j]} THEN NoTask ELSE none[j]]
  OBVIOUS
<1>3. Board!Drop(i)
  BY <1>1, <1>2 DEF Board!Drop
<1>4. \A j \in Tasks : /\ status'[j] = IF j = i THEN "absent" ELSE status[j]
                       /\ owner'[j] = IF j = i THEN NoOwner ELSE owner[j]
                       /\ waits'[j] = IF j = i THEN {} ELSE waits[j] \ {i}
                       /\ waits[j] \subseteq Tasks
  BY <1>1 DEF FlowInv, TypeOK
<1>5. TasksInv'
  BY <1>4 DEF TasksInv
<1> QED
  BY <1>3, <1>5 DEF Board!Next

\* A deleted task is nobody's to give back.
LEMMA BoardOfReset ==
  ASSUME FlowInv, TasksInv, NEW a \in Agents, Reset(a)
  PROVE  TasksInv' /\ Board!Next
<1>1. /\ owner' = [i \in Tasks |-> IF owner[i] = a THEN NoOwner ELSE owner[i]]
      /\ status' = [i \in Tasks |-> IF owner[i] = a /\ status[i] \notin {"completed", "absent"}
                                    THEN "pending" ELSE status[i]]
      /\ waits' = waits
  BY DEF Reset
<1>2. \A i \in Tasks : owner[i] = a => status[i] # "absent"
  BY AdaptersAssumption DEF TasksInv
<1>3. Board!GiveBack(a)
  BY <1>1, <1>2 DEF Board!GiveBack
<1>4. TasksInv'
  BY <1>1, <1>2 DEF TasksInv, FlowInv, TypeOK
<1> QED
  BY <1>3, <1>4 DEF Board!Next

LEMMA TasksStep == FlowInv /\ TasksInv /\ [Next]_vars => TasksInv' /\ [Board!Next]_tasks
<1> SUFFICES ASSUME FlowInv, TasksInv, [Next]_vars
             PROVE  TasksInv' /\ [Board!Next]_tasks
  OBVIOUS
<1>0. FlowInv'
  BY FlowStep
<1>1. UNCHANGED tasks => TasksInv'
  BY DEF TasksInv, tasks
<1>2. ASSUME NEW a \in Agents, LoopStep(a) PROVE TasksInv' /\ [Board!Next]_tasks
  <2>1. CASE Drain(a) \/ HandleNotes(a) \/ HandleSteer(a) \/ HandleShutdown(a) \/ HandlePlan(a)
    BY <1>1, <2>1 DEF Drain, HandleNotes, HandleSteer, HandleShutdown, HandlePlan
  <2>2. CASE ByTool(a) \/ Reply(a) \/ PlanSent(a) \/ PlanFails(a)
    BY <1>1, <2>2 DEF ByTool, Reply, AnswersEnd, PlanSent, PlanFails, Planned
  <2>3. CASE List(a) \/ ClaimRace(a) \/ ClaimVanished(a)
    BY <1>1, <2>3 DEF List, ClaimRace, ClaimVanished
  <2>4. CASE Turn(a) \/ TurnAgain(a) \/ CompleteRefused(a) \/ Block(a)
    BY <1>1, <2>4 DEF Turn, TurnEnds, TurnAgain, CompleteRefused, Block
  <2>5. CASE Claims(a) \/ PutOff(a) \/ PlanAgain(a) \/ Wake(a) \/ Deregister(a) \/ Leave(a)
    BY <1>1, <2>5 DEF Claims, PutOff, PlanAgain, Wake, Deregister, Leave
  <2>6. CASE Claim(a)
    BY <1>0, <2>6, BoardOfClaim
  <2>7. CASE Complete(a)
    <3>1. inFlight[a] \in Tasks
      BY <2>7, InFlight DEF Complete, Working
    <3> QED
      BY <1>0, <2>7, <3>1, BoardFinishes DEF Complete
  <2> QED
    BY <1>2, <2>1, <2>2, <2>3, <2>4, <2>5, <2>6, <2>7 DEF LoopStep
<1>3. ASSUME NEW a \in Agents,
             MidTurn(a) \/ Steer(a) \/ TurnRaises(a) \/ Signal(a)
      PROVE  TasksInv' /\ [Board!Next]_tasks
  BY <1>1, <1>3 DEF MidTurn, Steer, TurnRaises, AnswersEnd, Signal
<1>4. CASE LeadStep
  <2>1. ASSUME NEW a \in Agents, NEW m \in Message, Send(a, m)
        PROVE  TasksInv' /\ [Board!Next]_tasks
    BY <1>1, <2>1 DEF Send
  <2>2. ASSUME NEW a \in Agents, Dismiss(a) PROVE TasksInv' /\ [Board!Next]_tasks
    BY <1>1, <2>2 DEF Dismiss
  <2>3. ASSUME NEW i \in Tasks, LeadCompletes(i) PROVE TasksInv' /\ [Board!Next]_tasks
    BY <1>0, <2>3, BoardFinishes DEF LeadCompletes
  <2> QED
    BY <1>0, <1>4, <2>1, <2>2, <2>3, BoardOfAssign, BoardOfAddWait, BoardOfDelete, BoardOfReset
       DEF LeadStep, ProcessApproved, ForceKill
<1>5. CASE UNCHANGED vars
  BY <1>1, <1>5 DEF vars
<1> QED
  BY <1>2, <1>3, <1>4, <1>5 DEF Next

\* Agents and lead together change the tasks only by steps of the task board.
THEOREM BoardIsRespected == Spec => BoardSteps
<1>1. FlowInv /\ TasksInv /\ [Next]_vars => [Board!Next]_tasks
  BY TasksStep
<1> QED
  BY <1>1, FlowInit, FlowStep, TasksInit, TasksStep, PTL DEF Spec, BoardSteps
=============================================================================
