----------------------------- MODULE LoopsProofs -----------------------------
(* Theorems about Loops, for any backends, tasks and bounds.                *)
EXTENDS Loops, Lemmas, FiniteSetTheorems

-----------------------------------------------------------------------------
(* The inductive invariant. *)

\* The state is what it is said to be; the memory's batch, steers and task may be
\* anything.
MemoryShape ==
  me \in [batch : {me.batch}, signal : BOOLEAN, session : 0..sessions,
          steers : {me.steers}, task : {me.task}, attempt : {1, 2}, asks : SUBSET (1..asked)]

CallShape ==
  call \in [for : {NoTurn, Prose, Plan} \cup Tasks, eph : BOOLEAN, child : Pids \cup {0},
            reg : BOOLEAN, session : 0..sessions, ask : 0..asked, refused : BOOLEAN,
            result : {"none", "timeout", "refused", "raised"} \cup Ends]

DiskShape ==
  disk \in [ran : BOOLEAN, clean : BOOLEAN, session : 0..sessions, child : Pids \cup {0}]

BoardShape ==
  /\ store \in [Tasks -> {"pending", "in_progress", "completed", "deleted"}]
  /\ report \in [Tasks -> {"none", "completed", "blocked"}]

Shape ==
  /\ backend \in Backends
  /\ pc \in {"down", "recovered", "top", "handle", "start", "registering", "started",
             "opening", "prompt", "closing", "unregistering", "result", "leaving", "hung"}
  /\ children \subseteq Pids
  /\ sessions \in Nat /\ asked \in Nat /\ crashes \in 0..MaxCrashes
  /\ spent \subseteq 1..sessions /\ cut \subseteq 1..sessions /\ allowed \subseteq answered /\ answered \subseteq 1..asked

\* An adapter has run and left no later clean exit behind.
Died == disk.ran /\ ~disk.clean

\* What an invocation is, from place to place.
Course ==
  /\ pc \in {"down", "recovered", "top", "handle", "leaving"} => call = Idle
  /\ pc \in {"down", "recovered"} => me = Memory
  /\ pc \notin {"down", "recovered"} => Died
  /\ pc \in {"registering", "started", "opening", "prompt", "closing", "unregistering"} =>
       backend = "acp"
  /\ pc \in {"start", "registering", "started", "opening"} =>
       call.session = 0 /\ call.ask = 0 /\ ~call.refused
  /\ pc \in {"start", "result"} => call.child = 0 /\ ~call.reg
  /\ pc = "unregistering" => call.child \notin children
  /\ call.eph <=> call.for \notin Tasks
  /\ call.eph => call.session = 0
  /\ ~call.eph /\ (pc = "prompt" \/ call.result = "stopped") => call.session # 0

\* The children: those of former processes that are not recorded are known to be
\* passed over.
Reaped ==
  /\ backend # "acp" => children = {} /\ disk.child = 0
  /\ unseen \subseteq children \ {call.child}
  /\ pc # "down" => children \ {call.child} \subseteq unseen
  /\ pc \in {"opening", "prompt", "closing"} => call.child \in {0, disk.child}
  /\ pc = "down" => IF Died THEN children \ {disk.child} \subseteq unseen
                    ELSE children \subseteq unseen

\* No more are left than there were crashes.
Few == Cardinality(children \ {call.child}) <= crashes

\* The sessions: those that are spent are never on disk, and in no memory, but while
\* the turn that spent them ends, or when the backend keeps them.
Forgotten ==
  /\ backend # "acp" => disk.session = 0
  /\ disk.session \notin spent
  /\ Gemini /\ pc \notin {"down", "hung"} =>
       \/ {me.session, call.session} \cap spent = {}
       \/ /\ pc \in {"closing", "unregistering", "result"} /\ ~call.eph
          /\ call.result \in {"timeout", "refused", "stopped"}

\* The permissions: a turn of a task has all that was asked for, waits for one,
\* or knows of a refusal.
Granted ==
  /\ backend # "acp" => me.asks = {}
  /\ ~call.eph =>
       \/ me.asks \subseteq allowed
       \/ pc = "prompt" /\ (call.refused \/ me.asks \subseteq allowed \cup {call.ask})
       \/ pc \in {"closing", "unregistering", "result"} /\ call.result \in {"timeout", "refused"}
       \/ pc = "hung"

Shapes == MemoryShape /\ CallShape /\ DiskShape /\ BoardShape /\ Shape
LoopInv == Shapes /\ Course /\ Reaped /\ Few /\ Forgotten /\ Granted

USE DEF life, board, lead, past, trail, Pids, NoTurn, Prose, Plan, Ends, Died, Gemini

-----------------------------------------------------------------------------
(* Tasks, children and their numbers. *)

LEMMA Constants ==
  /\ MaxCrashes \in Nat /\ Tasks \subseteq Nat
  /\ 0 \notin Tasks /\ -1 \notin Tasks /\ -2 \notin Tasks
BY LoopsAssumption

\* The lowest of a set of numbers is one of them.
LEMMA LowestOf ==
  ASSUME NEW S \in SUBSET Nat, S # {}
  PROVE  Lowest(S) \in S
BY LeastOf DEF Lowest

LEMMA FewPids ==
  ASSUME NEW S \in SUBSET Pids
  PROVE  /\ IsFiniteSet(S) /\ Cardinality(S) \in Nat
         /\ \A T \in SUBSET S : Cardinality(T) <= Cardinality(S)
         /\ \A x : Cardinality(S) <= Cardinality(S \ {x}) + 1
         /\ Cardinality(S) <= MaxCrashes => Pids \ S # {}
<1>1. IsFiniteSet(Pids) /\ Cardinality(Pids) = MaxCrashes + 1
  <2>1. \A n \in Nat : IsFiniteSet(1..n) /\ Cardinality(1..n) = n
    BY FS_Interval
  <2> QED
    BY <2>1, Constants
<1>2. IsFiniteSet(S) /\ Cardinality(S) \in Nat
  BY <1>1, FS_Subset, FS_CardinalityType
<1>3. \A T \in SUBSET S : Cardinality(T) <= Cardinality(S)
  BY <1>2, FS_Subset
<1>4. \A x : Cardinality(S) <= Cardinality(S \ {x}) + 1
  <2> TAKE x
  <2>1. Cardinality(S \ {x}) = IF x \in S THEN Cardinality(S) - 1 ELSE Cardinality(S)
    BY <1>2, FS_RemoveElement
  <2> QED
    BY <1>2, <2>1
<1>5. Cardinality(S) <= MaxCrashes => Pids \ S # {}
  <2> SUFFICES ASSUME Pids \ S = {}, Cardinality(S) <= MaxCrashes PROVE FALSE
    OBVIOUS
  <2>1. S = Pids
    OBVIOUS
  <2> QED
    BY <1>1, <2>1, Constants
<1> QED
  BY <1>2, <1>3, <1>4, <1>5

LEMMA Numbers ==
  ASSUME LoopInv
  PROVE  /\ children \subseteq Pids /\ 0 \notin children
         /\ crashes \in Nat /\ sessions \in Nat /\ asked \in Nat
         /\ 0 \in 0..sessions /\ 0 \in 0..asked /\ 0 \notin spent
<1>1. children \subseteq Pids /\ sessions \in Nat /\ asked \in Nat
  BY DEF LoopInv, Shapes, Shape
<1>2. crashes \in Nat
  BY Constants DEF LoopInv, Shapes, Shape
<1>3. 0 \notin spent
  BY DEF LoopInv, Shapes, Shape
<1> QED
  BY <1>1, <1>2, <1>3

\* Without a new child, and without a crash, there are not more of the others; a
\* crash makes them one more at most.
LEMMA StaysFew ==
  ASSUME LoopInv
  PROVE  /\ /\ children' \ {call'.child} \subseteq children \ {call.child}
            /\ crashes' = crashes
            => Few'
         /\ children' \ {call'.child} = children /\ crashes' = crashes + 1 => Few'
<1> DEFINE S == children \ {call.child}
           T == children' \ {call'.child}
<1>1. S \in SUBSET Pids /\ children \in SUBSET Pids /\ crashes \in Nat
  BY Numbers
<1>2. Cardinality(S) <= crashes /\ (Few' <=> Cardinality(T) <= crashes')
  BY DEF LoopInv, Few
<1>3. Cardinality(children) <= Cardinality(S) + 1
  BY <1>1, FewPids
<1> HIDE DEF S, T
<1>4. ASSUME T \subseteq S, crashes' = crashes PROVE Few'
  <2>1. T \in SUBSET Pids
    BY <1>1, <1>4
  <2>2. Cardinality(S) \in Nat /\ Cardinality(T) \in Nat /\ Cardinality(T) <= Cardinality(S)
    BY <1>1, <1>4, <2>1, FewPids
  <2> QED
    BY <1>1, <1>2, <1>4, <2>2
<1>5. ASSUME T = children, crashes' = crashes + 1 PROVE Few'
  <2>1. Cardinality(S) \in Nat /\ Cardinality(T) \in Nat /\ Cardinality(T) <= Cardinality(S) + 1
    BY <1>1, <1>3, <1>5, FewPids
  <2> QED
    BY <1>1, <1>2, <1>5, <2>1
<1> QED
  BY <1>4, <1>5 DEF S, T

-----------------------------------------------------------------------------
(* Every step keeps the invariant: one lemma per action. *)

LEMMA RecoverKeeps ==
  ASSUME LoopInv, NEW taken \in BOOLEAN, NEW renamed \in BOOLEAN,
         NEW view \in [children -> Views], NEW stubborn \in SUBSET children,
         Recover(taken, renamed, view, stubborn)
  PROVE  LoopInv'
<1> USE DEF LoopInv, Shapes, CallShape, Shape, Course, Idle, Memory
<1>a. /\ pc = "down" /\ pc' = "recovered" /\ cut' = {}
      /\ UNCHANGED <<backend, crashes, me, call, store, report, asked, allowed, answered,
                     sessions>>
      /\ children' \subseteq children
      /\ call = Idle /\ me = Memory
  BY DEF Recover
<1>b. \/ /\ disk' = [disk EXCEPT !.session = 0, !.child = 0] /\ spent' = spent \cup cut
         /\ backend = "acp" /\ disk.ran /\ ~disk.clean
      \/ disk' = disk /\ spent' = spent /\ children' = children
  BY DEF Recover, PreviousDied
<1>n. 0 \in 0..sessions /\ 0 \notin children /\ spent' \subseteq 1..sessions
  BY <1>b, Numbers
<1>1. Shapes'
  <2>1. MemoryShape'
    BY <1>a DEF MemoryShape
  <2>2. CallShape'
    BY <1>a
  <2>3. DiskShape'
    BY <1>a, <1>b, <1>n DEF DiskShape
  <2>4. BoardShape'
    BY <1>a DEF BoardShape
  <2>5. Shape'
    BY <1>a, <1>n
  <2> QED
    BY <2>1, <2>2, <2>3, <2>4, <2>5
<1>2. Course'
  BY <1>a DEF MemoryShape
<1>3. Reaped'
  <2>1. call.child = 0 /\ call' = call
    BY <1>a
  <2>2. children' \subseteq unseen' /\ unseen' \subseteq children'
    <3>1. CASE backend = "acp" /\ PreviousDied(taken) /\ ~renamed
      <4>1. /\ children' = children \ (Orphans(view) \ stubborn)
            /\ unseen' = children' \cap PassedOver(view, stubborn)
        BY <3>1 DEF Recover
      <4>2. children \ {disk.child} \subseteq unseen
        BY <1>a, <3>1 DEF Reaped, PreviousDied
      <4>3. ASSUME NEW c \in children' PROVE c \in PassedOver(view, stubborn)
        <5>1. c \in children /\ (c \notin Orphans(view) \/ c \in stubborn)
          BY <4>1, <4>3
        <5>2. CASE c \in stubborn
          BY <5>1, <5>2 DEF PassedOver
        <5>3. CASE c \notin Orphans(view)
          <6>1. view[c] \in Views /\ view[c] # "own"
            BY <5>1, <5>3 DEF Orphans
          <6>2. CASE c = disk.child
            BY <5>1, <5>3, <6>1, <6>2 DEF Orphans, PassedOver, Views
          <6>3. CASE c # disk.child
            BY <4>2, <5>1, <6>1, <6>3 DEF PassedOver
          <6> QED
            BY <6>2, <6>3
        <5> QED
          BY <5>1, <5>2, <5>3
      <4> QED
        BY <4>1, <4>3
    <3>2. CASE ~(backend = "acp" /\ PreviousDied(taken) /\ ~renamed)
      <4>1. /\ children' = children
            /\ unseen' = IF PreviousDied(FALSE) THEN children ELSE unseen
        BY <3>2 DEF Recover
      <4> QED
        BY <1>a, <2>1, <4>1 DEF Reaped, PreviousDied
    <3> QED
      BY <3>1, <3>2
  <2>3. backend # "acp" => children' = {} /\ disk'.child = 0
    BY <1>a, <1>b DEF Reaped
  <2> QED
    BY <1>a, <1>n, <2>1, <2>2, <2>3 DEF Reaped
<1>4. Few'
  BY StaysFew, <1>a
<1>5. Forgotten'
  <2>1. 0 \notin spent' /\ me.session = 0 /\ call.session = 0 /\ disk.session \notin spent
    BY <1>a, <1>n DEF Forgotten
  <2>2. disk'.session \in {0, disk.session} /\ disk'.session \notin spent'
    BY <1>b, <2>1 DEF DiskShape
  <2>3. backend # "acp" => disk'.session = 0
    BY <1>a, <2>2 DEF Forgotten
  <2> QED
    BY <1>a, <2>1, <2>2, <2>3 DEF Forgotten
<1>6. Granted'
  BY <1>a DEF Granted
<1> QED
  BY <1>1, <1>2, <1>3, <1>4, <1>5, <1>6

LEMMA PreflightFailsKeeps ==
  ASSUME LoopInv, PreflightFails
  PROVE  LoopInv'
<1> USE DEF LoopInv, Shapes, CallShape, Shape, Course, PreflightFails, Idle, Memory
<1>1. Shapes'
  BY DEF MemoryShape, DiskShape, BoardShape
<1>2. Course'
  BY DEF MemoryShape, DiskShape
<1>3. Reaped'
  BY DEF DiskShape, Reaped
<1>4. Few'
  BY StaysFew DEF Reaped
<1>5. Forgotten'
  BY DEF MemoryShape, DiskShape, Forgotten
<1>6. Granted'
  BY DEF MemoryShape, Granted
<1> QED
  BY <1>1, <1>2, <1>3, <1>4, <1>5, <1>6

LEMMA MarkStartKeeps ==
  ASSUME LoopInv, MarkStart
  PROVE  LoopInv'
<1> USE DEF LoopInv, Shapes, CallShape, Shape, Course, MarkStart, Idle, Memory
<1>1. Shapes'
  <2>1. MemoryShape'
    BY DEF MemoryShape
  <2>2. CallShape'
    OBVIOUS
  <2>3. DiskShape'
    BY DEF DiskShape
  <2>4. BoardShape'
    BY DEF BoardShape
  <2>5. Shape'
    OBVIOUS
  <2> QED
    BY <2>1, <2>2, <2>3, <2>4, <2>5
<1>2. Course'
  BY DEF MemoryShape, DiskShape
<1>3. Reaped'
  BY DEF DiskShape, Reaped
<1>4. Few'
  BY StaysFew DEF Reaped
<1>5. Forgotten'
  BY DEF MemoryShape, DiskShape, Forgotten
<1>6. Granted'
  BY DEF MemoryShape, Granted
<1> QED
  BY <1>1, <1>2, <1>3, <1>4, <1>5, <1>6

LEMMA ExitKeeps ==
  ASSUME LoopInv, Exit
  PROVE  LoopInv'
<1> USE DEF LoopInv, Shapes, CallShape, Shape, Course, Exit, Memory, Idle
<1>1. Shapes'
  <2>1. MemoryShape'
    BY DEF MemoryShape
  <2>2. CallShape'
    OBVIOUS
  <2>3. DiskShape'
    BY DEF DiskShape
  <2>4. BoardShape'
    BY DEF BoardShape
  <2>5. Shape'
    OBVIOUS
  <2> QED
    BY <2>1, <2>2, <2>3, <2>4, <2>5
<1>2. Course'
  BY DEF MemoryShape, DiskShape
<1>3. Reaped'
  BY DEF DiskShape, Reaped
<1>4. Few'
  BY StaysFew DEF Reaped
<1>5. Forgotten'
  BY DEF MemoryShape, DiskShape, Forgotten
<1>6. Granted'
  BY DEF MemoryShape, Granted
<1> QED
  BY <1>1, <1>2, <1>3, <1>4, <1>5, <1>6

LEMMA CrashKeeps ==
  ASSUME LoopInv, Crash
  PROVE  LoopInv'
<1> USE DEF LoopInv, Shapes, CallShape, Shape, Course, Crash, Memory, Idle
<1>1. Shapes'
  <2>1. MemoryShape'
    BY Constants DEF MemoryShape
  <2>2. CallShape'
    BY Constants
  <2>3. DiskShape'
    BY Constants DEF DiskShape
  <2>4. BoardShape'
    BY Constants DEF BoardShape
  <2>5. Shape'
    <3>1. crashes' \in 0..MaxCrashes
      BY Constants
    <3>2. call.session \in {0} \cup 1..sessions /\ cut' = {call.session} \ {0}
      OBVIOUS
    <3>3. cut' \subseteq 1..sessions
      BY <3>2
    <3> QED
      BY <3>1, <3>3
  <2> QED
    BY <2>1, <2>2, <2>3, <2>4, <2>5
<1>2. Course'
  BY Constants DEF MemoryShape, DiskShape
<1>3. Reaped'
  <2>1. /\ 0 \notin children /\ disk' = disk /\ backend' = backend /\ children' = children
        /\ pc' = "down" /\ call'.child = 0
    OBVIOUS
  <2>2. children \ {disk.child} \subseteq unseen' /\ unseen' \subseteq children
    <3>1. children \ {call.child} \subseteq unseen /\ unseen \subseteq children
      BY DEF Reaped
    <3>2. CASE pc \in {"registering", "started", "hung"}
      BY <3>1, <3>2
    <3>3. CASE pc \notin {"registering", "started", "hung"}
      <4>1. call.child \in children => call.child = disk.child
        BY <2>1, <3>3 DEF Reaped
      <4> QED
        BY <3>1, <3>3, <4>1
    <3> QED
      BY <3>2, <3>3
  <2>3. ~Died => children \subseteq unseen'
    <3>1. ~Died => call.child = 0 /\ children \subseteq unseen
      BY <2>1 DEF Reaped
    <3> QED
      BY <3>1
  <2>4. backend # "acp" => children = {} /\ disk.child = 0
    BY DEF Reaped
  <2> QED
    BY <2>1, <2>2, <2>3, <2>4 DEF Reaped
<1>4. Few'
  <2>1. children' \ {call'.child} = children /\ crashes' = crashes + 1
    BY Numbers
  <2> QED
    BY <2>1, StaysFew
<1>5. Forgotten'
  BY Constants DEF MemoryShape, DiskShape, Forgotten
<1>6. Granted'
  BY Constants DEF MemoryShape, Granted
<1> QED
  BY <1>1, <1>2, <1>3, <1>4, <1>5, <1>6

LEMMA SignalKeeps ==
  ASSUME LoopInv, Signal
  PROVE  LoopInv'
<1> USE DEF LoopInv, Shapes, CallShape, Shape, Course, Signal, Idle, Memory
<1>1. Shapes'
  <2>1. MemoryShape'
    BY DEF MemoryShape
  <2>2. CallShape'
    OBVIOUS
  <2>3. DiskShape'
    BY DEF DiskShape
  <2>4. BoardShape'
    BY DEF BoardShape
  <2>5. Shape'
    OBVIOUS
  <2> QED
    BY <2>1, <2>2, <2>3, <2>4, <2>5
<1>2. Course'
  BY DEF MemoryShape, DiskShape
<1>3. Reaped'
  BY DEF DiskShape, Reaped
<1>4. Few'
  BY StaysFew DEF Reaped
<1>5. Forgotten'
  BY DEF MemoryShape, DiskShape, Forgotten
<1>6. Granted'
  BY DEF MemoryShape, Granted
<1> QED
  BY <1>1, <1>2, <1>3, <1>4, <1>5, <1>6

LEMMA SendKeeps ==
  ASSUME LoopInv, NEW m, Send(m)
  PROVE  LoopInv'
<1> USE DEF LoopInv, Shapes, CallShape, Shape, Course, Send, Idle, Memory
<1>1. Shapes'
  BY DEF MemoryShape, DiskShape, BoardShape
<1>2. Course'
  BY DEF MemoryShape, DiskShape
<1>3. Reaped'
  BY DEF DiskShape, Reaped
<1>4. Few'
  BY StaysFew DEF Reaped
<1>5. Forgotten'
  BY DEF MemoryShape, DiskShape, Forgotten
<1>6. Granted'
  BY DEF MemoryShape, Granted
<1> QED
  BY <1>1, <1>2, <1>3, <1>4, <1>5, <1>6

LEMMA DecideKeeps ==
  ASSUME LoopInv, NEW id \in 1..asked, NEW ok \in BOOLEAN, Decide(id, ok)
  PROVE  LoopInv'
<1> USE DEF LoopInv, Shapes, CallShape, Shape, Course, Decide, Idle, Memory
<1>1. Shapes'
  BY DEF MemoryShape, DiskShape, BoardShape
<1>2. Course'
  BY DEF MemoryShape, DiskShape
<1>3. Reaped'
  BY DEF DiskShape, Reaped
<1>4. Few'
  BY StaysFew DEF Reaped
<1>5. Forgotten'
  BY DEF MemoryShape, DiskShape, Forgotten
<1>6. Granted'
  BY DEF MemoryShape, Granted
<1> QED
  BY <1>1, <1>2, <1>3, <1>4, <1>5, <1>6

LEMMA LeadEndsKeeps ==
  ASSUME LoopInv, NEW t \in Tasks, NEW s \in {"completed", "deleted"}, LeadEnds(t, s)
  PROVE  LoopInv'
<1> USE DEF LoopInv, Shapes, CallShape, Shape, Course, LeadEnds, Idle, Memory
<1>1. Shapes'
  BY DEF MemoryShape, DiskShape, BoardShape
<1>2. Course'
  BY DEF MemoryShape, DiskShape
<1>3. Reaped'
  BY DEF DiskShape, Reaped
<1>4. Few'
  BY StaysFew DEF Reaped
<1>5. Forgotten'
  BY DEF MemoryShape, DiskShape, Forgotten
<1>6. Granted'
  BY DEF MemoryShape, Granted
<1> QED
  BY <1>1, <1>2, <1>3, <1>4, <1>5, <1>6

LEMMA DrainKeeps ==
  ASSUME LoopInv, Drain
  PROVE  LoopInv'
<1> USE DEF LoopInv, Shapes, CallShape, Shape, Course, Drain, Idle
<1>1. Shapes'
  <2>1. MemoryShape'
    BY DEF MemoryShape
  <2>2. CallShape'
    OBVIOUS
  <2>3. DiskShape'
    BY DEF DiskShape
  <2>4. BoardShape'
    BY DEF BoardShape
  <2>5. Shape'
    OBVIOUS
  <2> QED
    BY <2>1, <2>2, <2>3, <2>4, <2>5
<1>2. Course'
  BY DEF MemoryShape, DiskShape
<1>3. Reaped'
  BY DEF DiskShape, Reaped
<1>4. Few'
  BY StaysFew DEF Reaped
<1>5. Forgotten'
  BY DEF MemoryShape, DiskShape, Forgotten
<1>6. Granted'
  BY DEF MemoryShape, Granted
<1> QED
  BY <1>1, <1>2, <1>3, <1>4, <1>5, <1>6

LEMMA HandleProseKeeps ==
  ASSUME LoopInv, HandleProse
  PROVE  LoopInv'
<1> USE DEF LoopInv, Shapes, CallShape, Shape, Course, HandleProse, Arrived, Turn, Idle
<1>1. Shapes'
  BY Constants DEF MemoryShape, DiskShape, BoardShape
<1>2. Course'
  BY Constants DEF MemoryShape, DiskShape
<1>3. Reaped'
  BY Constants DEF DiskShape, Reaped
<1>4. Few'
  BY StaysFew, Constants DEF Reaped
<1>5. Forgotten'
  BY Constants DEF MemoryShape, DiskShape, Forgotten
<1>6. Granted'
  BY Constants DEF MemoryShape, Granted
<1> QED
  BY <1>1, <1>2, <1>3, <1>4, <1>5, <1>6

LEMMA HandleSteerKeeps ==
  ASSUME LoopInv, HandleSteer
  PROVE  LoopInv'
<1> USE DEF LoopInv, Shapes, CallShape, Shape, Course, HandleSteer, Arrived, Idle
<1>1. Shapes'
  <2>1. MemoryShape'
    BY DEF MemoryShape
  <2>2. CallShape'
    OBVIOUS
  <2>3. DiskShape'
    BY DEF DiskShape
  <2>4. BoardShape'
    BY DEF BoardShape
  <2>5. Shape'
    OBVIOUS
  <2> QED
    BY <2>1, <2>2, <2>3, <2>4, <2>5
<1>2. Course'
  BY DEF MemoryShape, DiskShape
<1>3. Reaped'
  BY DEF DiskShape, Reaped
<1>4. Few'
  BY StaysFew DEF Reaped
<1>5. Forgotten'
  BY DEF MemoryShape, DiskShape, Forgotten
<1>6. Granted'
  BY DEF MemoryShape, Granted
<1> QED
  BY <1>1, <1>2, <1>3, <1>4, <1>5, <1>6

LEMMA HandleDecisionKeeps ==
  ASSUME LoopInv, HandleDecision
  PROVE  LoopInv'
<1> USE DEF LoopInv, Shapes, CallShape, Shape, Course, HandleDecision, Arrived, Idle
<1>1. Shapes'
  <2>1. MemoryShape'
    BY DEF MemoryShape
  <2>2. CallShape'
    OBVIOUS
  <2>3. DiskShape'
    BY DEF DiskShape
  <2>4. BoardShape'
    BY DEF BoardShape
  <2>5. Shape'
    OBVIOUS
  <2> QED
    BY <2>1, <2>2, <2>3, <2>4, <2>5
<1>2. Course'
  BY DEF MemoryShape, DiskShape
<1>3. Reaped'
  BY DEF DiskShape, Reaped
<1>4. Few'
  BY StaysFew DEF Reaped
<1>5. Forgotten'
  BY DEF MemoryShape, DiskShape, Forgotten
<1>6. Granted'
  BY DEF MemoryShape, Granted
<1> QED
  BY <1>1, <1>2, <1>3, <1>4, <1>5, <1>6

LEMMA HandleShutdownKeeps ==
  ASSUME LoopInv, HandleShutdown
  PROVE  LoopInv'
<1> USE DEF LoopInv, Shapes, CallShape, Shape, Course, HandleShutdown, Arrived, Idle
<1>1. Shapes'
  <2>1. MemoryShape'
    <3>1. 0 \in 0..sessions /\ sessions' = sessions /\ asked' = asked
      OBVIOUS
    <3> QED
      BY <3>1 DEF MemoryShape
  <2>2. CallShape'
    OBVIOUS
  <2>3. DiskShape'
    BY DEF DiskShape
  <2>4. BoardShape'
    BY DEF BoardShape
  <2>5. Shape'
    OBVIOUS
  <2> QED
    BY <2>1, <2>2, <2>3, <2>4, <2>5
<1>2. Course'
  BY DEF MemoryShape, DiskShape
<1>3. Reaped'
  BY DEF DiskShape, Reaped
<1>4. Few'
  BY StaysFew DEF Reaped
<1>5. Forgotten'
  BY DEF MemoryShape, DiskShape, Forgotten
<1>6. Granted'
  BY DEF MemoryShape, Granted
<1> QED
  BY <1>1, <1>2, <1>3, <1>4, <1>5, <1>6

LEMMA HandlePlanKeeps ==
  ASSUME LoopInv, HandlePlan
  PROVE  LoopInv'
<1> USE DEF LoopInv, Shapes, CallShape, Shape, Course, HandlePlan, Arrived, Turn, Idle
<1> DEFINE t == PlanTarget(Head(me.batch))
<1> HIDE DEF t
<1>1. CASE t = 0
  <2>1. me' = [me EXCEPT !.batch = Tail(me.batch)] /\ UNCHANGED <<pc, call>>
    BY <1>1 DEF t
  <2>2. Shapes'
    <3>1. MemoryShape'
      BY <2>1 DEF MemoryShape
    <3>2. CallShape'
      BY <2>1
    <3>3. DiskShape'
      BY <2>1 DEF DiskShape
    <3>4. BoardShape'
      BY <2>1 DEF BoardShape
    <3>5. Shape'
      BY <2>1
    <3> QED
      BY <3>1, <3>2, <3>3, <3>4, <3>5
  <2>3. Course'
    BY <2>1 DEF MemoryShape, DiskShape
  <2>4. Reaped'
    BY <2>1 DEF DiskShape, Reaped
  <2>5. Few'
    BY StaysFew, <2>1 DEF Reaped
  <2>6. Forgotten'
    BY <2>1 DEF MemoryShape, DiskShape, Forgotten
  <2>7. Granted'
    BY <2>1 DEF MemoryShape, Granted
  <2> QED
    BY <2>2, <2>3, <2>4, <2>5, <2>6, <2>7
<1>2. CASE t # 0
  <2>1. /\ me' = [me EXCEPT !.batch = Tail(me.batch), !.task = t, !.attempt = 1]
        /\ pc = "handle" /\ pc' = "start" /\ call' = [Idle EXCEPT !.for = Plan, !.eph = TRUE]
    BY <1>2 DEF t
  <2>2. Shapes'
    <3>1. MemoryShape'
      BY <2>1, Constants DEF MemoryShape
    <3>2. CallShape'
      BY <2>1, Constants
    <3>3. DiskShape'
      BY <2>1, Constants DEF DiskShape
    <3>4. BoardShape'
      BY <2>1, Constants DEF BoardShape
    <3>5. Shape'
      BY <2>1, Constants
    <3> QED
      BY <3>1, <3>2, <3>3, <3>4, <3>5
  <2>3. Course'
    BY <2>1, Constants DEF MemoryShape, DiskShape
  <2>4. Reaped'
    BY <2>1, Constants DEF DiskShape, Reaped
  <2>5. Few'
    BY StaysFew, <2>1, Constants DEF Reaped
  <2>6. Forgotten'
    BY <2>1, Constants DEF MemoryShape, DiskShape, Forgotten
  <2>7. Granted'
    BY <2>1, Constants DEF MemoryShape, Granted
  <2> QED
    BY <2>2, <2>3, <2>4, <2>5, <2>6, <2>7
<1> QED
  BY <1>1, <1>2

LEMMA PlanIgnoredKeeps ==
  ASSUME LoopInv, PlanIgnored
  PROVE  LoopInv'
<1> USE DEF LoopInv, Shapes, CallShape, Shape, Course, PlanIgnored, Arrived, Idle
<1>1. Shapes'
  <2>1. MemoryShape'
    BY DEF MemoryShape
  <2>2. CallShape' /\ Shape'
    OBVIOUS
  <2>3. DiskShape'
    BY DEF DiskShape
  <2>4. BoardShape'
    BY DEF BoardShape
  <2> QED
    BY <2>1, <2>2, <2>3, <2>4
<1>2. Course'
  BY DEF MemoryShape, DiskShape
<1>3. Reaped'
  BY DEF DiskShape, Reaped
<1>4. Few'
  BY StaysFew DEF Reaped
<1>5. Forgotten'
  BY DEF MemoryShape, DiskShape, Forgotten
<1>6. Granted'
  BY DEF MemoryShape, Granted
<1> QED
  BY <1>1, <1>2, <1>3, <1>4, <1>5, <1>6

LEMMA ClaimKeeps ==
  ASSUME LoopInv, Claim
  PROVE  LoopInv'
<1> USE DEF LoopInv, Shapes, CallShape, Shape, Course, Idle
<1>n. 0 \in 0..sessions /\ 0 \in 0..asked /\ 0 \notin spent
  BY Numbers
<1>a. /\ pc = "handle" /\ pc' = "start"
     /\ \E t \in Tasks :
          /\ store' = [store EXCEPT ![t] = "in_progress"]
          /\ me' = [me EXCEPT !.task = t, !.attempt = 1, !.asks = {}, !.steers = me.steers \ {0, t}]
          /\ call' = [Idle EXCEPT !.for = t, !.eph = FALSE]
     /\ UNCHANGED <<backend, crashes, disk, children, sessions, asked, allowed, answered,
                    spent, cut, unseen, report>>
  <2>1. Lowest(Pending) \in Tasks
    BY LowestOf, Constants DEF Pending, Claim
  <2> QED
    BY <2>1 DEF Claim, Turn
<1>b. PICK t \in Tasks :
        /\ store' = [store EXCEPT ![t] = "in_progress"]
        /\ me' = [me EXCEPT !.task = t, !.attempt = 1, !.asks = {}, !.steers = me.steers \ {0, t}]
        /\ call' = [Idle EXCEPT !.for = t, !.eph = FALSE]
  BY <1>a
<1>1. Shapes'
  <2>1. MemoryShape'
    BY <1>a, <1>b, <1>n, Constants DEF MemoryShape
  <2>2. CallShape'
    BY <1>a, <1>b, <1>n, Constants
  <2>3. DiskShape'
    BY <1>a, <1>b, <1>n, Constants DEF DiskShape
  <2>4. BoardShape'
    BY <1>a, <1>b, <1>n, Constants DEF BoardShape
  <2>5. Shape'
    BY <1>a, <1>b, <1>n, Constants
  <2> QED
    BY <2>1, <2>2, <2>3, <2>4, <2>5
<1>2. Course'
  BY <1>a, <1>b, <1>n, Constants DEF MemoryShape, DiskShape
<1>3. Reaped'
  BY <1>a, <1>b, <1>n, Constants DEF DiskShape, Reaped
<1>4. Few'
  BY StaysFew, <1>a, <1>b, <1>n, Constants DEF Reaped
<1>5. Forgotten'
  BY <1>a, <1>b, <1>n, Constants DEF MemoryShape, DiskShape, Forgotten
<1>6. Granted'
  BY <1>a, <1>b, <1>n, Constants DEF MemoryShape, Granted
<1> QED
  BY <1>1, <1>2, <1>3, <1>4, <1>5, <1>6

LEMMA WaitKeeps ==
  ASSUME LoopInv, Wait
  PROVE  LoopInv'
<1> USE DEF LoopInv, Shapes, CallShape, Shape, Course, Wait, Idle
<1>1. Shapes'
  <2>1. MemoryShape'
    BY DEF MemoryShape
  <2>2. CallShape'
    OBVIOUS
  <2>3. DiskShape'
    BY DEF DiskShape
  <2>4. BoardShape'
    BY DEF BoardShape
  <2>5. Shape'
    OBVIOUS
  <2> QED
    BY <2>1, <2>2, <2>3, <2>4, <2>5
<1>2. Course'
  BY DEF MemoryShape, DiskShape
<1>3. Reaped'
  BY DEF DiskShape, Reaped
<1>4. Few'
  BY StaysFew DEF Reaped
<1>5. Forgotten'
  BY DEF MemoryShape, DiskShape, Forgotten
<1>6. Granted'
  BY DEF MemoryShape, Granted
<1> QED
  BY <1>1, <1>2, <1>3, <1>4, <1>5, <1>6

LEMMA StartChildKeeps ==
  ASSUME LoopInv, StartChild
  PROVE  LoopInv'
<1> USE DEF LoopInv, Shapes, CallShape, Shape, Course
<1>a. PICK c \in Pids \ children :
        /\ children' = children \cup {c} /\ call' = [call EXCEPT !.child = c]
  <2>1. children \ {call.child} \subseteq Pids /\ call.child = 0
    BY DEF StartChild
  <2>2. children \ {call.child} = children
    BY <2>1, Numbers
  <2>3. Pids \ children # {}
    BY <2>2, FewPids, Numbers, Constants DEF Few
  <2>4. Lowest(Pids \ children) \in Pids \ children
    BY <2>3, LowestOf
  <2> QED
    BY <2>4 DEF StartChild
<1>b. /\ pc = "start" /\ pc' = "registering" /\ backend = "acp" /\ call.child = 0
     /\ UNCHANGED <<backend, crashes, me, disk, sessions, asked, allowed, answered, spent,
                    cut, unseen, store, report>>
  BY DEF StartChild
<1>1. Shapes'
  <2>1. MemoryShape'
    BY <1>a, <1>b DEF MemoryShape
  <2>2. CallShape'
    BY <1>a, <1>b
  <2>3. DiskShape'
    BY <1>a, <1>b DEF DiskShape
  <2>4. BoardShape'
    BY <1>a, <1>b DEF BoardShape
  <2>5. Shape'
    BY <1>a, <1>b
  <2> QED
    BY <2>1, <2>2, <2>3, <2>4, <2>5
<1>2. Course'
  BY <1>a, <1>b DEF MemoryShape, DiskShape
<1>3. Reaped'
  BY <1>a, <1>b DEF DiskShape, Reaped
<1>4. Few'
  BY StaysFew, <1>a, <1>b DEF Reaped
<1>5. Forgotten'
  BY <1>a, <1>b DEF MemoryShape, DiskShape, Forgotten
<1>6. Granted'
  BY <1>a, <1>b DEF MemoryShape, Granted
<1> QED
  BY <1>1, <1>2, <1>3, <1>4, <1>5, <1>6

LEMMA StartFailsKeeps ==
  ASSUME LoopInv, StartFails
  PROVE  LoopInv'
<1> USE DEF LoopInv, Shapes, CallShape, Shape, Course, StartFails, Ended, Idle
<1>1. Shapes'
  BY DEF MemoryShape, DiskShape, BoardShape
<1>2. Course'
  BY DEF MemoryShape, DiskShape
<1>3. Reaped'
  BY DEF DiskShape, Reaped
<1>4. Few'
  BY StaysFew DEF Reaped
<1>5. Forgotten'
  BY DEF MemoryShape, DiskShape, Forgotten
<1>6. Granted'
  BY DEF MemoryShape, Granted
<1> QED
  BY <1>1, <1>2, <1>3, <1>4, <1>5, <1>6

LEMMA RegisterKeeps ==
  ASSUME LoopInv, Register
  PROVE  LoopInv'
<1> USE DEF LoopInv, Shapes, CallShape, Shape, Course, Register
<1>1. Shapes'
  BY DEF MemoryShape, DiskShape, BoardShape
<1>2. Course'
  BY DEF MemoryShape, DiskShape
<1>3. Reaped'
  BY DEF DiskShape, Reaped
<1>4. Few'
  BY StaysFew DEF Reaped
<1>5. Forgotten'
  BY DEF MemoryShape, DiskShape, Forgotten
<1>6. Granted'
  BY DEF MemoryShape, Granted
<1> QED
  BY <1>1, <1>2, <1>3, <1>4, <1>5, <1>6

LEMMA RecordChildKeeps ==
  ASSUME LoopInv, RecordChild
  PROVE  LoopInv'
<1> USE DEF LoopInv, Shapes, CallShape, Shape, Course, RecordChild
<1>1. Shapes'
  BY DEF MemoryShape, DiskShape, BoardShape
<1>2. Course'
  BY DEF MemoryShape, DiskShape
<1>3. Reaped'
  BY DEF DiskShape, Reaped
<1>4. Few'
  BY StaysFew DEF Reaped
<1>5. Forgotten'
  BY DEF MemoryShape, DiskShape, Forgotten
<1>6. Granted'
  BY DEF MemoryShape, Granted
<1> QED
  BY <1>1, <1>2, <1>3, <1>4, <1>5, <1>6

LEMMA OpenKeeps ==
  ASSUME LoopInv, NEW s \in 1..(sessions + 1), Open(s)
  PROVE  LoopInv'
<1> USE DEF LoopInv, Shapes, CallShape, Shape, Course, Open, Resumable
<1>1. Shapes'
  <2>1. MemoryShape'
    BY DEF MemoryShape
  <2>2. CallShape'
    <3>1. PICK z \in 0..sessions' : call' = [call EXCEPT !.session = z]
      <4>1. sessions' \in Nat /\ sessions <= sessions' /\ s \in 0..sessions' /\ 0 \in 0..sessions'
        BY DEF MemoryShape, DiskShape
      <4> QED
        BY <4>1
    <3>2. asked' = asked /\ sessions \in Nat /\ sessions' \in Nat /\ sessions <= sessions'
      OBVIOUS
    <3> QED
      BY <3>1, <3>2
  <2>3. DiskShape'
    <3>1. sessions \in Nat /\ sessions' \in Nat /\ sessions <= sessions'
      OBVIOUS
    <3>2. CASE call.eph
      BY <3>1, <3>2 DEF DiskShape
    <3>3. CASE ~call.eph
      <4>1. disk' = [disk EXCEPT !.clean = FALSE]
        BY <3>3
      <4>2. disk \in [ran : BOOLEAN, clean : BOOLEAN, session : 0..sessions', child : Pids \cup {0}]
        BY <3>1 DEF DiskShape
      <4> QED
        BY <4>1, <4>2 DEF DiskShape
    <3> QED
      BY <3>2, <3>3
  <2>4. BoardShape'
    BY DEF BoardShape
  <2>5. Shape'
    OBVIOUS
  <2> QED
    BY <2>1, <2>2, <2>3, <2>4, <2>5
<1>2. Course'
  BY DEF MemoryShape, DiskShape
<1>3. Reaped'
  BY DEF DiskShape, Reaped
<1>4. Few'
  BY StaysFew DEF Reaped
<1>5. Forgotten'
  BY DEF MemoryShape, DiskShape, Forgotten
<1>6. Granted'
  BY DEF MemoryShape, Granted
<1> QED
  BY <1>1, <1>2, <1>3, <1>4, <1>5, <1>6

LEMMA OpenFailsKeeps ==
  ASSUME LoopInv, NEW r \in {"bad", "timeout"}, OpenFails(r)
  PROVE  LoopInv'
<1> USE DEF LoopInv, Shapes, CallShape, Shape, Course, OpenFails, Ended
<1>1. Shapes'
  BY DEF MemoryShape, DiskShape, BoardShape
<1>2. Course'
  BY DEF MemoryShape, DiskShape
<1>3. Reaped'
  BY DEF DiskShape, Reaped
<1>4. Few'
  BY StaysFew DEF Reaped
<1>5. Forgotten'
  BY DEF MemoryShape, DiskShape, Forgotten
<1>6. Granted'
  BY DEF MemoryShape, Granted
<1> QED
  BY <1>1, <1>2, <1>3, <1>4, <1>5, <1>6

LEMMA AskKeeps ==
  ASSUME LoopInv, Ask
  PROVE  LoopInv'
<1> USE DEF LoopInv, Shapes, CallShape, Shape, Course, Ask
<1>1. Shapes'
  BY DEF MemoryShape, DiskShape, BoardShape
<1>2. Course'
  BY DEF MemoryShape, DiskShape
<1>3. Reaped'
  BY DEF DiskShape, Reaped
<1>4. Few'
  BY StaysFew DEF Reaped
<1>5. Forgotten'
  BY DEF MemoryShape, DiskShape, Forgotten
<1>6. Granted'
  BY DEF MemoryShape, Granted
<1> QED
  BY <1>1, <1>2, <1>3, <1>4, <1>5, <1>6

LEMMA BridgeKeeps ==
  ASSUME LoopInv, Bridge
  PROVE  LoopInv'
<1> USE DEF LoopInv, Shapes, CallShape, Shape, Course, Bridge
<1>1. Shapes'
  <2>1. MemoryShape'
    BY DEF MemoryShape
  <2>2. CallShape'
    <3>1. PICK b \in BOOLEAN : call' = [call EXCEPT !.ask = 0, !.refused = b]
      OBVIOUS
    <3>2. 0 \in 0..asked /\ asked' = asked /\ sessions' = sessions
      OBVIOUS
    <3> QED
      BY <3>1, <3>2
  <2>3. DiskShape'
    BY DEF DiskShape
  <2>4. BoardShape'
    BY DEF BoardShape
  <2>5. Shape'
    OBVIOUS
  <2> QED
    BY <2>1, <2>2, <2>3, <2>4, <2>5
<1>2. Course'
  BY DEF MemoryShape, DiskShape
<1>3. Reaped'
  BY DEF DiskShape, Reaped
<1>4. Few'
  BY StaysFew DEF Reaped
<1>5. Forgotten'
  BY DEF MemoryShape, DiskShape, Forgotten
<1>6. Granted'
  BY DEF MemoryShape, Granted
<1> QED
  BY <1>1, <1>2, <1>3, <1>4, <1>5, <1>6

LEMMA BridgeTimesOutKeeps ==
  ASSUME LoopInv, BridgeTimesOut
  PROVE  LoopInv'
<1> USE DEF LoopInv, Shapes, CallShape, Shape, Course, BridgeTimesOut
<1>1. Shapes'
  <2>1. MemoryShape'
    BY DEF MemoryShape
  <2>2. CallShape'
    <3>1. 0 \in 0..asked /\ asked' = asked /\ sessions' = sessions
      OBVIOUS
    <3> QED
      BY <3>1
  <2>3. DiskShape'
    BY DEF DiskShape
  <2>4. BoardShape'
    BY DEF BoardShape
  <2>5. Shape'
    OBVIOUS
  <2> QED
    BY <2>1, <2>2, <2>3, <2>4, <2>5
<1>2. Course'
  BY DEF MemoryShape, DiskShape
<1>3. Reaped'
  BY DEF DiskShape, Reaped
<1>4. Few'
  BY StaysFew DEF Reaped
<1>5. Forgotten'
  BY DEF MemoryShape, DiskShape, Forgotten
<1>6. Granted'
  BY DEF MemoryShape, Granted
<1> QED
  BY <1>1, <1>2, <1>3, <1>4, <1>5, <1>6

LEMMA PromptEndsKeeps ==
  ASSUME LoopInv, NEW r \in Ends, PromptEnds(r)
  PROVE  LoopInv'
<1> USE DEF LoopInv, Shapes, CallShape, Shape, Course, PromptEnds, Ended
<1>1. Shapes'
  BY DEF MemoryShape, DiskShape, BoardShape
<1>2. Course'
  BY DEF MemoryShape, DiskShape
<1>3. Reaped'
  BY DEF DiskShape, Reaped
<1>4. Few'
  BY StaysFew DEF Reaped
<1>5. Forgotten'
  BY DEF MemoryShape, DiskShape, Forgotten
<1>6. Granted'
  BY DEF MemoryShape, Granted
<1> QED
  BY <1>1, <1>2, <1>3, <1>4, <1>5, <1>6

LEMMA PromptTimesOutKeeps ==
  ASSUME LoopInv, PromptTimesOut
  PROVE  LoopInv'
<1> USE DEF LoopInv, Shapes, CallShape, Shape, Course, PromptTimesOut, Ended
<1>1. Shapes'
  BY DEF MemoryShape, DiskShape, BoardShape
<1>2. Course'
  BY DEF MemoryShape, DiskShape
<1>3. Reaped'
  BY DEF DiskShape, Reaped
<1>4. Few'
  BY StaysFew DEF Reaped
<1>5. Forgotten'
  BY DEF MemoryShape, DiskShape, Forgotten
<1>6. Granted'
  BY DEF MemoryShape, Granted
<1> QED
  BY <1>1, <1>2, <1>3, <1>4, <1>5, <1>6

LEMMA CloseKeeps ==
  ASSUME LoopInv, Close
  PROVE  LoopInv'
<1> USE DEF LoopInv, Shapes, CallShape, Shape, Course, Close
<1>1. Shapes'
  BY DEF MemoryShape, DiskShape, BoardShape
<1>2. Course'
  BY DEF MemoryShape, DiskShape
<1>3. Reaped'
  BY DEF DiskShape, Reaped
<1>4. Few'
  BY StaysFew DEF Reaped
<1>5. Forgotten'
  BY DEF MemoryShape, DiskShape, Forgotten
<1>6. Granted'
  BY DEF MemoryShape, Granted
<1> QED
  BY <1>1, <1>2, <1>3, <1>4, <1>5, <1>6

LEMMA UnregisterKeeps ==
  ASSUME LoopInv, Unregister
  PROVE  LoopInv'
<1> USE DEF LoopInv, Shapes, CallShape, Shape, Course
<1>n. 0 \in 0..sessions /\ 0 \in 0..asked /\ 0 \notin spent
  BY Numbers
<1>a. /\ pc = "unregistering" /\ pc' = "result" /\ call' = [call EXCEPT !.reg = FALSE, !.child = 0]
     /\ UNCHANGED <<backend, crashes, me, children, store, report, sessions, asked, allowed,
                    answered, cut, unseen>>
  BY DEF Unregister
<1>b. PICK z \in {0, call.session, disk.session} :
        /\ disk' = [disk EXCEPT !.child = 0, !.session = z]
        /\ z # 0 => call.result \notin {"stopped", "stoppedBad"} \/ call.eph
        /\ z \in {0, disk.session} \/ call.result = "ok"
  BY DEF Unregister
<1>c. spent' = spent \/ /\ spent' = spent \cup {call.session}
                        /\ call.result = "stopped" /\ ~call.eph
  BY DEF Unregister
<1>1. Shapes'
  <2>1. MemoryShape'
    BY <1>a, <1>b, <1>n DEF MemoryShape
  <2>2. CallShape'
    BY <1>a, <1>b, <1>n
  <2>3. DiskShape'
    BY <1>a, <1>b, <1>n DEF DiskShape
  <2>4. BoardShape'
    BY <1>a, <1>b, <1>n DEF BoardShape
  <2>5. Shape'
    BY <1>a, <1>c
  <2> QED
    BY <2>1, <2>2, <2>3, <2>4, <2>5
<1>2. Course'
  BY <1>a, <1>b, <1>n DEF MemoryShape, DiskShape
<1>3. Reaped'
  BY <1>a, <1>b, <1>n DEF DiskShape, Reaped
<1>4. Few'
  BY StaysFew, <1>a, <1>b, <1>n DEF Reaped
<1>5. Forgotten'
  <2>1. disk.session \notin spent
    BY <1>a DEF Forgotten
  <2>2. /\ disk'.session = z /\ call'.session = call.session
        /\ call'.result = call.result /\ call'.eph = call.eph
    BY <1>a, <1>b DEF DiskShape
  <2>3. z \notin spent
    <3>1. CASE z \in {0, disk.session}
      BY <2>1, <3>1, <1>n
    <3>2. CASE z = call.session /\ call.result = "ok" 
      BY <1>a, <3>2 DEF Forgotten
    <3> QED
      BY <1>b, <3>1, <3>2
  <2>4. z \notin spent'
    <3>1. call.result = "stopped" /\ ~call.eph => z = 0 /\ call.session # 0
      BY <1>b
    <3> QED
      BY <1>c, <2>3, <3>1
  <2> QED
    BY <1>a, <1>c, <2>2, <2>4 DEF Forgotten
<1>6. Granted'
  BY <1>a, <1>b, <1>n DEF MemoryShape, Granted
<1> QED
  BY <1>1, <1>2, <1>3, <1>4, <1>5, <1>6

LEMMA RunHeadlessKeeps ==
  ASSUME LoopInv, NEW r \in {"ok", "bad", "timeout"}, NEW s \in 0..(sessions + 1), RunHeadless(r, s)
  PROVE  LoopInv'
<1> USE DEF LoopInv, Shapes, CallShape, Shape, Course, RunHeadless, Session
<1>1. Shapes'
  <2>1. MemoryShape'
    BY DEF MemoryShape
  <2>2. CallShape'
    <3>1. s \in 0..sessions' /\ asked' = asked
      BY DEF MemoryShape
    <3>2. sessions \in Nat /\ sessions' \in Nat /\ sessions <= sessions'
      OBVIOUS
    <3> QED
      BY <3>1, <3>2
  <2>3. DiskShape'
    BY DEF DiskShape
  <2>4. BoardShape'
    BY DEF BoardShape
  <2>5. Shape'
    <3>1. s \in 0..sessions' /\ sessions' \in Nat /\ sessions <= sessions'
      BY DEF MemoryShape
    <3> QED
      BY <3>1
  <2> QED
    BY <2>1, <2>2, <2>3, <2>4, <2>5
<1>2. Course'
  BY DEF MemoryShape, DiskShape
<1>3. Reaped'
  BY DEF DiskShape, Reaped
<1>4. Few'
  BY StaysFew DEF Reaped
<1>5. Forgotten'
  BY DEF MemoryShape, DiskShape, Forgotten
<1>6. Granted'
  BY DEF MemoryShape, Granted
<1> QED
  BY <1>1, <1>2, <1>3, <1>4, <1>5, <1>6

LEMMA RaisesKeeps ==
  ASSUME LoopInv, Raises
  PROVE  LoopInv'
<1> USE DEF LoopInv, Shapes, CallShape, Shape, Course, Raises, Idle, Memory
<1>1. CASE Gemini /\ call.for \in Tasks
  <2>1. pc = "start" /\ pc' = "down" /\ me' = Memory /\ call' = Idle
    BY <1>1
  <2>2. Shapes'
    <3>1. MemoryShape'
      BY <2>1, Constants DEF MemoryShape
    <3>2. CallShape'
      BY <2>1, Constants
    <3>3. DiskShape'
      BY <2>1, Constants DEF DiskShape
    <3>4. BoardShape'
      BY <2>1, Constants DEF BoardShape
    <3>5. Shape'
      BY <2>1, Constants
    <3> QED
      BY <3>1, <3>2, <3>3, <3>4, <3>5
  <2>3. Course'
    BY <2>1, Constants DEF MemoryShape, DiskShape
  <2>4. Reaped'
    BY <2>1, Constants DEF DiskShape, Reaped
  <2>5. Few'
    BY StaysFew, <2>1, Constants DEF Reaped
  <2>6. Forgotten'
    BY <2>1, Constants DEF MemoryShape, DiskShape, Forgotten
  <2>7. Granted'
    BY <2>1, Constants DEF MemoryShape, Granted
  <2> QED
    BY <2>2, <2>3, <2>4, <2>5, <2>6, <2>7
<1>2. CASE ~(Gemini /\ call.for \in Tasks)
  <2>1. pc = "start" /\ pc' = "result" /\ me' = me /\ call' = [call EXCEPT !.result = "raised"]
    BY <1>2
  <2>2. Shapes'
    <3>1. MemoryShape'
      BY <2>1 DEF MemoryShape
    <3>2. CallShape'
      BY <2>1
    <3>3. DiskShape'
      BY <2>1 DEF DiskShape
    <3>4. BoardShape'
      BY <2>1 DEF BoardShape
    <3>5. Shape'
      BY <2>1
    <3> QED
      BY <3>1, <3>2, <3>3, <3>4, <3>5
  <2>3. Course'
    BY <2>1 DEF MemoryShape, DiskShape
  <2>4. Reaped'
    BY <2>1 DEF DiskShape, Reaped
  <2>5. Few'
    BY StaysFew, <2>1 DEF Reaped
  <2>6. Forgotten'
    BY <2>1 DEF MemoryShape, DiskShape, Forgotten
  <2>7. Granted'
    BY <2>1 DEF MemoryShape, Granted
  <2> QED
    BY <2>2, <2>3, <2>4, <2>5, <2>6, <2>7
<1> QED
  BY <1>1, <1>2

LEMMA ProseDoneKeeps ==
  ASSUME LoopInv, ProseDone
  PROVE  LoopInv'
<1> USE DEF LoopInv, Shapes, CallShape, Shape, Course, ProseDone, Back, Idle
<1>1. Shapes'
  BY Constants DEF MemoryShape, DiskShape, BoardShape
<1>2. Course'
  BY Constants DEF MemoryShape, DiskShape
<1>3. Reaped'
  BY Constants DEF DiskShape, Reaped
<1>4. Few'
  BY StaysFew, Constants DEF Reaped
<1>5. Forgotten'
  BY Constants DEF MemoryShape, DiskShape, Forgotten
<1>6. Granted'
  BY Constants DEF MemoryShape, Granted
<1> QED
  BY <1>1, <1>2, <1>3, <1>4, <1>5, <1>6

LEMMA PlanDoneKeeps ==
  ASSUME LoopInv, PlanDone
  PROVE  LoopInv'
<1> USE DEF LoopInv, Shapes, CallShape, Shape, Course, PlanDone, Idle
<1>1. CASE call.result # "ok" /\ me.attempt = 1
  <2>1. /\ pc = "result" /\ pc' = "start" /\ call' = [Idle EXCEPT !.for = Plan, !.eph = TRUE]
        /\ me' = [me EXCEPT !.attempt = 2] /\ report' = report
    BY <1>1 DEF Turn
  <2>2. Shapes'
    <3>1. MemoryShape'
      BY <2>1, Constants, Numbers DEF MemoryShape
    <3>2. CallShape'
      BY <2>1, Constants, Numbers
    <3>3. DiskShape'
      BY <2>1, Constants, Numbers DEF DiskShape
    <3>4. BoardShape'
      BY <2>1, Constants, Numbers DEF BoardShape
    <3>5. Shape'
      BY <2>1, Constants, Numbers
    <3> QED
      BY <3>1, <3>2, <3>3, <3>4, <3>5
  <2>3. Course'
    BY <2>1, Constants, Numbers DEF MemoryShape, DiskShape
  <2>4. Reaped'
    BY <2>1, Constants, Numbers DEF DiskShape, Reaped
  <2>5. Few'
    BY StaysFew, <2>1, Constants, Numbers DEF Reaped
  <2>6. Forgotten'
    BY <2>1, Constants, Numbers DEF MemoryShape, DiskShape, Forgotten
  <2>7. Granted'
    BY <2>1, Constants, Numbers DEF MemoryShape, Granted
  <2> QED
    BY <2>2, <2>3, <2>4, <2>5, <2>6, <2>7
<1>2. CASE ~(call.result # "ok" /\ me.attempt = 1)
  <2>1. /\ pc = "result" /\ pc' = "handle" /\ call' = Idle /\ me' = [me EXCEPT !.task = 0]
        /\ report' = report \/ report' = [report EXCEPT ![me.task] = "blocked"]
    BY <1>2 DEF Back, MarkBlocked
  <2>2. Shapes'
    <3>1. MemoryShape'
      BY <2>1, Constants DEF MemoryShape
    <3>2. CallShape'
      BY <2>1, Constants
    <3>3. DiskShape'
      BY <2>1, Constants DEF DiskShape
    <3>4. BoardShape'
      BY <2>1, Constants DEF BoardShape
    <3>5. Shape'
      BY <2>1, Constants
    <3> QED
      BY <3>1, <3>2, <3>3, <3>4, <3>5
  <2>3. Course'
    BY <2>1, Constants DEF MemoryShape, DiskShape
  <2>4. Reaped'
    BY <2>1, Constants DEF DiskShape, Reaped
  <2>5. Few'
    BY StaysFew, <2>1, Constants DEF Reaped
  <2>6. Forgotten'
    BY <2>1, Constants DEF MemoryShape, DiskShape, Forgotten
  <2>7. Granted'
    BY <2>1, Constants DEF MemoryShape, Granted
  <2> QED
    BY <2>2, <2>3, <2>4, <2>5, <2>6, <2>7
<1> QED
  BY <1>1, <1>2

LEMMA TaskDoneKeeps ==
  ASSUME LoopInv, TaskDone
  PROVE  LoopInv'
<1> USE DEF LoopInv, Shapes, CallShape, Shape, Course, Idle
<1>n. 0 \in 0..sessions /\ 0 \in 0..asked /\ 0 \notin spent
  BY Numbers
<1>a. /\ pc = "result" /\ pc' = "handle" /\ call' = Idle /\ call.result = "ok" /\ call.for \in Tasks
     /\ \E s \in {me.session, call.session} : me' = [me EXCEPT !.session = s, !.task = 0]
     /\ \/ UNCHANGED <<store, report>>
        \/ /\ store' = [store EXCEPT ![call.for] = "completed"]
           /\ report' = [report EXCEPT ![call.for] = "completed"]
     /\ UNCHANGED <<backend, crashes, disk, children, sessions, asked, allowed, answered,
                    spent, cut, unseen>>
  BY DEF TaskDone, Back, Caught
<1>b. PICK s \in {me.session, call.session} : me' = [me EXCEPT !.session = s, !.task = 0]
  BY <1>a
<1>1. Shapes'
  <2>1. MemoryShape'
    BY <1>a, <1>b, <1>n, Constants DEF MemoryShape
  <2>2. CallShape'
    BY <1>a, <1>b, <1>n, Constants
  <2>3. DiskShape'
    BY <1>a, <1>b, <1>n, Constants DEF DiskShape
  <2>4. BoardShape'
    BY <1>a, <1>b, <1>n, Constants DEF BoardShape
  <2>5. Shape'
    BY <1>a, <1>b, <1>n, Constants
  <2> QED
    BY <2>1, <2>2, <2>3, <2>4, <2>5
<1>2. Course'
  BY <1>a, <1>b, <1>n, Constants DEF MemoryShape, DiskShape
<1>3. Reaped'
  BY <1>a, <1>b, <1>n, Constants DEF DiskShape, Reaped
<1>4. Few'
  BY StaysFew, <1>a, <1>b, <1>n, Constants DEF Reaped
<1>5. Forgotten'
  BY <1>a, <1>b, <1>n, Constants DEF MemoryShape, DiskShape, Forgotten
<1>6. Granted'
  BY <1>a, <1>b, <1>n, Constants DEF MemoryShape, Granted
<1> QED
  BY <1>1, <1>2, <1>3, <1>4, <1>5, <1>6

LEMMA TaskRetryKeeps ==
  ASSUME LoopInv, TaskRetry
  PROVE  LoopInv'
<1> USE DEF LoopInv, Shapes, CallShape, Shape, Course, Idle
<1>n. 0 \in 0..sessions /\ 0 \in 0..asked /\ 0 \notin spent
  BY Numbers
<1>a. /\ pc = "result" /\ pc' = "start" /\ call' = [Idle EXCEPT !.for = call.for, !.eph = FALSE]
     /\ \E s \in {me.session, call.session} : me' = [me EXCEPT !.attempt = 2, !.session = s]
     /\ call.for \in Tasks /\ ~Dropped
     /\ UNCHANGED <<backend, crashes, disk, children, sessions, asked, allowed, answered,
                    spent, cut, unseen, store, report>>
  BY DEF TaskRetry, Turn, Caught
<1>b. PICK s \in {me.session, call.session} : me' = [me EXCEPT !.attempt = 2, !.session = s]
  BY <1>a
<1>c. ~Gemini \/ call.result \notin {"timeout", "stopped", "refused"}
  BY <1>a DEF Dropped
<1>1. Shapes'
  <2>1. MemoryShape'
    BY <1>a, <1>b, <1>n, Constants DEF MemoryShape
  <2>2. CallShape'
    BY <1>a, <1>b, <1>n, Constants
  <2>3. DiskShape'
    BY <1>a, <1>b, <1>n, Constants DEF DiskShape
  <2>4. BoardShape'
    BY <1>a, <1>b, <1>n, Constants DEF BoardShape
  <2>5. Shape'
    BY <1>a, <1>b, <1>n, Constants
  <2> QED
    BY <2>1, <2>2, <2>3, <2>4, <2>5
<1>2. Course'
  BY <1>a, <1>b, <1>n, Constants DEF MemoryShape, DiskShape
<1>3. Reaped'
  BY <1>a, <1>b, <1>n, Constants DEF DiskShape, Reaped
<1>4. Few'
  BY StaysFew, <1>a, <1>b, <1>n, Constants DEF Reaped
<1>5. Forgotten'
  <2>1. Gemini => {me.session, call.session} \cap spent = {}
    BY <1>a, <1>c DEF Forgotten
  <2>2. (Gemini => s \notin spent) /\ call'.session = 0 /\ me'.session = s
    BY <1>a, <1>b, <2>1 DEF MemoryShape
  <2> QED
    BY <1>a, <2>1, <2>2, <1>n DEF Forgotten
<1>6. Granted'
  <2>1. me.asks \subseteq allowed
    BY <1>a, <1>c, Constants DEF Granted, Gemini
  <2> QED
    BY <1>a, <1>b, <2>1 DEF MemoryShape, Granted
<1> QED
  BY <1>1, <1>2, <1>3, <1>4, <1>5, <1>6

LEMMA TaskGivenUpKeeps ==
  ASSUME LoopInv, TaskGivenUp
  PROVE  LoopInv'
<1> USE DEF LoopInv, Shapes, CallShape, Shape, Course, Idle
<1>n. 0 \in 0..sessions /\ 0 \in 0..asked /\ 0 \notin spent
  BY Numbers
<1>a. /\ pc = "result" /\ pc' = "handle" /\ call' = Idle /\ call.for \in Tasks
     /\ UNCHANGED <<backend, crashes, disk, children, sessions, asked, allowed, answered,
                    spent, cut, unseen>>
  BY DEF TaskGivenUp, Back
<1>b. PICK s \in {0, me.session, call.session} :
        /\ me' = [me EXCEPT !.task = 0, !.session = s]
        /\ ~(Gemini /\ call.result \in {"timeout", "stopped", "refused"} /\ s # 0)
  BY DEF TaskGivenUp, Back, Caught, Dropped
<1>1. Shapes'
  <2>1. MemoryShape'
    BY <1>a, <1>b, <1>n, Constants DEF MemoryShape
  <2>2. CallShape'
    BY <1>a, <1>b, <1>n, Constants
  <2>3. DiskShape'
    BY <1>a, <1>b, <1>n, Constants DEF DiskShape
  <2>4. BoardShape'
    BY DEF TaskGivenUp, MarkBlocked, BoardShape
  <2>5. Shape'
    BY <1>a, <1>b, <1>n, Constants
  <2> QED
    BY <2>1, <2>2, <2>3, <2>4, <2>5
<1>2. Course'
  BY <1>a, <1>b, <1>n, Constants DEF MemoryShape, DiskShape
<1>3. Reaped'
  BY <1>a, <1>b, <1>n, Constants DEF DiskShape, Reaped
<1>4. Few'
  BY StaysFew, <1>a, <1>b, <1>n, Constants DEF Reaped
<1>5. Forgotten'
  <2>1. Gemini => s \notin spent
    BY <1>a, <1>b, <1>n DEF Forgotten
  <2>2. call'.session = 0 /\ me'.session = s
    BY <1>a, <1>b DEF MemoryShape
  <2> QED
    BY <1>a, <2>1, <2>2, <1>n DEF Forgotten
<1>6. Granted'
  BY <1>a, <1>b, <1>n, Constants DEF MemoryShape, Granted
<1> QED
  BY <1>1, <1>2, <1>3, <1>4, <1>5, <1>6

LEMMA LoopInit == Init => LoopInv
<1> SUFFICES ASSUME Init PROVE LoopInv
  OBVIOUS
<1> USE DEF Init, Idle, Memory
<1>1. MemoryShape /\ CallShape
  BY DEF MemoryShape, CallShape
<1>2. DiskShape /\ BoardShape
  BY DEF DiskShape, BoardShape
<1>3. Shape
  BY Constants DEF Shape
<1>4. Course
  BY Constants DEF Course
<1>5. Reaped
  BY DEF Reaped
<1>6. Few
  <2>1. children \ {call.child} = {}
    OBVIOUS
  <2>2. Cardinality(children \ {call.child}) = 0
    BY <2>1, FS_EmptySet
  <2> QED
    BY <2>2 DEF Few
<1>7. Forgotten /\ Granted
  BY DEF Forgotten, Granted
<1> QED
  BY <1>1, <1>2, <1>3, <1>4, <1>5, <1>6, <1>7 DEF LoopInv, Shapes

LEMMA LoopStutters ==
  ASSUME LoopInv, UNCHANGED vars
  PROVE  LoopInv'
<1>1. /\ UNCHANGED <<backend, pc, me, call, disk, children, board, lead, past>>
      /\ UNCHANGED <<crashes, sessions>>
  BY DEF vars
<1>2. Shapes'
  BY <1>1 DEF LoopInv, Shapes, MemoryShape, CallShape, DiskShape, BoardShape, Shape
<1>3. Course' /\ Reaped'
  BY <1>1 DEF LoopInv, Course, Reaped
<1>4. Few' /\ Forgotten' /\ Granted'
  BY <1>1 DEF LoopInv, Few, Forgotten, Granted
<1> QED
  BY <1>2, <1>3, <1>4 DEF LoopInv

LEMMA LoopStep == LoopInv /\ [Next]_vars => LoopInv'
<1> SUFFICES ASSUME LoopInv, [Next]_vars PROVE LoopInv'
  OBVIOUS
<1>1. CASE UNCHANGED vars
  BY <1>1, LoopStutters
<1>2. CASE Adapter
  <2>1. CASE \/ Exit \/ Drain \/ HandleProse \/ HandleSteer \/ HandleDecision
             \/ HandleShutdown \/ HandlePlan \/ PlanIgnored \/ Claim \/ Wait
    BY <2>1, ExitKeeps, DrainKeeps, HandleProseKeeps, HandleSteerKeeps, HandleDecisionKeeps,
       HandleShutdownKeeps, HandlePlanKeeps, PlanIgnoredKeeps, ClaimKeeps, WaitKeeps
  <2>2. CASE \/ StartChild \/ StartFails \/ Register \/ RecordChild
             \/ \E s \in 1..(sessions + 1) : Open(s)
             \/ \E r \in {"bad", "timeout"} : OpenFails(r)
    BY <2>2, StartChildKeeps, StartFailsKeeps, RegisterKeeps, RecordChildKeeps, OpenKeeps,
       OpenFailsKeeps
  <2>3. CASE Bridge \/ BridgeTimesOut \/ PromptTimesOut \/ Close \/ Unregister
    BY <2>3, BridgeKeeps, BridgeTimesOutKeeps, PromptTimesOutKeeps, CloseKeeps, UnregisterKeeps
  <2>4. CASE \E r \in {"ok", "bad", "timeout"}, s \in 0..(sessions + 1) : RunHeadless(r, s)
    BY <2>4, RunHeadlessKeeps
  <2>5. CASE Raises \/ ProseDone \/ PlanDone \/ TaskDone \/ TaskRetry \/ TaskGivenUp
    BY <2>5, RaisesKeeps, ProseDoneKeeps, PlanDoneKeeps, TaskDoneKeeps, TaskRetryKeeps,
       TaskGivenUpKeeps
  <2> QED
    BY <1>2, <2>1, <2>2, <2>3, <2>4, <2>5 DEF Adapter
<1>3. CASE Environment
  <2>0. CASE \E taken, renamed \in BOOLEAN, view \in [children -> Views],
                stubborn \in SUBSET children : Recover(taken, renamed, view, stubborn)
    BY <2>0, RecoverKeeps
  <2>1. CASE PreflightFails \/ MarkStart \/ Crash \/ Signal \/ Ask
    BY <2>1, PreflightFailsKeeps, MarkStartKeeps, CrashKeeps, SignalKeeps, AskKeeps
  <2>2. CASE \E m : Send(m)
    BY <2>2, SendKeeps
  <2>3. CASE \E id \in 1..asked, ok \in BOOLEAN : Decide(id, ok)
    BY <2>3, DecideKeeps
  <2>4. CASE \E t \in Tasks, s \in {"completed", "deleted"} : LeadEnds(t, s)
    BY <2>4, LeadEndsKeeps
  <2>5. CASE \E r \in Ends : PromptEnds(r)
    BY <2>5, PromptEndsKeeps
  <2> QED
    BY <1>3, <2>0, <2>1, <2>2, <2>3, <2>4, <2>5 DEF Environment
<1> QED
  BY <1>1, <1>2, <1>3 DEF Next

LEMMA LoopAlways == Spec => []LoopInv
BY LoopInit, LoopStep, PTL DEF Spec

-----------------------------------------------------------------------------
(* What the invariant is for. *)

(* Every variable of an adapter keeps to its type, and no turn or record      *)
(* names a child or a session that was never started (main_loop,              *)
(* run_startup_recovery).                                                     *)
THEOREM LoopTypes == Spec => []TypeOK
<1>1. LoopInv => TypeOK
  <2> SUFFICES ASSUME LoopInv PROVE TypeOK
    OBVIOUS
  <2>1. disk.child \in Pids \cup {0} /\ disk.session \in 0..sessions
    BY DEF LoopInv, Shapes, DiskShape
  <2>2. /\ call.for \in {NoTurn, Prose, Plan} \cup Tasks /\ call.child \in Pids \cup {0}
        /\ call.session \in 0..sessions
    BY DEF LoopInv, Shapes, CallShape
  <2>3. me.session \in 0..sessions
    BY DEF LoopInv, Shapes, MemoryShape
  <2>4. unseen \subseteq children
    BY DEF LoopInv, Reaped
  <2> QED
    BY <2>1, <2>2, <2>3, <2>4 DEF LoopInv, Shapes, Shape, BoardShape, TypeOK
<1> QED
  BY <1>1, LoopAlways, PTL

(* While an adapter runs, no ACP process of its home lives but the one of its *)
(* own invocation and those its start could not tell, could not kill or did   *)
(* not look for: whatever was killed, and whenever, the next start that takes *)
(* the former adapter for dead reaped it before it went on                    *)
(* (run_startup_recovery, reap_orphan_acp_processes).                         *)
THEOREM NoOrphansStay == Spec => []NoOrphans
<1>1. LoopInv => NoOrphans
  BY DEF LoopInv, Reaped, NoOrphans
<1> QED
  BY <1>1, LoopAlways, PTL

(* No Gemini session that timed out, was refused, came back cancelled or was  *)
(* cut by a crash the next start looked into is in the loop's memory or on    *)
(* its disk when a next turn begins (_should_drop_session_after_failure,      *)
(* reset_acp_adapter_state, run_startup_recovery).                            *)
THEOREM SpentStaysForgotten == Spec => []SpentIsForgotten
<1>1. LoopInv => SpentIsForgotten
  <2> SUFFICES ASSUME LoopInv, Gemini, pc \in {"top", "handle", "start"}
               PROVE  {me.session, disk.session} \cap spent = {}
    BY DEF SpentIsForgotten
  <2>1. {me.session, call.session} \cap spent = {} /\ disk.session \notin spent
    BY DEF LoopInv, Forgotten
  <2> QED
    BY <2>1
<1> QED
  BY <1>1, LoopAlways, PTL

LEMMA OnlyDoneReports ==
  ASSUME LoopInv, [Next]_vars, NEW t \in Tasks, report[t] # "completed", report'[t] = "completed"
  PROVE  TaskDone
<1>1. report \in [Tasks -> {"none", "completed", "blocked"}]
  BY DEF LoopInv, Shapes, BoardShape
<1>2. report' # report
  OBVIOUS
<1>3. \A u : MarkBlocked(u) => report'[t] # "completed"
  BY <1>1 DEF MarkBlocked
<1>4. ~PlanDone /\ ~TaskGivenUp
  BY <1>2, <1>3 DEF PlanDone, TaskGivenUp
<1>5. Next
  BY <1>2 DEF vars
<1>6. ~Environment
  <2>0. \A taken, renamed, view, stubborn :
          Recover(taken, renamed, view, stubborn) => report' = report
    BY DEF Recover
  <2>1. PreflightFails \/ MarkStart \/ Crash \/ Signal \/ Ask => report' = report
    BY DEF PreflightFails, MarkStart, Crash, Signal, Ask
  <2>2. \A m : Send(m) => report' = report
    BY DEF Send
  <2>3. \A id, ok : Decide(id, ok) => report' = report
    BY DEF Decide
  <2>4. \A u, s : LeadEnds(u, s) => report' = report
    BY DEF LeadEnds
  <2>5. \A r : PromptEnds(r) => report' = report
    BY DEF PromptEnds
  <2> QED
    BY <1>2, <2>0, <2>1, <2>2, <2>3, <2>4, <2>5 DEF Environment
<1>7. Adapter
  BY <1>5, <1>6 DEF Next
<1>8. \/ StartChild \/ StartFails \/ Register \/ RecordChild
      \/ \E s \in 1..(sessions + 1) : Open(s)
      \/ \E r \in {"bad", "timeout"} : OpenFails(r)
      \/ Bridge \/ BridgeTimesOut \/ PromptTimesOut \/ Close \/ Unregister
      \/ \E r \in {"ok", "bad", "timeout"}, s \in 0..(sessions + 1) : RunHeadless(r, s)
      \/ Raises
      => report' = report
  BY DEF StartChild, StartFails, Register, RecordChild, Open, OpenFails, Bridge,
         BridgeTimesOut, PromptTimesOut, Close, Unregister, RunHeadless, Raises
<1>9. \/ Exit \/ Drain \/ HandleProse \/ HandleSteer \/ HandleDecision \/ HandleShutdown
      \/ HandlePlan \/ PlanIgnored \/ Claim \/ Wait \/ ProseDone \/ TaskRetry
      => report' = report
  BY DEF Exit, Drain, HandleProse, HandleSteer, HandleDecision, HandleShutdown, HandlePlan,
         PlanIgnored, Claim, Wait, ProseDone, TaskRetry
<1> QED
  BY <1>2, <1>4, <1>7, <1>8, <1>9 DEF Adapter

(* The adapter reports a task complete only in a state in which the lead has  *)
(* granted every permission that was asked for in the turns of that task      *)
(* (handle_server_request, _permission_block_result).                         *)
THEOREM GrantedWorkOnly == Spec => OnlyGrantedWorkCompletes
<1>1. LoopInv /\ [Next]_vars =>
        [\A t \in Tasks : report[t] # "completed" /\ report'[t] = "completed"
           => me.asks \subseteq allowed]_vars
  <2> SUFFICES ASSUME LoopInv, [Next]_vars, NEW t \in Tasks,
                      report[t] # "completed", report'[t] = "completed"
               PROVE  me.asks \subseteq allowed
    OBVIOUS
  <2>1. pc = "result" /\ call.for \in Tasks /\ call.result = "ok"
    BY OnlyDoneReports DEF TaskDone
  <2> QED
    BY <2>1 DEF LoopInv, Course, Granted
<1> QED
  BY <1>1, LoopAlways, PTL DEF Spec, OnlyGrantedWorkCompletes
=============================================================================
