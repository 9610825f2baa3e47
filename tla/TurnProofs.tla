----------------------------- MODULE TurnProofs -----------------------------
(* Theorems about Turn, for any tools, watchdogs and bounds.                *)
EXTENDS Turn, TLAPS

-----------------------------------------------------------------------------
(* Types. *)

\* The constants are numbers.
LEMMA Numbers ==
  /\ Window \in Nat /\ Deadline \in Nat /\ ReqTimeout \in Nat
  /\ MaxWals \in Nat /\ MaxSteers \in Nat /\ MaxRetries \in Nat
  /\ Warns \subseteq Nat /\ Stops \subseteq Nat
  BY TurnAssumption

\* Where the clock may be after a step that costs something.
LEMMA Later ==
  ASSUME TypeOK, Request \/ \E c \in {0, 1} : Cost(c)
  PROVE  now' \in Nat /\ now' >= now
<1>1. now \in Nat /\ ReqTimeout \in Nat
  BY Numbers DEF TypeOK, BookOK
<1>2. CASE Request
  <2>1. PICK cost \in {0, ReqTimeout} : now' = now + cost
    BY <1>2 DEF Request
  <2> QED
    BY <1>1, <2>1
<1>3. ASSUME NEW c \in {0, 1}, Cost(c) PROVE now' \in Nat /\ now' >= now
  <2>1. now' = now + c \/ now' = now + 0
    BY <1>3 DEF Cost
  <2> QED
    BY <1>1, <2>1
<1> QED
  BY <1>2, <1>3

\* What a step leaves alone keeps its type, also when time passes.
LEMMA Untouched ==
  ASSUME TypeOK
  PROVE  /\ UNCHANGED <<pc, exit, tries, wals, gate>> => CourseOK'
         /\ UNCHANGED server => ServerOK'
         /\ UNCHANGED <<queue, turn, answer>> => IoOK'
         /\ UNCHANGED book /\ now' \in Nat /\ now' >= now => BookOK'
         /\ UNCHANGED <<exec, settings>> => ExecOK'
         /\ UNCHANGED <<steers, used>> => UsedOK'
<1>1. UNCHANGED <<pc, exit, tries, wals, gate>> => CourseOK'
  BY DEF TypeOK, CourseOK
<1>2. UNCHANGED server => ServerOK'
  BY DEF TypeOK, ServerOK, server
<1>3. UNCHANGED <<queue, turn, answer>> => IoOK'
  BY DEF TypeOK, IoOK
<1>4. UNCHANGED book /\ now' \in Nat /\ now' >= now => BookOK'
  BY DEF TypeOK, BookOK, book
<1>5. UNCHANGED <<exec, settings>> => ExecOK'
  BY DEF TypeOK, ExecOK, exec
<1>6. UNCHANGED <<steers, used>> => UsedOK'
  BY DEF TypeOK, UsedOK
<1> QED
  BY <1>1, <1>2, <1>3, <1>4, <1>5, <1>6

\* The clock stands still.
LEMMA Still ==
  ASSUME TypeOK, UNCHANGED now
  PROVE  now' \in Nat /\ now' >= now
  BY DEF TypeOK, BookOK

\* A step of the adapter's thread to another place.
LEMMA Goes ==
  ASSUME TypeOK, \E p \in {"wrapper", "begin", "preflight", "gate", "start", "open", "turn", "top",
                           "steer", "hook", "get", "quiet", "resume", "exec"} : Goto(p)
                 \/ \E e \in {"ok", "error", "timeout", "raised"} : Fail(e) \/ (pc' = "ended" /\ exit' = e),
         tries' \in 0..MaxRetries, wals' \in 0..MaxWals, gate' \in BOOLEAN
  PROVE  CourseOK'
  BY DEF TypeOK, CourseOK, Goto, Fail

LEMMA TypesInit == Init => TypeOK
<1> SUFFICES ASSUME Init PROVE TypeOK
  OBVIOUS
<1>1. 0 \in 0..MaxRetries /\ 0 \in 0..MaxSteers /\ 0 \in 0..MaxWals /\ -1 \in -1..0
  BY Numbers
<1>2. CourseOK
  BY <1>1 DEF Init, CourseOK
<1>3. ServerOK /\ IoOK
  <2>1. children = 0 /\ reading = FALSE /\ state \in [Turns -> {"none"}]
    BY DEF Init
  <2>2. state \in [Turns -> {"none", "running", "completed", "failed", "cut"}]
    BY <2>1
  <2>3. IoOK
    BY DEF Init, IoOK
  <2>4. 0 \in Nat /\ FALSE \in BOOLEAN
    OBVIOUS
  <2> QED
    BY <2>1, <2>2, <2>3, <2>4 DEF ServerOK
<1>4. BookOK
  <2>1. now = 0 /\ progress = 0 /\ warnedAt = -1 /\ fails = <<>> /\ reported = {}
        /\ stopped = FALSE /\ recovered = FALSE
    BY DEF Init, Never
  <2>2. 0 \in Nat /\ 0 \in 0..0 /\ <<>> \in Seq(Failure) /\ {} \subseteq Tools
    OBVIOUS
  <2>3. warnedAt \in -1..now
    BY <2>1
  <2> QED
    BY <2>1, <2>2, <2>3 DEF BookOK
<1>5. ExecOK
  BY DEF Init, ExecOK
<1>6. UsedOK
  BY <1>1 DEF Init, UsedOK
<1> QED
  BY <1>2, <1>3, <1>4, <1>5, <1>6 DEF TypeOK

\* Up to the start.
LEMMA TypesLaunch ==
  ASSUME TypeOK,
         \/ FeatureTest \/ ProbeWrapper \/ Inspect \/ CheckpointWals \/ PreSpawn \/ Gate
  PROVE  TypeOK'
<1>1. now' \in Nat /\ now' >= now
  BY Still, Later DEF FeatureTest, ProbeWrapper, Inspect, CheckpointWals, PreSpawn, Gate, Checkpoint
<1>2. tries \in 0..MaxRetries /\ wals \in 0..MaxWals /\ gate \in BOOLEAN /\ MaxWals \in Nat
  BY Numbers DEF TypeOK, CourseOK
<1>3. tries' \in 0..MaxRetries /\ wals' \in 0..MaxWals /\ gate' \in BOOLEAN
  <2>1. CASE CheckpointWals
    <3>1. wals' = wals - 1 \/ wals' = 0
      BY <2>1 DEF CheckpointWals
    <3> QED
      BY <1>2, <2>1, <3>1 DEF CheckpointWals
  <2> QED
    BY <1>2, <2>1 DEF FeatureTest, ProbeWrapper, Inspect, PreSpawn, Gate, rest
<1>4. CourseOK'
  BY <1>3, Goes DEF FeatureTest, ProbeWrapper, Inspect, CheckpointWals, PreSpawn, Gate
<1>5. UNCHANGED <<server, io, book, exec, settings, used>>
  BY DEF FeatureTest, ProbeWrapper, Inspect, CheckpointWals, PreSpawn, Gate, rest
<1> QED
  BY <1>1, <1>4, <1>5, Untouched DEF TypeOK, io

\* The start, and the recovery's.
LEMMA TypesStart ==
  ASSUME TypeOK, NoBinary \/ Initialize \/ InitializeTimesOut \/ Restart \/ Thread \/ OpenTurn
  PROVE  TypeOK'
<1>1. now' \in Nat /\ now' >= now
  BY Still, Later DEF NoBinary, Initialize, InitializeTimesOut, Restart, Thread, OpenTurn
<1>2. tries \in 0..MaxRetries /\ wals \in 0..MaxWals /\ gate \in BOOLEAN /\ MaxRetries \in Nat
      /\ children \in Nat
  BY Numbers DEF TypeOK, CourseOK, ServerOK
<1>3. tries' \in 0..MaxRetries /\ wals' \in 0..MaxWals /\ gate' \in BOOLEAN
  <2>1. tries' \in {tries, 0} \/ (tries < MaxRetries /\ tries' = tries + 1)
    BY DEF NoBinary, Initialize, InitializeTimesOut, Restart, Thread, OpenTurn
  <2>2. wals' = wals /\ gate' \in {gate, FALSE}
    BY DEF NoBinary, Initialize, InitializeTimesOut, Restart, Thread, OpenTurn, Launched, rest
  <2>3. tries' \in 0..MaxRetries
    BY <1>2, <2>1
  <2> QED
    BY <1>2, <2>2, <2>3
<1>4. CourseOK'
  BY <1>3, Goes DEF NoBinary, Initialize, InitializeTimesOut, Restart, Thread, OpenTurn,
                    ThreadStart, ThreadFork
<1>5. ServerOK'
  <2>1. children' \in Nat /\ reading' \in BOOLEAN
    <3>1. children' \in {children, children + 1} /\ reading' \in {reading, TRUE}
      BY DEF NoBinary, Initialize, InitializeTimesOut, Restart, Thread, OpenTurn, Spawned, server
    <3>2. children' \in Nat
      BY <1>2, <3>1
    <3>3. reading' \in BOOLEAN
      BY <3>1 DEF TypeOK, ServerOK
    <3> QED
      BY <3>2, <3>3
  <2>2. state' = state \/ state' = [state EXCEPT ![1] = "running"]
    BY DEF NoBinary, Initialize, InitializeTimesOut, Restart, Thread, OpenTurn, server
  <2> QED
    BY <2>1, <2>2 DEF TypeOK, ServerOK
<1>6. IoOK'
  <2>1. queue' = queue /\ turn' \in {turn, 1} /\ answer' = answer
    BY DEF NoBinary, Initialize, InitializeTimesOut, Restart, Thread, OpenTurn, io
  <2> QED
    BY <2>1 DEF TypeOK, IoOK, Turns
<1>7. UNCHANGED <<book, exec, settings, steers, used>>
  BY DEF NoBinary, Initialize, InitializeTimesOut, Restart, Thread, OpenTurn, Launched, io, rest
<1> QED
  BY <1>1, <1>4, <1>5, <1>6, <1>7, Untouched DEF TypeOK

\* What is logged of an exec turn is a sequence of its events.
Events == {"turn_started", "tool_event", "turn_completed", "turn_failed"}

LEMMA TerminalType ==
  ASSUME NEW told0 \in Seq(Events), NEW success \in BOOLEAN
  PROVE  LET all == told0 \o Terminal(success) IN
         /\ all \in Seq(Events)
         /\ Len(all) > Len(told0)
         /\ \A i \in 1..Len(told0) : all[i] = told0[i]
         /\ all[Len(all)] = IF success THEN "turn_completed" ELSE "turn_failed"
<1> DEFINE l == IF success THEN "turn_completed" ELSE "turn_failed"
           t == Terminal(success)
<1>1. l \in Events /\ "tool_event" \in Events
  BY DEF Events
<1>2. ToolEvents \in Seq(Events)
  BY <1>1 DEF ToolEvents
<1>3. t \in Seq(Events) /\ Len(t) \in Nat \ {0} /\ t[Len(t)] = l
  <2>1. t = ToolEvents \o <<l>>
    BY DEF Terminal
  <2>2. <<l>> \in Seq(Events) /\ Len(<<l>>) = 1 /\ <<l>>[1] = l
    BY <1>1
  <2> DEFINE e == ToolEvents
  <2> HIDE DEF l, t, e
  <2>3. e \in Seq(Events) /\ t = e \o <<l>>
    BY <1>2, <2>1 DEF e
  <2>4. t \in Seq(Events) /\ Len(t) = Len(e) + 1 /\ Len(e) \in Nat
    BY <2>2, <2>3
  <2>5. t[Len(e) + 1] = <<l>>[1]
    BY <2>2, <2>3, <2>4
  <2> QED
    BY <2>2, <2>4, <2>5
<1> HIDE DEF l, t
<1>4. /\ told0 \o t \in Seq(Events) /\ Len(told0 \o t) = Len(told0) + Len(t)
      /\ \A i \in 1..Len(told0) : (told0 \o t)[i] = told0[i]
      /\ (told0 \o t)[Len(told0) + Len(t)] = t[Len(t)]
  BY <1>3
<1> QED
  BY <1>3, <1>4 DEF l, t

LEMMA TypesExec ==
  ASSUME TypeOK, ExecRun \/ ExecPrints \/ ExecExits \/ ExecTimesOut \/ ExecEnds
  PROVE  TypeOK'
<1>1. UNCHANGED <<now, tries, queue, turn, answer, steers, book, wals, gate, settings, used>>
  BY DEF ExecRun, ExecPrints, ExecExits, ExecTimesOut, ExecEnds, io
<1>2. tries' \in 0..MaxRetries /\ wals' \in 0..MaxWals /\ gate' \in BOOLEAN
  BY <1>1 DEF TypeOK, CourseOK
<1>3. CourseOK'
  <2>1. CASE ExecPrints \/ ExecExits
    BY <1>1, <2>1, Untouched DEF ExecPrints, ExecExits
  <2>2. CASE ExecRun \/ ExecTimesOut \/ ExecEnds
    BY <1>2, <2>2, Goes DEF ExecRun, ExecTimesOut, ExecEnds
  <2> QED
    BY <2>1, <2>2
<1>4. ServerOK'
  <2>1. children' \in {children, 0, 1} /\ reading' = reading
    BY DEF ExecRun, ExecPrints, ExecExits, ExecTimesOut, ExecEnds, server
  <2>2. \/ state' = state \/ state' = Cut
        \/ \E v \in {"running", "completed", "failed"} : state' = [state EXCEPT ![1] = v]
    BY DEF ExecRun, ExecPrints, ExecExits, ExecTimesOut, ExecEnds, server
  <2> QED
    BY <2>1, <2>2 DEF TypeOK, ServerOK, Cut
<1>5. ExecOK'
  <2>1. out' \in [events : SUBSET {"session", "tool"}, last : {"none", "text", "json"},
                  code : {Never, 0, 1}]
    <3>1. out \in [events : SUBSET {"session", "tool"}, last : {"none", "text", "json"},
                   code : {Never, 0, 1}]
      BY DEF TypeOK, ExecOK
    <3>2. CASE ExecPrints
      <4>1. PICK e \in {"session", "tool"}, last \in {"none", "text", "json"} :
              out' = [out EXCEPT !.events = @ \union {e}, !.last = last]
        BY <3>2 DEF ExecPrints
      <4> QED
        BY <3>1, <4>1
    <3>3. CASE ExecExits
      BY <3>1, <3>3 DEF ExecExits
    <3> QED
      BY <3>1, <3>2, <3>3 DEF ExecRun, ExecTimesOut, ExecEnds
  <2>2. told' \in Seq(Events)
    <3>1. told \in Seq(Events)
      BY DEF TypeOK, ExecOK, Events
    <3>2. CASE ExecRun
      BY <3>2 DEF ExecRun, Started, Events
    <3>3. CASE ExecPrints \/ ExecExits
      BY <3>1, <3>3 DEF ExecPrints, ExecExits
    <3>4. CASE ExecTimesOut \/ ExecEnds
      <4>1. \E success \in BOOLEAN : told' = told \o Terminal(success)
        BY <3>4 DEF ExecTimesOut, ExecEnds
      <4> QED
        BY <3>1, <4>1, TerminalType
    <3> QED
      BY <3>2, <3>3, <3>4
  <2> QED
    BY <1>1, <2>1, <2>2 DEF TypeOK, ExecOK, Events
<1> QED
  BY <1>1, <1>3, <1>4, <1>5, Still, Untouched DEF TypeOK

\* A list of failures that are marked one by one is a list of failures.
LEMMA MarkedType ==
  ASSUME NEW s \in Seq(Failure), NEW r, r = [i \in DOMAIN s |-> r[i]],
         \A i \in DOMAIN s : r[i] \in Failure
  PROVE  r \in Seq(Failure) /\ DOMAIN r = DOMAIN s /\ Len(r) = Len(s)
<1>1. DOMAIN s = 1..Len(s) /\ Len(s) \in Nat
  OBVIOUS
<1>2. r \in [1..Len(s) -> Failure]
  BY <1>1
<1> HIDE DEF Failure
<1> QED
  BY <1>1, <1>2

\* Progress closes the failures and leaves the rest of each.
LEMMA AllClosedType ==
  ASSUME fails \in Seq(Failure)
  PROVE  /\ AllClosed \in Seq(Failure) /\ DOMAIN AllClosed = DOMAIN fails
         /\ \A i \in DOMAIN fails :
              /\ AllClosed[i].tool = fails[i].tool /\ AllClosed[i].at = fails[i].at
              /\ AllClosed[i].emitted = fails[i].emitted /\ AllClosed[i].heard
<1>1. \A i \in DOMAIN fails : fails[i] \in Failure
  <2> HIDE DEF Failure
  <2> QED
    OBVIOUS
<1>2. AllClosed = [i \in DOMAIN fails |-> AllClosed[i]]
  BY DEF AllClosed
<1>3. ASSUME NEW i \in DOMAIN fails
      PROVE  /\ AllClosed[i] \in Failure
             /\ AllClosed[i].tool = fails[i].tool /\ AllClosed[i].at = fails[i].at
             /\ AllClosed[i].emitted = fails[i].emitted /\ AllClosed[i].heard
  <2>1. fails[i] \in Failure
    BY <1>1
  <2> QED
    BY <2>1 DEF AllClosed, Failure
<1>4. AllClosed \in Seq(Failure) /\ DOMAIN AllClosed = DOMAIN fails
  <2> DEFINE r == AllClosed
  <2>1. r = [i \in DOMAIN fails |-> r[i]] /\ \A i \in DOMAIN fails : r[i] \in Failure
    BY <1>2, <1>3
  <2> HIDE DEF r
  <2>2. r \in Seq(Failure) /\ DOMAIN r = DOMAIN fails
    BY <2>1, MarkedType
  <2> QED
    BY <2>2 DEF r
<1> QED
  BY <1>3, <1>4

\* What handling a notification makes of the failures.
LEMMA RecordedType ==
  ASSUME TypeOK, NEW n \in Note
  PROVE  /\ Recorded(n) \in Seq(Failure)
         /\ n.kind \in Tools =>
              /\ Len(Recorded(n)) = Len(fails) + 1
              /\ Recorded(n)[Len(fails) + 1] = Failed(n.kind)
              /\ \A i \in DOMAIN fails : Recorded(n)[i] = fails[i]
         /\ n.kind \in {"message", "activity"} =>
              Recorded(n) = AllClosed
         /\ n.kind \in {"completed", "failed"} => Recorded(n) = fails
<1>1. fails \in Seq(Failure) /\ now \in Nat
  BY DEF TypeOK, BookOK
<1>2. Tools \intersect {"message", "activity", "completed", "failed"} = {}
  BY TurnAssumption
<1>3. CASE n.kind \in Tools
  <2>1. Recorded(n) = Append(fails, Failed(n.kind))
    BY <1>2, <1>3 DEF Recorded
  <2>2. Failed(n.kind) \in Failure
    BY <1>1, <1>3 DEF Failed, Failure
  <2> DEFINE f == Failed(n.kind)
  <2> HIDE DEF f
  <2>3. /\ Append(fails, f) \in Seq(Failure) /\ Len(Append(fails, f)) = Len(fails) + 1
        /\ Append(fails, f)[Len(fails) + 1] = f
        /\ \A i \in DOMAIN fails : Append(fails, f)[i] = fails[i]
    BY <1>1, <2>2 DEF f
  <2> QED
    BY <1>2, <1>3, <2>1, <2>3 DEF f
<1>4. CASE n.kind \in {"message", "activity"}
  <2>1. Recorded(n) = AllClosed
    BY <1>2, <1>4 DEF Recorded
  <2>2. AllClosed \in Seq(Failure)
    BY <1>1, AllClosedType
  <2> QED
    BY <1>2, <1>4, <2>1, <2>2
<1>5. CASE n.kind \in {"completed", "failed"}
  <2>1. Recorded(n) = fails
    BY <1>2, <1>5 DEF Recorded
  <2> QED
    BY <1>1, <1>2, <1>5, <2>1
<1> QED
  BY <1>3, <1>4, <1>5 DEF Note, Kinds

\* What a look at the failures makes of them: those of the tools that are due
\* are marked, those that a warning finds are closed.
LEMMA LookedType ==
  ASSUME TypeOK, Report \/ fails' = [i \in DOMAIN fails |-> [fails[i] EXCEPT !.recovered = TRUE]],
         reported' = reported \union DueTools
  PROVE  /\ fails' \in Seq(Failure) /\ DOMAIN fails' = DOMAIN fails
         /\ reported' \subseteq Tools
         /\ \A i \in DOMAIN fails :
              /\ fails'[i].tool = fails[i].tool /\ fails'[i].at = fails[i].at
              /\ fails'[i].heard = fails[i].heard
              /\ fails'[i].emitted => fails[i].emitted \/ fails[i].tool \in DueTools
              /\ Report => fails'[i].recovered = fails[i].recovered
<1>1. fails \in Seq(Failure) /\ reported \subseteq Tools
  BY DEF TypeOK, BookOK
<1>2. \A i \in DOMAIN fails : fails[i] \in Failure
  BY <1>1
<1>3. DueTools \subseteq Tools
  BY <1>2 DEF DueTools, Failure
<1>4. /\ fails' = [i \in DOMAIN fails |-> fails'[i]]
      /\ \A i \in DOMAIN fails :
           /\ fails'[i] \in Failure
           /\ fails'[i].tool = fails[i].tool /\ fails'[i].at = fails[i].at
           /\ fails'[i].heard = fails[i].heard
           /\ fails'[i].emitted => fails[i].emitted \/ fails[i].tool \in DueTools
           /\ Report => fails'[i].recovered = fails[i].recovered
  <2>1. CASE Report
    <3>1. fails' = [i \in DOMAIN fails |->
                      [fails[i] EXCEPT !.emitted = @ \/ fails[i].tool \in DueTools]]
      BY <2>1 DEF Report
    <3>2. ASSUME NEW i \in DOMAIN fails
          PROVE  /\ fails'[i] \in Failure
                 /\ fails'[i].tool = fails[i].tool /\ fails'[i].at = fails[i].at
                 /\ fails'[i].heard = fails[i].heard
                 /\ fails'[i].emitted => fails[i].emitted \/ fails[i].tool \in DueTools
                 /\ fails'[i].recovered = fails[i].recovered
      <4> DEFINE b == fails[i].emitted \/ fails[i].tool \in DueTools
      <4>1. fails'[i] = [fails[i] EXCEPT !.emitted = b]
        BY <3>1
      <4>2. b \in BOOLEAN /\ fails[i] \in Failure /\ (b => fails[i].emitted \/ fails[i].tool \in DueTools)
        BY <1>2 DEF Failure
      <4> HIDE DEF b
      <4> QED
        BY <4>1, <4>2 DEF Failure
    <3> QED
      BY <3>1, <3>2
  <2>2. CASE ~Report
    BY <1>2, <2>2 DEF Failure
  <2> QED
    BY <2>1, <2>2
<1>5. fails' \in Seq(Failure) /\ DOMAIN fails' = DOMAIN fails
  <2> HIDE DEF Failure
  <2> QED
    BY <1>1, <1>4, MarkedType
<1> QED
  BY <1>1, <1>3, <1>4, <1>5

\* After close, too, the child and its turns are of their types.
LEMMA ClosedType ==
  ASSUME TypeOK, Closed
  PROVE  ServerOK'
<1>1. children \in Nat /\ state \in [Turns -> {"none", "running", "completed", "failed", "cut"}]
  BY DEF TypeOK, ServerOK
<1>2. children' \in Nat
  BY <1>1 DEF Closed
<1>3. state' \in [Turns -> {"none", "running", "completed", "failed", "cut"}]
  BY <1>1 DEF Closed, Cut
<1>4. reading' = FALSE
  BY DEF Closed
<1> QED
  BY <1>2, <1>3, <1>4 DEF ServerOK

\* The child, what it sends, and the end.
LEMMA TypesChild ==
  ASSUME TypeOK, Send \/ Die \/ ReaderEnds \/ Close
  PROVE  TypeOK'
<1>1. UNCHANGED <<now, tries, wals, gate, turn, exec, settings, reported, progress, warnedAt,
                  stopped, recovered>>
  BY DEF Send, Die, ReaderEnds, Close, io, book, rest
<1>2. CourseOK'
  BY <1>1 DEF TypeOK, CourseOK, Send, Die, ReaderEnds, Close
<1>3. ServerOK'
  <2>1. Cut \in [Turns -> {"none", "running", "completed", "failed", "cut"}]
    BY DEF TypeOK, ServerOK, Cut
  <2>2. CASE Send
    <3>1. PICK t \in Turns, k \in Kinds :
            state' = [state EXCEPT ![t] = IF k \in {"completed", "failed"} THEN k ELSE @]
      BY <2>2 DEF Send
    <3> QED
      BY <2>2, <3>1 DEF Send, TypeOK, ServerOK
  <2>3. CASE Die
    <3>1. children' = children - 1 /\ children > 0 /\ children \in Nat /\ reading' = FALSE /\ state' = Cut
      BY <2>3 DEF Die, TypeOK, ServerOK
    <3>2. children' \in Nat
      BY <3>1
    <3> QED
      BY <2>1, <3>1, <3>2 DEF ServerOK
  <2>5. CASE Close
    BY <2>5, ClosedType DEF Close
  <2>4. CASE ReaderEnds
    BY <2>4 DEF ReaderEnds, TypeOK, ServerOK
  <2> QED
    BY <2>2, <2>3, <2>4, <2>5
<1>4. IoOK'
  <2>1. CASE Send
    <3>1. PICK t \in Turns, k \in Kinds : queue' \in {queue, Append(queue, [kind |-> k, turn |-> t])}
      BY <2>1 DEF Send
    <3>2. [kind |-> k, turn |-> t] \in Note
      BY DEF Note
    <3> DEFINE n == [kind |-> k, turn |-> t]
    <3> HIDE DEF n
    <3>3. Append(queue, n) \in Seq(Note)
      BY <3>2 DEF TypeOK, IoOK, n
    <3> QED
      BY <1>1, <2>1, <3>1, <3>3 DEF Send, TypeOK, IoOK, n
  <2>2. CASE Die \/ ReaderEnds \/ Close
    <3>1. queue' \in {queue, <<>>} /\ UNCHANGED <<turn, answer>>
      BY <2>2 DEF Die, ReaderEnds, Close, io
    <3>2. <<>> \in Seq(Note)
      OBVIOUS
    <3> QED
      BY <3>1, <3>2 DEF TypeOK, IoOK
  <2> QED
    BY <2>1, <2>2
<1>5. BookOK'
  <2>1. fails' \in {fails, <<>>}
    BY DEF Send, Die, ReaderEnds, Close, book
  <2>2. <<>> \in Seq(Failure)
    OBVIOUS
  <2> QED
    BY <1>1, <2>1, <2>2 DEF TypeOK, BookOK
<1>6. ExecOK'
  BY <1>1, Untouched DEF rest
<1>7. UsedOK'
  <2>1. steers' \in {steers, 0}
    BY DEF Send, Die, ReaderEnds, Close, io
  <2>2. used' = used \/ used' = [used EXCEPT !.notes = @ + 1] \/ used' = [used EXCEPT !.deaths = @ + 1]
    BY DEF Send, Die, ReaderEnds, Close
  <2> QED
    BY <2>1, <2>2, Numbers DEF TypeOK, UsedOK
<1> QED
  BY <1>2, <1>3, <1>4, <1>5, <1>6, <1>7 DEF TypeOK

\* Steers, the deadline and the polls.
LEMMA TypesPoll ==
  ASSUME TypeOK, Steer \/ Steered \/ Hook \/ Empty \/ TimeOut \/ ResumeFails \/ Lost
  PROVE  TypeOK'
<1>1. now' \in Nat /\ now' >= now
  <2>1. CASE Steer \/ TimeOut \/ ResumeFails
    BY <2>1, Later DEF Steer, TimeOut, ResumeFails
  <2>2. CASE Empty
    BY <2>2 DEF Empty, TypeOK, BookOK
  <2>3. CASE Steered \/ Hook \/ Lost
    BY <2>3, Still DEF Steered, Hook, Lost
  <2> QED
    BY <2>1, <2>2, <2>3
<1>2. UNCHANGED <<tries, wals, gate, queue, turn, answer, exec, settings, fails,
                  reported, progress, warnedAt, stopped>>
  BY DEF Steer, Steered, Hook, Empty, TimeOut, ResumeFails, Lost, io, book, rest
<1>3. CourseOK'
  <2>1. tries' \in 0..MaxRetries /\ wals' \in 0..MaxWals /\ gate' \in BOOLEAN
    BY <1>2 DEF TypeOK, CourseOK
  <2> QED
    BY <2>1, Goes DEF Steer, Steered, Hook, Empty, TimeOut, ResumeFails, Lost
<1>4. BookOK'
  <2>1. recovered' \in BOOLEAN
    BY DEF Steer, Steered, Hook, Empty, TimeOut, ResumeFails, Lost, io, book, TypeOK, BookOK
  <2>2. progress \in 0..now /\ warnedAt \in -1..now /\ now \in Nat
    BY DEF TypeOK, BookOK
  <2>3. progress' \in 0..now' /\ warnedAt' \in -1..now'
    BY <1>1, <1>2, <2>2
  <2> QED
    BY <1>1, <1>2, <2>1, <2>3 DEF TypeOK, BookOK
<1>5. UsedOK'
  <2>1. MaxSteers \in Nat /\ steers \in 0..MaxSteers
        /\ used \in [notes : Nat, steers : steers..MaxSteers, deaths : Nat, lost : BOOLEAN]
    BY Numbers DEF TypeOK, UsedOK
  <2>2. CASE Hook
    <3>1. PICK n \in 0..(MaxSteers - used.steers) :
            steers' = steers + n /\ used' = [used EXCEPT !.steers = @ + n]
      BY <2>2 DEF Hook
    <3> QED
      BY <2>1, <3>1 DEF UsedOK
  <2>3. CASE ~Hook
    <3>1. used' = used /\ (steers' = steers \/ (steers > 0 /\ steers' = steers - 1))
      BY <2>3 DEF Steer, Steered, Empty, TimeOut, ResumeFails, Lost, io
    <3> QED
      BY <2>1, <3>1 DEF UsedOK
  <2> QED
    BY <2>2, <2>3
<1>6. ServerOK'
  <2>1. CASE UNCHANGED server
    BY <2>1, Untouched
  <2>2. CASE Closed
    BY <2>2, ClosedType
  <2> QED
    BY <2>1, <2>2 DEF Steer, Steered, Hook, Empty, TimeOut, ResumeFails, Lost
<1> QED
  BY <1>2, <1>3, <1>4, <1>5, <1>6, Untouched DEF TypeOK

\* A notification, the watchdogs and the end of the recovery.
LEMMA TypesLook ==
  ASSUME TypeOK, Handle \/ Quiet \/ Warn \/ Interrupt \/ Resume
  PROVE  TypeOK'
<1>1. now' \in Nat /\ now' >= now
  <2>1. CASE Warn \/ Resume
    BY <2>1, Later DEF Warn, Resume
  <2>2. CASE Handle \/ Quiet \/ Interrupt
    BY <2>2, Still, Later DEF Handle, Quiet, Interrupt
  <2> QED
    BY <2>1, <2>2
<1>2. UNCHANGED <<tries, wals, gate, steers, exec, settings>>
  BY DEF Handle, Quiet, Warn, Interrupt, Resume, io, rest
<1>3. tries' \in 0..MaxRetries /\ wals' \in 0..MaxWals /\ gate' \in BOOLEAN
  BY <1>2 DEF TypeOK, CourseOK
<1>4. CourseOK'
  <2>1. CASE Handle \/ Resume
    BY <1>3, <2>1, Goes DEF Handle, Resume
  <2>2. CASE Quiet \/ Warn \/ Interrupt
    BY <1>3, <2>2, Goes DEF Quiet, Warn, Interrupt
  <2> QED
    BY <2>1, <2>2
<1>5. ServerOK'
  <2>1. children' = children /\ reading' = reading
        /\ (state' = state \/ state' = [state EXCEPT ![2] = "running"])
    BY DEF Handle, Quiet, Warn, Interrupt, Resume, server
  <2> QED
    BY <2>1 DEF TypeOK, ServerOK, Turns
<1>6. IoOK'
  <2>1. queue \in Seq(Note) /\ turn \in Turns \union {0} /\ answer \subseteq Turns \union {0}
    BY DEF TypeOK, IoOK
  <2>2. CASE Handle
    <3>1. Head(queue) \in Note /\ Tail(queue) \in Seq(Note)
      <4> DEFINE N == Note
      <4> HIDE DEF N
      <4>1. queue \in Seq(N) /\ queue # <<>>
        BY <2>1, <2>2 DEF Handle, N
      <4>2. Head(queue) \in N /\ Tail(queue) \in Seq(N)
        BY <4>1
      <4> QED
        BY <4>2 DEF N
    <3>2. answer' \in {answer, {Head(queue).turn}} /\ turn' = turn /\ queue' = Tail(queue)
      BY <2>2 DEF Handle
    <3>3. Head(queue).turn \in Turns
      BY <3>1 DEF Note
    <3> QED
      BY <2>1, <3>1, <3>2, <3>3 DEF IoOK
  <2>3. CASE Quiet \/ Warn \/ Interrupt
    BY <2>1, <2>3 DEF Quiet, Warn, Interrupt, io, IoOK
  <2>4. CASE Resume
    <3>1. queue' = queue /\ turn' \in {turn, 2} /\ answer' \in {answer, {0}, {1}, {}}
      BY <2>4 DEF Resume, Snapshot
    <3> QED
      BY <2>1, <3>1 DEF IoOK, Turns
  <2> QED
    BY <2>2, <2>3, <2>4
<1>7. BookOK'
  <2>1. /\ fails \in Seq(Failure) /\ reported \subseteq Tools /\ now \in Nat /\ progress \in 0..now
        /\ warnedAt \in -1..now /\ stopped \in BOOLEAN /\ recovered \in BOOLEAN
    BY DEF TypeOK, BookOK
  <2>2. CASE Handle
    <3>1. fails' \in Seq(Failure)
      <4>1. Head(queue) \in Note
        <5> DEFINE N == Note
        <5> HIDE DEF N
        <5>1. queue \in Seq(N) /\ queue # <<>>
          BY <2>2 DEF Handle, TypeOK, IoOK, N
        <5>2. Head(queue) \in N
          BY <5>1
        <5> QED
          BY <5>2 DEF N
      <4> QED
        BY <2>2, <4>1, RecordedType DEF Handle
    <3>2. progress' \in {progress, now} /\ now' = now
          /\ UNCHANGED <<reported, warnedAt, stopped, recovered>>
      BY <2>2 DEF Handle
    <3> QED
      BY <2>1, <3>1, <3>2 DEF BookOK
  <2>3. CASE Quiet \/ Warn \/ Interrupt
    <3>1. fails' \in Seq(Failure) /\ reported' \subseteq Tools
      BY <2>3, LookedType DEF Quiet, Warn, Interrupt, Report
    <3>2. progress' = progress /\ warnedAt' \in {warnedAt, now} /\ stopped' \in {stopped, TRUE}
          /\ recovered' = recovered
      BY <2>3 DEF Quiet, Warn, Interrupt
    <3>3. progress' \in 0..now' /\ warnedAt' \in -1..now'
      BY <1>1, <2>1, <3>2
    <3> QED
      BY <1>1, <2>1, <3>1, <3>2, <3>3 DEF BookOK
  <2>4. CASE Resume
    <3>1. /\ progress' \in {progress, now'} /\ warnedAt' \in {warnedAt, -1}
          /\ fails' \in {fails, AllClosed} /\ UNCHANGED <<reported, stopped, recovered>>
      BY <2>4 DEF Resume, Never
    <3>2. fails' \in Seq(Failure)
      BY <2>1, <3>1, AllClosedType
    <3> QED
      BY <1>1, <2>1, <3>1, <3>2 DEF BookOK
  <2> QED
    BY <2>2, <2>3, <2>4
<1>8. UsedOK'
  <2>1. used' = used \/ \E lost \in BOOLEAN : used' = [used EXCEPT !.lost = lost]
    BY DEF Handle, Quiet, Warn, Interrupt, Resume
  <2> QED
    BY <1>2, <2>1 DEF TypeOK, UsedOK
<1> QED
  BY <1>2, <1>4, <1>5, <1>6, <1>7, <1>8, Untouched DEF TypeOK

LEMMA TypesNext == TypeOK /\ [Next]_vars => TypeOK'
<1>1. TypeOK /\ UNCHANGED vars => TypeOK'
  <2> SUFFICES ASSUME TypeOK, UNCHANGED vars PROVE TypeOK'
    OBVIOUS
  <2>1. UNCHANGED <<pc, exit, tries, wals, gate, server, queue, turn, answer, book, exec, settings,
                    steers, used, now>>
    BY DEF vars, rest, io
  <2> QED
    BY <2>1, Still, Untouched DEF TypeOK
<1> QED
  BY <1>1, TypesLaunch, TypesStart, TypesExec, TypesChild, TypesPoll, TypesLook DEF Next, Invocation

-----------------------------------------------------------------------------
(* The inductive invariant. *)

\* Where the adapter's thread is before there is a child, and in the loop.
Before == {"probe", "wrapper", "begin", "preflight", "gate", "start"}
Loop == {"top", "steer", "hook", "get", "quiet"}

\* How far the invocation is: its child, its mode and its recovery.
Course ==
  /\ exit = "open" <=> pc \notin {"close", "ended"}
  /\ children <= 1
  /\ pc \in Before \union {"ended"} => children = 0 /\ ~reading
  /\ gate => pc = "start"
  /\ settings.mode = "exec" => pc \in {"probe", "wrapper", "begin", "exec", "ended"} /\ ~recovered /\ ~reading
  /\ pc = "exec" => settings.mode = "exec"
  /\ pc \in {"probe", "wrapper", "open", "turn"} => ~recovered
  /\ pc = "resume" => recovered

\* Before the turn has begun the server has nothing of it.
Fresh ==
  pc \in Before \union {"open", "turn"} /\ ~recovered =>
    queue = <<>> /\ answer = {} /\ \A t \in Turns : state[t] = "none"

\* The second turn, and an earlier task's answer, come with the recovery only.
Second ==
  /\ state[2] # "none" \/ used.lost => recovered /\ pc \in Loop \union {"close", "ended"}
  /\ 0 \in answer => used.lost

\* What is queued is of a turn that has begun, and its end is the server's.
Notes == \A i \in DOMAIN queue :
  /\ state[queue[i].turn] # "none"
  /\ queue[i].kind \in {"completed", "failed"} => state[queue[i].turn] = queue[i].kind

\* An exec turn's log, while its child runs.
Logged ==
  /\ pc \notin {"exec", "ended"} => out.code = Never
  /\ pc = "exec" => /\ told = Started /\ queue = <<>>
                    /\ out.code = 0 => state[1] = "completed"

\* What has been recorded of the wrapper's tools.
Pending == \A i \in DOMAIN fails :
  /\ fails[i].at <= progress
  /\ fails[i].emitted => fails[i].tool \in reported
  /\ settings.warn \notin 1..Window - 1 /\ fails[i].recovered /\ ~fails[i].heard =>
       \/ fails[i].tool \in reported
       \/ \E j \in DOMAIN fails : j > i /\ fails[j].tool = fails[i].tool

TurnInv == TypeOK /\ Course /\ Fresh /\ Second /\ Notes /\ Logged /\ Pending /\ SuccessIsReal

\* The clauses hold when the adapter starts.
LEMMA InvInit == Init => TurnInv
<1> SUFFICES ASSUME Init PROVE TurnInv
  OBVIOUS
<1>1. TypeOK
  BY TypesInit
<1>2. Course /\ Fresh
  BY DEF Init, Course, Fresh, Before
<1>3. Second /\ Notes /\ Pending
  BY DEF Init, Second, Notes, Pending, Turns
<1>4. Logged /\ SuccessIsReal
  BY DEF Init, Logged, SuccessIsReal, Never
<1> QED
  BY <1>1, <1>2, <1>3, <1>4 DEF TurnInv

LEMMA CourseNext == TypeOK /\ Course /\ [Next]_vars => Course'
<1> SUFFICES ASSUME TypeOK, Course, [Next]_vars PROVE Course'
  OBVIOUS
<1>1. children \in Nat /\ reading \in BOOLEAN /\ settings.mode \in {"server", "exec"} /\ settings' = settings
  <2>1. settings' = settings
    BY DEF Next, Invocation, vars, rest, Launched, FeatureTest, ProbeWrapper, Inspect, CheckpointWals,
           PreSpawn, Gate, NoBinary, Initialize, InitializeTimesOut, Thread, OpenTurn, ExecRun,
           ExecTimesOut, ExecEnds, Steer, Steered, InTime, Hook, Handle, Empty, Lost, Quiet, Warn, Interrupt,
           Restart, ResumeFails, Resume, TimeOut, Close, Send, Die, ReaderEnds, ExecPrints, ExecExits
  <2> QED
    BY <2>1 DEF TypeOK, ServerOK, ExecOK, Settings
<1>2. CASE FeatureTest \/ ProbeWrapper \/ Inspect \/ CheckpointWals \/ PreSpawn \/ Gate
  BY <1>1, <1>2 DEF FeatureTest, ProbeWrapper, Inspect, CheckpointWals, PreSpawn, Gate, Goto,
                    Course, Before, server, book, rest
<1>3. CASE NoBinary \/ Initialize \/ InitializeTimesOut \/ Restart
  BY <1>1, <1>3 DEF NoBinary, Initialize, InitializeTimesOut, Restart, Launched, Spawned, Goto, Fail,
                    Course, Before, server, book
<1>4. CASE Thread \/ OpenTurn
  BY <1>1, <1>4 DEF Thread, ThreadStart, ThreadFork, OpenTurn, Goto, Fail, Course, Before, server,
                    book, rest
<1>5. CASE ExecRun \/ ExecPrints \/ ExecExits \/ ExecTimesOut \/ ExecEnds
  <2>1. UNCHANGED <<gate, recovered>>
    BY <1>5 DEF ExecRun, ExecPrints, ExecExits, ExecTimesOut, ExecEnds, book
  <2>2. CASE ExecRun
    BY <1>1, <2>1, <2>2 DEF ExecRun, Goto, Course, Before, server
  <2>3. CASE ExecPrints \/ ExecExits
    <3>1. pc = "exec" /\ children' \in {children, 0} /\ UNCHANGED <<pc, exit, reading>>
      BY <2>3 DEF ExecPrints, ExecExits, server
    <3> QED
      BY <1>1, <2>1, <3>1 DEF Course, Before
  <2>4. CASE ExecTimesOut \/ ExecEnds
    <3>1. pc = "exec" /\ children' = 0 /\ reading' = reading /\ pc' = "ended" /\ exit' # "open"
      BY <2>4 DEF ExecTimesOut, ExecEnds, server
    <3> QED
      BY <1>1, <2>1, <3>1 DEF Course, Before
  <2> QED
    BY <1>5, <2>2, <2>3, <2>4
<1>6. CASE Steer \/ Steered \/ Hook \/ Handle \/ Empty \/ TimeOut
  BY <1>1, <1>6 DEF Steer, Steered, InTime, Hook, Handle, Empty, TimeOut, Goto, Fail, Course, Before, server,
                    book, rest
<1>7. CASE Lost \/ Quiet \/ Warn \/ Interrupt
  BY <1>1, <1>7 DEF Lost, Closed, Alive, Quiet, Warn, Interrupt, Goto, Fail, Course, Before, server, rest
<1>8. CASE ResumeFails \/ Resume
  BY <1>1, <1>8 DEF ResumeFails, Resume, Goto, Fail, Course, Before, server, book, rest
<1>9. CASE Close \/ Send \/ Die \/ ReaderEnds
  <2>1. CASE Close
    BY <1>1, <2>1 DEF Close, Closed, Course, Before, rest
  <2>2. CASE Send \/ Die \/ ReaderEnds
    <3>1. /\ children > 0 \/ children' = children
          /\ children' \in {children, children - 1}
          /\ reading' \in {reading, FALSE} /\ UNCHANGED <<pc, exit, gate, recovered>>
      BY <2>2 DEF Send, Die, ReaderEnds, book, rest
    <3>2. children' <= 1 /\ (children = 0 => children' = 0)
      BY <1>1, <3>1 DEF Course
    <3>3. reading' => reading
      BY <3>1
    <3> QED
      BY <1>1, <3>1, <3>2, <3>3 DEF Course
  <2> QED
    BY <1>9, <2>1, <2>2
<1>10. CASE UNCHANGED vars
  BY <1>10 DEF vars, server, book, rest, Course
<1> QED
  BY <1>2, <1>3, <1>4, <1>5, <1>6, <1>7, <1>8, <1>9, <1>10 DEF Next, Invocation

LEMMA FreshNext == TypeOK /\ Course /\ Fresh /\ [Next]_vars => Fresh'
<1> SUFFICES ASSUME TypeOK, Course, Fresh, [Next]_vars,
                    (pc \in Before \union {"open", "turn"} /\ ~recovered)'
             PROVE  (queue = <<>> /\ answer = {} /\ \A t \in Turns : state[t] = "none")'
  BY DEF Fresh
<1>1. CASE FeatureTest \/ ProbeWrapper \/ Inspect \/ CheckpointWals \/ PreSpawn \/ Gate
  BY <1>1 DEF FeatureTest, ProbeWrapper, Inspect, CheckpointWals, PreSpawn, Gate, Goto,
              Fresh, Before, server, io, book
<1>2. CASE Initialize \/ InitializeTimesOut \/ Thread
  BY <1>2 DEF Initialize, InitializeTimesOut, Thread, Fresh, Before, server, io, book
<1>3. CASE Send \/ Die \/ ReaderEnds
  <2>1. pc' = pc /\ recovered' = recovered
    BY <1>3 DEF Send, Die, ReaderEnds, book
  <2>2. queue = <<>> /\ answer = {} /\ \A t \in Turns : state[t] = "none"
    BY <2>1 DEF Fresh
  <2>3. ~Send
    BY <2>2 DEF Send
  <2>4. state' \in {state, Cut} /\ queue' = queue /\ answer' = answer
    BY <1>3, <2>3 DEF Die, ReaderEnds, io
  <2> QED
    BY <2>2, <2>4 DEF Cut, Turns
<1>4. CASE UNCHANGED vars
  BY <1>4 DEF vars, server, io, book, Fresh
<1>5. CASE NoBinary \/ OpenTurn \/ ExecRun \/ ExecPrints \/ ExecExits \/ ExecTimesOut \/ ExecEnds
  <2>1. pc' \in {"close", "top", "exec", "ended"}
    BY <1>5 DEF NoBinary, OpenTurn, ExecRun, ExecPrints, ExecExits, ExecTimesOut, ExecEnds, Goto, Fail
  <2> QED
    BY <2>1 DEF Before
<1>6. CASE Steer \/ Steered \/ Hook \/ Handle \/ Empty \/ Lost \/ Quiet \/ Warn \/ Interrupt
           \/ Restart \/ ResumeFails \/ Resume \/ TimeOut \/ Close
  <2>1. pc' \in Loop \union {"resume", "close", "ended"} \/ recovered'
    BY <1>6 DEF Steer, Steered, Hook, Handle, Empty, Lost, Quiet, Warn, Interrupt, Restart,
                ResumeFails, Resume, TimeOut, Close, Goto, Fail, Loop
  <2> QED
    BY <2>1 DEF Before, Loop
<1> QED
  BY <1>1, <1>2, <1>3, <1>4, <1>5, <1>6 DEF Next, Invocation

\* A turn that does not run stays as it is, whatever the child sends and also
\* when it dies; and a turn that runs is not forgotten.
LEMMA TurnsStay ==
  ASSUME TypeOK, Send \/ state' \in {state, Cut}
  PROVE  \A t \in Turns : /\ state'[t] = "none" <=> state[t] = "none"
                          /\ state[t] # "running" => state'[t] = state[t]
<1>1. state \in [Turns -> {"none", "running", "completed", "failed", "cut"}]
  BY DEF TypeOK, ServerOK
<1>2. CASE Send
  <2>1. PICK u \in Turns, k \in Kinds :
          /\ state[u] = "running"
          /\ state' = [state EXCEPT ![u] = IF k \in {"completed", "failed"} THEN k ELSE @]
    BY <1>2 DEF Send
  <2>2. state'[u] \in {"running", "completed", "failed"}
        /\ \A t \in Turns : t # u => state'[t] = state[t]
    BY <1>1, <2>1
  <2> QED
    BY <2>1, <2>2
<1>3. CASE state' \in {state, Cut}
  BY <1>1, <1>3 DEF Cut
<1> QED
  BY <1>2, <1>3

LEMMA SecondNext == TypeOK /\ Course /\ Second /\ [Next]_vars => Second'
<1> SUFFICES ASSUME TypeOK, Course, Second, [Next]_vars PROVE Second'
  OBVIOUS
<1>1. used.lost \in BOOLEAN /\ 2 \in Turns /\ 1 \in Turns
      /\ state \in [Turns -> {"none", "running", "completed", "failed", "cut"}]
      /\ used \in [notes : Nat, steers : steers..MaxSteers, deaths : Nat, lost : BOOLEAN]
  BY DEF TypeOK, UsedOK, ServerOK, Turns
<1>2. ASSUME FeatureTest \/ ProbeWrapper \/ Inspect \/ CheckpointWals \/ PreSpawn \/ Gate
             \/ NoBinary \/ Initialize \/ InitializeTimesOut \/ Restart \/ Thread \/ OpenTurn
             \/ ExecRun \/ ExecPrints \/ ExecExits \/ ExecTimesOut \/ ExecEnds \/ ResumeFails
      PROVE  Second'
  <2>1. pc \notin Loop \union {"close", "ended"}
    BY <1>2 DEF FeatureTest, ProbeWrapper, Inspect, CheckpointWals, PreSpawn, Gate, NoBinary,
                Initialize, InitializeTimesOut, Restart, Thread, OpenTurn, ExecRun, ExecPrints,
                ExecExits, ExecTimesOut, ExecEnds, ResumeFails, Loop
  <2>2. answer' = answer /\ used' = used
    BY <1>2 DEF FeatureTest, ProbeWrapper, Inspect, CheckpointWals, PreSpawn, Gate, NoBinary,
                Initialize, InitializeTimesOut, Restart, Thread, OpenTurn, ExecRun, ExecPrints,
                ExecExits, ExecTimesOut, ExecEnds, ResumeFails, io
  <2>3. state' = state \/ state' = Cut \/ \E v \in {"running", "completed", "failed"} :
                                            state' = [state EXCEPT ![1] = v]
    BY <1>2 DEF FeatureTest, ProbeWrapper, Inspect, CheckpointWals, PreSpawn, Gate, NoBinary,
                Initialize, InitializeTimesOut, Restart, Thread, OpenTurn, ExecRun, ExecPrints,
                ExecExits, ExecTimesOut, ExecEnds, ResumeFails, server
  <2>4. state'[2] = "none"
    BY <1>1, <2>1, <2>3 DEF Second, Cut
  <2> QED
    BY <2>1, <2>2, <2>4 DEF Second
<1>3. ASSUME Steer \/ Steered \/ Hook \/ Handle \/ Empty \/ TimeOut \/ Lost
             \/ Quiet \/ Warn \/ Interrupt \/ Close
      PROVE  Second'
  <2>1. pc' \in Loop \union {"close", "ended"} \/ (pc = "quiet" /\ ~recovered /\ pc' = "begin")
    BY <1>3 DEF Steer, Steered, Hook, Handle, Empty, TimeOut, Lost, Quiet, Warn, Interrupt,
                Close, Goto, Fail, Loop, TypeOK, BookOK
  <2>2. recovered => recovered'
    BY <1>3 DEF Steer, Steered, Hook, Handle, Empty, TimeOut, Lost, Quiet, Warn, Interrupt,
                Close, book
  <2>3. state' \in {state, Cut}
    BY <1>3 DEF Steer, Steered, Hook, Handle, Empty, TimeOut, Lost, Quiet, Warn, Interrupt,
                Close, Closed, server
  <2>4. used'.lost = used.lost
    <3>1. used' = used \/ \E n \in 0..(MaxSteers - used.steers) : used' = [used EXCEPT !.steers = @ + n]
      BY <1>3 DEF Steer, Steered, Hook, Handle, Empty, TimeOut, Lost, Quiet, Warn, Interrupt, Close
    <3> QED
      BY <1>1, <3>1
  <2>5. 0 \in answer' => 0 \in answer
    <3>1. CASE Handle
      <4>1. Head(queue).turn \in Turns
        <5> DEFINE N == Note
        <5> HIDE DEF N
        <5>1. queue \in Seq(N) /\ queue # <<>>
          BY <3>1 DEF Handle, TypeOK, IoOK, N
        <5>2. Head(queue) \in N
          BY <5>1
        <5> QED
          BY <5>2 DEF N, Note
      <4>2. answer' \in {answer, {Head(queue).turn}}
        BY <3>1 DEF Handle
      <4> QED
        BY <4>1, <4>2 DEF Turns
    <3>2. CASE ~Handle
      BY <1>3, <3>2 DEF Steer, Steered, Hook, Empty, TimeOut, Lost, Quiet, Warn, Interrupt, Close, io
    <3> QED
      BY <3>1, <3>2
  <2>6. state'[2] # "none" => state[2] # "none"
    BY <1>1, <2>3 DEF Cut
  <2> QED
    BY <2>1, <2>2, <2>4, <2>5, <2>6 DEF Second, Loop
<1>4. CASE Resume
  <2>1. PICK lost \in BOOLEAN, said \in BOOLEAN, forked \in BOOLEAN :
          LET s == Snapshot(lost, forked) IN
          /\ used' = [used EXCEPT !.lost = lost]
          /\ answer' = IF said /\ s.turn # {} THEN s.turn ELSE answer
    BY <1>4 DEF Resume
  <2>2. pc = "resume" /\ recovered /\ recovered' = recovered /\ pc' \in {"close", "top"}
    BY <1>4 DEF Resume, Goto, Fail, Course
  <2>3. ~used.lost /\ 0 \notin answer
    BY <2>2 DEF Second, Loop
  <2>4. used'.lost = lost
    BY <1>1, <2>1
  <2>5. 0 \in answer' => lost
    BY <2>1, <2>3 DEF Snapshot
  <2> QED
    BY <2>2, <2>4, <2>5 DEF Second, Loop
<1>5. CASE Send \/ Die \/ ReaderEnds
  <2>1. UNCHANGED <<pc, recovered, answer>>
    BY <1>5 DEF Send, Die, ReaderEnds, io, book
  <2>2. used'.lost = used.lost
    <3>1. used' = [used EXCEPT !.notes = @ + 1] \/ used' = [used EXCEPT !.deaths = @ + 1]
      BY <1>5 DEF Send, Die, ReaderEnds
    <3> QED
      BY <1>1, <3>1
  <2>3. state'[2] # "none" => state[2] # "none"
    <3>1. Send \/ state' \in {state, Cut}
      BY <1>5 DEF Die, ReaderEnds
    <3> QED
      BY <1>1, <3>1, TurnsStay
  <2> QED
    BY <2>1, <2>2, <2>3 DEF Second
<1>6. CASE UNCHANGED vars
  BY <1>6 DEF vars, server, io, book, Second
<1> QED
  BY <1>2, <1>3, <1>4, <1>5, <1>6 DEF Next, Invocation

LEMMA NotesNext == TypeOK /\ Course /\ Fresh /\ Second /\ Logged /\ Notes /\ [Next]_vars => Notes'
<1> SUFFICES ASSUME TypeOK, Course, Fresh, Second, Logged, Notes, [Next]_vars PROVE Notes'
  OBVIOUS
<1> DEFINE N == Note
<1>1. /\ queue \in Seq(N) /\ \A n \in N : n.turn \in Turns /\ n.kind \in Kinds
      /\ state \in [Turns -> {"none", "running", "completed", "failed", "cut"}]
  BY DEF TypeOK, IoOK, ServerOK, Note
<1> HIDE DEF N
<1>2. \A i \in DOMAIN queue : queue[i] \in N
  BY <1>1
<1>3. ASSUME queue' = queue,
             \A t \in Turns : /\ state[t] # "none" => state'[t] # "none"
                              /\ state[t] \in {"completed", "failed"} => state'[t] = state[t]
      PROVE  Notes'
  BY <1>1, <1>2, <1>3 DEF Notes
<1>4. ASSUME queue' = <<>> PROVE Notes'
  BY <1>4 DEF Notes
<1>5. CASE FeatureTest \/ ProbeWrapper \/ Inspect \/ CheckpointWals \/ PreSpawn \/ Gate
           \/ NoBinary \/ Initialize \/ InitializeTimesOut \/ Restart \/ Thread \/ ResumeFails
           \/ Steer \/ Steered \/ Hook \/ Empty \/ TimeOut \/ Quiet \/ Warn \/ Interrupt
           \/ ExecPrints \/ UNCHANGED vars
  <2>1. queue' = queue /\ state' = state
    BY <1>5 DEF vars, FeatureTest, ProbeWrapper, Inspect, CheckpointWals, PreSpawn, Gate, NoBinary,
                Initialize, InitializeTimesOut, Restart, Thread, ResumeFails, Steer, Steered, Hook,
                Empty, TimeOut, Quiet, Warn, Interrupt, ExecPrints, server, io
  <2> QED
    BY <1>3, <2>1
<1>6. CASE OpenTurn \/ ExecRun \/ ExecExits \/ ExecTimesOut \/ ExecEnds
  <2>1. queue = <<>>
    BY <1>6 DEF OpenTurn, ExecRun, ExecExits, ExecTimesOut, ExecEnds, Course, Fresh, Logged, Before
  <2>2. queue' = queue
    BY <1>6 DEF OpenTurn, ExecRun, ExecExits, ExecTimesOut, ExecEnds, io
  <2> QED
    BY <1>4, <2>1, <2>2
<1>7. CASE Die \/ ReaderEnds \/ Lost
  <2>1. queue' = queue /\ state' \in {state, Cut}
    BY <1>7 DEF Die, ReaderEnds, Lost, Closed, server, io
  <2>2. \A t \in Turns : /\ state[t] # "none" => state'[t] # "none"
                         /\ state[t] \in {"completed", "failed"} => state'[t] = state[t]
    BY <1>1, <2>1 DEF Cut
  <2> QED
    BY <1>3, <2>1, <2>2
<1>8. CASE Close
  BY <1>4, <1>8 DEF Close
<1>9. CASE Handle
  <2>1. queue # <<>> /\ queue' = Tail(queue) /\ state' = state
    BY <1>9 DEF Handle, server
  <2>2. \A i \in DOMAIN Tail(queue) : i + 1 \in DOMAIN queue /\ Tail(queue)[i] = queue[i + 1]
    BY <1>1, <2>1
  <2> QED
    BY <2>1, <2>2 DEF Notes
<1>10. CASE Resume
  <2>1. state[2] = "none" /\ queue' = queue
    BY <1>10 DEF Resume, Second, Loop
  <2>2. state' = state \/ state' = [state EXCEPT ![2] = "running"]
    BY <1>10 DEF Resume
  <2>3. \A t \in Turns : /\ state[t] # "none" => state'[t] # "none"
                         /\ state[t] \in {"completed", "failed"} => state'[t] = state[t]
    BY <1>1, <2>1, <2>2
  <2> QED
    BY <1>3, <2>1, <2>3
<1>11. CASE Send
  <2>1. PICK t \in Turns, k \in Kinds :
          /\ state[t] = "running"
          /\ queue' = IF reading THEN Append(queue, [kind |-> k, turn |-> t]) ELSE queue
          /\ state' = [state EXCEPT ![t] = IF k \in {"completed", "failed"} THEN k ELSE @]
    BY <1>11 DEF Send
  <2> DEFINE n == [kind |-> k, turn |-> t]
  <2>2. n \in N /\ n.kind = k /\ n.turn = t
    BY DEF N, Note
  <2>3. state'[t] # "none" /\ (k \in {"completed", "failed"} => state'[t] = k)
    BY <1>1, <2>1
  <2>4. queue' = queue \/ queue' = Append(queue, n)
    BY <2>1
  <2> HIDE DEF n
  <2>5. \/ queue' = queue
        \/ /\ DOMAIN queue' = DOMAIN queue \union {Len(queue) + 1}
           /\ queue'[Len(queue) + 1] = n
           /\ \A i \in DOMAIN queue : queue'[i] = queue[i]
    <3>1. CASE queue' = queue
      BY <3>1
    <3>2. CASE queue' = Append(queue, n)
      <4>1. DOMAIN queue = 1..Len(queue) /\ DOMAIN queue' = 1..(Len(queue) + 1) /\ Len(queue) \in Nat
        BY <1>1, <2>2, <3>2
      <4>2. DOMAIN queue' = DOMAIN queue \union {Len(queue) + 1}
        BY <4>1
      <4> QED
        BY <1>1, <2>2, <3>2, <4>2
    <3> QED
      BY <2>4, <3>1, <3>2
  <2>6. \A i \in DOMAIN queue :
          /\ state'[queue[i].turn] # "none"
          /\ queue[i].kind \in {"completed", "failed"} => state'[queue[i].turn] = queue[i].kind
    <3> TAKE i \in DOMAIN queue
    <3>1. queue[i].turn \in Turns
      BY <1>1, <1>2
    <3> QED
      BY <1>11, <3>1, TurnsStay DEF Notes
  <2> QED
    BY <2>2, <2>3, <2>5, <2>6 DEF Notes
<1> QED
  BY <1>5, <1>6, <1>7, <1>8, <1>9, <1>10, <1>11 DEF Next, Invocation

LEMMA LoggedNext == TypeOK /\ Course /\ Fresh /\ Logged /\ [Next]_vars => Logged'
<1> SUFFICES ASSUME TypeOK, Course, Fresh, Logged, [Next]_vars PROVE Logged'
  OBVIOUS
<1>1. CASE ExecRun
  <2>1. queue' = queue /\ out' = out /\ queue = <<>>
    BY <1>1 DEF ExecRun, io, Course, Fresh, Before
  <2> QED
    BY <1>1, <2>1 DEF ExecRun, Goto, Logged, Never
<1>2. CASE ExecPrints
  <2>1. out'.code = out.code
    BY <1>2 DEF ExecPrints, TypeOK, ExecOK
  <2> QED
    BY <1>2, <2>1 DEF ExecPrints, Logged, io, server
<1>3. CASE ExecExits
  <2>1. PICK code \in {0, 1} : /\ out' = [out EXCEPT !.code = code]
                               /\ state' = [state EXCEPT ![1] = IF code = 0 THEN "completed" ELSE "failed"]
    BY <1>3 DEF ExecExits
  <2>2. out'.code = code /\ (code = 0 => state'[1] = "completed")
    BY <2>1 DEF TypeOK, ExecOK, ServerOK, Turns
  <2> QED
    BY <1>3, <2>2 DEF ExecExits, Logged, io
<1>4. CASE ExecTimesOut \/ ExecEnds
  BY <1>4 DEF ExecTimesOut, ExecEnds, Logged
<1>5. CASE UNCHANGED vars
  BY <1>5 DEF vars, rest, exec, server, io, Logged
<1>6. ASSUME FeatureTest \/ ProbeWrapper \/ Inspect \/ CheckpointWals \/ PreSpawn \/ Gate
             \/ NoBinary \/ Initialize \/ InitializeTimesOut \/ Restart \/ Thread \/ OpenTurn
             \/ Steer \/ Steered \/ Hook \/ Handle \/ Empty \/ Lost \/ Quiet \/ Warn \/ Interrupt
             \/ ResumeFails \/ Resume \/ TimeOut \/ Close \/ Send \/ Die \/ ReaderEnds
      PROVE  Logged'
  <2>1. out' = out
    BY <1>6 DEF FeatureTest, ProbeWrapper, Inspect, CheckpointWals, PreSpawn, Gate, NoBinary, Initialize,
                InitializeTimesOut, Restart, Thread, OpenTurn, Steer, Steered, InTime, Hook, Handle, Empty,
                Lost, Quiet, Warn, Interrupt, ResumeFails, Resume, TimeOut, Close, Send, Die, ReaderEnds,
                Launched, rest, exec
  <2>2. pc \notin {"exec", "ended"} \/ (pc = "ended" /\ pc' = pc)
    BY <1>6 DEF FeatureTest, ProbeWrapper, Inspect, CheckpointWals, PreSpawn, Gate, NoBinary, Initialize,
                InitializeTimesOut, Restart, Thread, OpenTurn, Steer, Steered, InTime, Hook, Handle, Empty,
                Lost, Quiet, Warn, Interrupt, ResumeFails, Resume, TimeOut, Close, Send, Die, ReaderEnds
  <2>3. pc' # "exec"
    BY <1>6 DEF FeatureTest, ProbeWrapper, Inspect, CheckpointWals, PreSpawn, Gate, NoBinary, Initialize,
                InitializeTimesOut, Restart, Thread, ThreadStart, ThreadFork, OpenTurn, Steer, Steered, InTime,
                Hook, Handle, Empty, Lost, Quiet, Warn, Interrupt, ResumeFails, Resume, TimeOut,
                Close, Send, Die, ReaderEnds, Goto, Fail
  <2> QED
    BY <2>1, <2>2, <2>3 DEF Logged
<1> QED
  BY <1>1, <1>2, <1>3, <1>4, <1>5, <1>6 DEF Next, Invocation

\* A failure that nothing was heard after, of a tool that did not fail again, is
\* due at the latest when the window has passed, unless it has been reported.
LEMMA SilentIsDue ==
  ASSUME TypeOK, Pending, NEW i \in DOMAIN fails, settings.warn \notin 1..Window - 1,
         ~fails[i].heard, now - fails[i].at >= Window, fails[i].tool \notin reported,
         ~\E j \in DOMAIN fails : j > i /\ fails[j].tool = fails[i].tool
  PROVE  fails[i].tool \in DueTools
<1>1. ~fails[i].emitted /\ ~fails[i].recovered
  BY DEF Pending
<1>2. Due(i)
  BY <1>1 DEF Due
<1> QED
  BY <1>2 DEF DueTools

LEMMA PendingNext == TypeOK /\ Pending /\ [Next]_vars => Pending'
<1> SUFFICES ASSUME TypeOK, Pending, [Next]_vars PROVE Pending'
  OBVIOUS
<1>1. /\ fails \in Seq(Failure) /\ progress \in 0..now /\ now \in Nat /\ settings.warn \in Nat
      /\ Window \in Nat \ {0}
  <2>1. settings.warn \in Nat
    <3>1. settings \in Settings
      BY DEF TypeOK, ExecOK
    <3>2. settings.warn \in Warns \union {0}
      BY <3>1 DEF Settings
    <3>3. Warns \subseteq Nat /\ 0 \in Nat
      BY Numbers
    <3> HIDE DEF Settings
    <3> QED
      BY <3>2, <3>3
  <2> QED
    BY <2>1, TurnAssumption DEF TypeOK, BookOK
<1>2. \A i \in DOMAIN fails : fails[i] \in Failure /\ fails[i].at \in Nat
  <2>1. \A i \in DOMAIN fails : fails[i] \in Failure
    <3> HIDE DEF Failure
    <3> QED
      BY <1>1
  <2> QED
    BY <2>1 DEF Failure
<1>3. settings' = settings
  BY DEF Next, Invocation, vars, rest, Launched, FeatureTest, ProbeWrapper, Inspect, CheckpointWals,
         PreSpawn, Gate, NoBinary, Initialize, InitializeTimesOut, Thread, OpenTurn, ExecRun,
         ExecTimesOut, ExecEnds, Steer, Steered, InTime, Hook, Handle, Empty, Lost, Quiet, Warn, Interrupt,
         Restart, ResumeFails, Resume, TimeOut, Close, Send, Die, ReaderEnds, ExecPrints, ExecExits
<1>4. ASSUME FeatureTest \/ ProbeWrapper \/ Inspect \/ CheckpointWals \/ PreSpawn \/ Gate
             \/ NoBinary \/ Initialize \/ InitializeTimesOut \/ Restart \/ Thread \/ OpenTurn
             \/ ExecRun \/ ExecPrints \/ ExecExits \/ ExecTimesOut \/ ExecEnds
             \/ Steer \/ Steered \/ Hook \/ Empty \/ Lost \/ ResumeFails \/ TimeOut
             \/ Send \/ Die \/ ReaderEnds \/ UNCHANGED vars
      PROVE  Pending'
  <2>1. UNCHANGED <<fails, reported, progress>>
    BY <1>4 DEF vars, FeatureTest, ProbeWrapper, Inspect, CheckpointWals, PreSpawn, Gate, NoBinary,
                Initialize, InitializeTimesOut, Restart, Thread, OpenTurn, ExecRun, ExecPrints,
                ExecExits, ExecTimesOut, ExecEnds, Steer, Steered, InTime, Hook, Empty, Lost, ResumeFails,
                TimeOut, Send, Die, ReaderEnds, book
  <2> QED
    BY <1>3, <2>1 DEF Pending
<1>5. CASE Resume
  <2>1. fails' \in {fails, AllClosed} /\ reported' = reported /\ progress' \in {progress, now'}
    BY <1>5 DEF Resume
  <2>2. now' \in Nat /\ now' >= now
    BY <1>5, Later DEF Resume
  <2>3. progress' \in Nat /\ progress' >= progress
    BY <1>1, <2>1, <2>2
  <2>4. \A i \in DOMAIN fails : fails[i].at <= progress'
    BY <1>1, <1>2, <2>3 DEF Pending
  <2>5. CASE fails' = fails
    BY <1>3, <2>1, <2>4, <2>5 DEF Pending
  <2>6. CASE fails' = AllClosed
    BY <1>1, <2>1, <2>4, <2>6, AllClosedType DEF Pending
  <2> QED
    BY <2>1, <2>5, <2>6
<1>6. CASE Close
  BY <1>6 DEF Close, Pending
<1>7. CASE Handle
  <2> DEFINE n == Head(queue)
  <2>1. n \in Note
    <3> DEFINE N == Note
    <3> HIDE DEF N
    <3>1. queue \in Seq(N) /\ queue # <<>>
      BY <1>7 DEF Handle, TypeOK, IoOK, N
    <3>2. Head(queue) \in N
      BY <3>1
    <3> QED
      BY <3>2 DEF N
  <2>2. /\ fails' = Recorded(n) /\ reported' = reported
        /\ progress' = IF Progress(n) THEN now ELSE progress
    BY <1>7 DEF Handle
  <2> HIDE DEF n
  <2>3. progress' >= progress /\ progress' \in Nat
    BY <1>1, <2>2
  <2>4. CASE n.kind \in Tools
    <3>1. /\ DOMAIN fails' = DOMAIN fails \union {Len(fails) + 1}
          /\ fails'[Len(fails) + 1] = Failed(n.kind)
          /\ \A i \in DOMAIN fails : fails'[i] = fails[i]
      <4>1. fails' \in Seq(Failure) /\ Len(fails') = Len(fails) + 1
        BY <2>1, <2>2, <2>4, RecordedType
      <4>2. DOMAIN fails' = 1..Len(fails) + 1 /\ DOMAIN fails = 1..Len(fails) /\ Len(fails) \in Nat
        BY <1>1, <4>1
      <4>3. DOMAIN fails' = DOMAIN fails \union {Len(fails) + 1}
        BY <4>2
      <4> QED
        BY <4>3, <2>1, <2>2, <2>4, RecordedType
    <3>2. progress' = now
      BY <2>2, <2>4 DEF Progress
    <3>3. /\ Failed(n.kind).at = now /\ ~Failed(n.kind).emitted /\ ~Failed(n.kind).recovered
      BY DEF Failed
    <3>4. ASSUME NEW i \in DOMAIN fails
          PROVE  /\ fails'[i].at <= progress'
                 /\ fails'[i].emitted => fails'[i].tool \in reported'
                 /\ settings'.warn \notin 1..Window - 1 /\ fails'[i].recovered /\ ~fails'[i].heard =>
                      \/ fails'[i].tool \in reported'
                      \/ \E j \in DOMAIN fails' : j > i /\ fails'[j].tool = fails'[i].tool
      <4>1. fails[i].at <= progress'
        BY <1>1, <1>2, <2>3 DEF Pending
      <4> QED
        BY <1>3, <2>2, <3>1, <4>1 DEF Pending
    <3> QED
      BY <1>1, <3>1, <3>2, <3>3, <3>4 DEF Pending
  <2>5. CASE n.kind \in {"message", "activity"}
    <3>1. fails' = AllClosed
      BY <2>1, <2>2, <2>5, RecordedType
    <3>2. /\ DOMAIN fails' = DOMAIN fails
          /\ \A i \in DOMAIN fails :
               fails'[i].at = fails[i].at /\ fails'[i].heard /\ fails'[i].tool = fails[i].tool
               /\ fails'[i].emitted = fails[i].emitted
      BY <1>1, <3>1, AllClosedType
    <3>3. \A i \in DOMAIN fails : fails[i].at <= progress'
      BY <1>1, <1>2, <2>3 DEF Pending
    <3> QED
      BY <2>2, <3>2, <3>3 DEF Pending
  <2>6. CASE n.kind \in {"completed", "failed"}
    <3>1. fails' = fails
      BY <2>1, <2>2, <2>6, RecordedType
    <3>2. \A i \in DOMAIN fails : fails[i].at <= progress'
      BY <1>1, <1>2, <2>3 DEF Pending
    <3> QED
      BY <1>3, <2>2, <3>1, <3>2 DEF Pending
  <2> QED
    BY <2>1, <2>4, <2>5, <2>6 DEF Note, Kinds
<1>8. CASE Quiet \/ Warn \/ Interrupt
  <2>1. /\ Report \/ (Warn /\ fails' = [i \in DOMAIN fails |-> [fails[i] EXCEPT !.recovered = TRUE]])
        /\ reported' = reported \union DueTools
        /\ progress' = progress
    BY <1>8 DEF Quiet, Warn, Interrupt, Report
  <2>2. DOMAIN fails' = DOMAIN fails
    BY <2>1, LookedType
  <2> SUFFICES ASSUME NEW i \in DOMAIN fails
               PROVE  /\ fails'[i].at <= progress'
                      /\ fails'[i].emitted => fails'[i].tool \in reported'
                      /\ settings'.warn \notin 1..Window - 1 /\ fails'[i].recovered /\ ~fails'[i].heard =>
                           \/ fails'[i].tool \in reported'
                           \/ \E j \in DOMAIN fails' : j > i /\ fails'[j].tool = fails'[i].tool
    BY <2>2 DEF Pending
  <2>3. \A j \in DOMAIN fails :
          /\ fails'[j].tool = fails[j].tool /\ fails'[j].at = fails[j].at
          /\ fails'[j].heard = fails[j].heard
          /\ fails'[j].emitted => fails[j].emitted \/ fails[j].tool \in DueTools
          /\ Report => fails'[j].recovered = fails[j].recovered
    BY <2>1, LookedType
  <2>4. fails'[i].at <= progress' /\ (fails'[i].emitted => fails'[i].tool \in reported')
    BY <2>1, <2>3 DEF Pending
  <2>5. ASSUME settings.warn \notin 1..Window - 1, fails'[i].recovered, ~fails[i].heard,
               ~\E j \in DOMAIN fails : j > i /\ fails[j].tool = fails[i].tool
        PROVE  fails[i].tool \in reported'
    <3>1. CASE fails[i].recovered
      BY <2>1, <2>5, <3>1 DEF Pending
    <3>2. CASE Warn
      <4>1. settings.warn # 0 /\ now - progress >= settings.warn
        BY <3>2 DEF Warn, Warning
      <4>2. settings.warn >= Window
        BY <1>1, <2>5, <4>1
      <4>3. now - fails[i].at >= Window
        <5>1. fails[i].at <= progress
          BY DEF Pending
        <5> QED
          BY <1>1, <1>2, <4>1, <4>2, <5>1
      <4> QED
        BY <2>1, <2>5, <4>3, SilentIsDue
    <3> QED
      BY <2>1, <2>3, <2>5, <3>1, <3>2
  <2> QED
    BY <1>3, <2>2, <2>3, <2>4, <2>5
<1> QED
  BY <1>4, <1>5, <1>6, <1>7, <1>8 DEF Next, Invocation

LEMMA RealNext ==
  TypeOK /\ Course /\ Second /\ Notes /\ Logged /\ SuccessIsReal /\ [Next]_vars => SuccessIsReal'
<1> SUFFICES ASSUME TypeOK, Course, Second, Notes, Logged, SuccessIsReal, [Next]_vars
             PROVE  SuccessIsReal'
  OBVIOUS
<1>1. /\ state \in [Turns -> {"none", "running", "completed", "failed", "cut"}]
      /\ 1 \in Turns /\ Turns = {1, 2}
      /\ told \in Seq(Events)
      /\ used \in [notes : Nat, steers : steers..MaxSteers, deaths : Nat, lost : BOOLEAN]
  BY DEF TypeOK, ServerOK, Turns, ExecOK, Events, UsedOK
<1>2. ASSUME exit' \in {"open", "raised"} \/ (settings'.mode = "server" /\ exit' # "ok")
      PROVE  SuccessIsReal'
  BY <1>2 DEF SuccessIsReal
<1>3. CASE UNCHANGED vars
  BY <1>3 DEF vars, server, io, rest, exec, SuccessIsReal, Structured
<1>4. CASE Send \/ Die \/ ReaderEnds
  <2>1. exit' = exit /\ settings' = settings
    BY <1>4 DEF Send, Die, ReaderEnds, rest
  <2>2. pc \notin {"close", "ended"}
    <3>1. pc # "close" /\ (children > 0 \/ reading)
      BY <1>4 DEF Send, Die, ReaderEnds
    <3> QED
      BY <3>1 DEF Course
  <2>3. exit = "open"
    BY <2>2 DEF Course
  <2> QED
    BY <1>2, <2>1, <2>3
<1>5. CASE FeatureTest \/ ProbeWrapper \/ Inspect \/ CheckpointWals \/ PreSpawn \/ Gate
           \/ NoBinary \/ Initialize \/ InitializeTimesOut \/ Restart \/ Thread \/ OpenTurn
           \/ ExecRun \/ ExecPrints \/ ExecExits
           \/ Steer \/ Steered \/ Hook \/ Empty \/ Lost \/ Quiet \/ Warn \/ Interrupt
           \/ ResumeFails \/ TimeOut
  <2>1. pc \notin {"close", "ended"}
    BY <1>5 DEF FeatureTest, ProbeWrapper, Inspect, CheckpointWals, PreSpawn, Gate, NoBinary,
                Initialize, InitializeTimesOut, Restart, Thread, OpenTurn, ExecRun, ExecPrints,
                ExecExits, Steer, Steered, InTime, Hook, Empty, Lost, Quiet, Warn, Interrupt, ResumeFails,
                TimeOut
  <2>2. exit = "open"
    BY <2>1 DEF Course
  <2>3. exit' \in {exit, "raised"} \/ (exit' \in {"error", "timeout"} /\ settings'.mode = settings.mode
                                       /\ pc \notin {"probe", "wrapper", "begin", "exec", "ended"})
    BY <1>5 DEF FeatureTest, ProbeWrapper, Inspect, CheckpointWals, PreSpawn, Gate, NoBinary,
                Initialize, InitializeTimesOut, Restart, Thread, ThreadStart, ThreadFork, OpenTurn,
                ExecRun, ExecPrints, ExecExits, Steer, Steered, InTime, Hook, Empty, Lost, Quiet, Warn,
                Interrupt, ResumeFails, TimeOut, Goto, Fail, Launched, rest
  <2>4. settings.mode \in {"server", "exec"}
    BY DEF TypeOK, ExecOK, Settings
  <2> QED
    BY <1>2, <2>2, <2>3, <2>4 DEF Course
<1>6. CASE ExecTimesOut \/ ExecEnds
  <2>1. PICK success \in BOOLEAN :
          /\ told' = told \o Terminal(success)
          /\ exit' \in IF success THEN {"ok"} ELSE {"error", "timeout"}
          /\ success => out.code = 0 /\ Structured /\ state' = state
    <3>1. CASE ExecTimesOut
      BY <3>1 DEF ExecTimesOut
    <3>2. CASE ExecEnds
      BY <3>2 DEF ExecEnds, server
    <3> QED
      BY <1>6, <3>1, <3>2
  <2>2. UNCHANGED <<answer, used, out, settings>>
    BY <1>6 DEF ExecTimesOut, ExecEnds, io
  <2>3. pc = "exec" /\ told = Started
    BY <1>6 DEF ExecTimesOut, ExecEnds, Logged
  <2>4. Len(told) = 1 /\ told[1] = "turn_started"
    BY <2>3 DEF Started
  <2>5. /\ told'[1] = "turn_started"
        /\ told'[Len(told')] = IF success THEN "turn_completed" ELSE "turn_failed"
    <3> DEFINE all == told \o Terminal(success)
    <3>1. /\ \A i \in 1..Len(told) : all[i] = told[i]
          /\ all[Len(all)] = IF success THEN "turn_completed" ELSE "turn_failed"
      BY <1>1, TerminalType
    <3>2. told' = all
      BY <2>1
    <3> HIDE DEF all
    <3>3. all[1] = told[1]
      BY <2>4, <3>1
    <3> QED
      BY <2>4, <3>1, <3>2, <3>3
  <2>6. success => state'[1] = "completed" /\ Structured'
    BY <2>1, <2>2, <2>3 DEF Logged, Structured
  <2>7. 0 \notin answer \/ used.lost
    BY DEF Second
  <2> QED
    BY <1>1, <2>1, <2>2, <2>5, <2>6, <2>7 DEF SuccessIsReal
<1>7. CASE Handle
  <2>1. settings' = settings /\ settings.mode = "server" /\ state' = state /\ used' = used
    BY <1>7 DEF Handle, rest, server, Course, TypeOK, ExecOK, Settings
  <2>2. SUFFICES ASSUME exit' = "ok" PROVE SuccessIsReal'
    BY <1>2, <2>1
  <2>3. exit = "open"
    BY <1>7 DEF Handle, Course
  <2>4. Head(queue).kind = "completed"
    BY <1>7, <2>2, <2>3 DEF Handle, Goto, Fail
  <2>5. queue # <<>> /\ Head(queue) = queue[1] /\ 1 \in DOMAIN queue /\ queue[1] \in Note
    <3> DEFINE N == Note
    <3> HIDE DEF N
    <3>1. queue \in Seq(N) /\ queue # <<>>
      BY <1>7 DEF Handle, TypeOK, IoOK, N
    <3>2. Head(queue) = queue[1] /\ 1 \in DOMAIN queue /\ queue[1] \in N
      BY <3>1
    <3> QED
      BY <3>1, <3>2 DEF N
  <2>6. state[queue[1].turn] = "completed" /\ queue[1].turn \in Turns
    BY <2>4, <2>5 DEF Notes, Note
  <2>7. 0 \in answer' => used'.lost
    <3>1. answer' \in {answer, {queue[1].turn}}
      BY <1>7, <2>5 DEF Handle
    <3> QED
      BY <1>1, <2>1, <2>6, <3>1 DEF Second
  <2> QED
    BY <2>1, <2>6, <2>7 DEF SuccessIsReal
<1>8. CASE Resume
  <2>1. settings' = settings /\ settings.mode = "server"
    BY <1>8 DEF Resume, rest, Course, TypeOK, ExecOK, Settings
  <2>2. SUFFICES ASSUME exit' = "ok" PROVE SuccessIsReal'
    BY <1>2, <2>1
  <2>3. exit = "open" /\ ~used.lost /\ 0 \notin answer
    BY <1>8 DEF Resume, Course, Second, Loop
  <2>4. PICK lost \in BOOLEAN, said \in BOOLEAN, forked \in BOOLEAN :
          LET s == Snapshot(lost, forked) IN
          /\ used' = [used EXCEPT !.lost = lost]
          /\ answer' = IF said /\ s.turn # {} THEN s.turn ELSE answer
          /\ said /\ s.ended /\ state' = state
    BY <1>8, <2>2, <2>3 DEF Resume, Goto, Fail
  <2>5. used'.lost = lost
    BY <1>1, <2>4
  <2>6. ~lost => state[1] \in {"completed", "cut"} /\ answer' = {1}
    BY <2>4 DEF Snapshot
  <2> QED
    BY <1>1, <2>1, <2>4, <2>5, <2>6 DEF SuccessIsReal
<1>9. CASE Close
  <2>1. settings' = settings /\ settings.mode = "server" /\ UNCHANGED <<answer, used>>
    BY <1>9 DEF Close, rest, Course, TypeOK, ExecOK, Settings
  <2>2. SUFFICES ASSUME exit' = "ok" PROVE SuccessIsReal'
    BY <1>2, <2>1
  <2>3. exit = "ok"
    BY <1>9, <2>2 DEF Close
  <2>4. \A t \in Turns : state[t] \in {"completed", "cut"} => state'[t] = state[t]
    BY <1>9, TurnsStay DEF Close, Closed
  <2> QED
    BY <2>1, <2>3, <2>4 DEF SuccessIsReal
<1> QED
  BY <1>3, <1>4, <1>5, <1>6, <1>7, <1>8, <1>9 DEF Next, Invocation

-----------------------------------------------------------------------------
(* Theorems. *)

LEMMA InvNext == TurnInv /\ [Next]_vars => TurnInv'
<1> SUFFICES ASSUME TurnInv, [Next]_vars PROVE TurnInv'
  OBVIOUS
<1>1. TypeOK /\ Course /\ Fresh /\ Second /\ Notes /\ Logged /\ Pending /\ SuccessIsReal
  BY DEF TurnInv
<1>2. TypeOK' /\ Course' /\ Fresh'
  BY <1>1, TypesNext, CourseNext, FreshNext
<1>3. Second' /\ Notes' /\ Logged'
  BY <1>1, SecondNext, NotesNext, LoggedNext
<1>4. Pending' /\ SuccessIsReal'
  BY <1>1, PendingNext, RealNext
<1> QED
  BY <1>2, <1>3, <1>4 DEF TurnInv

\* The invariant holds of an invocation at every moment.
THEOREM TurnInvariant == Spec => []TurnInv
  BY InvInit, InvNext, PTL DEF Spec

\* Whatever the start, the retries, the restart and the end do, no invocation
\* has two children, and it leaves none: also a child that runs on when its
\* reader has ended is closed before the next is started.
THEOREM OneChildHolds == Spec => []OneChild
<1>1. TurnInv => OneChild
  BY DEF TurnInv, Course, OneChild
<1> QED
  BY <1>1, TurnInvariant, PTL

\* A success stands for a turn that has ended at the server, or for an exec
\* child that has exited with 0; the log of an exec turn says how it ended.
THEOREM SuccessIsRealHolds == Spec => []SuccessIsReal
<1>1. TurnInv => SuccessIsReal
  BY DEF TurnInv
<1> QED
  BY <1>1, TurnInvariant, PTL

\* When the loop leaves the poll that found nothing, a failed tool after which
\* nothing was heard for the window, and no child was recovered, has been reported.
THEOREM SilenceIsReportedHolds == Spec => SilenceIsReported
<1> DEFINE Reports ==
      pc = "quiet" /\ pc' # "quiet" /\ Alive /\ settings.warn \notin 1..Window - 1 =>
        \A i \in DOMAIN fails : ~fails[i].heard /\ now - fails[i].at >= Window =>
          \/ fails[i].tool \in reported'
          \/ \E j \in DOMAIN fails : j > i /\ fails[j].tool = fails[i].tool
<1>1. TurnInv /\ [Next]_vars => [Reports]_vars
  <2> SUFFICES ASSUME TurnInv, Next, pc = "quiet", pc' # "quiet", Alive,
                      settings.warn \notin 1..Window - 1,
                      NEW i \in DOMAIN fails, ~fails[i].heard, now - fails[i].at >= Window,
                      ~\E j \in DOMAIN fails : j > i /\ fails[j].tool = fails[i].tool
               PROVE  fails[i].tool \in reported'
    OBVIOUS
  <2>1. reported' = reported \union DueTools
    <3>1. Quiet \/ Warn \/ Interrupt
      BY DEF Next, Invocation, Alive, FeatureTest, ProbeWrapper, Inspect, CheckpointWals, PreSpawn,
             Gate, NoBinary, Initialize, InitializeTimesOut, Thread, OpenTurn, ExecRun,
             ExecTimesOut, ExecEnds, Steer, Steered, InTime, Hook, Handle, Empty, Lost, Restart,
             ResumeFails, Resume, TimeOut, Close, Send, Die, ReaderEnds, ExecPrints, ExecExits
    <3> QED
      BY <3>1 DEF Quiet, Warn, Interrupt, Report
  <2> QED
    BY <2>1, SilentIsDue DEF TurnInv
<1> QED
  BY <1>1, TurnInvariant, PTL DEF Spec, SilenceIsReported
=============================================================================
