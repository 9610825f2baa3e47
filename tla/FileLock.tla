------------------------------ MODULE FileLock ------------------------------
(***************************************************************************)
(* file_lock(path, timeout) of claude_teams/_filelock.py, for one path:    *)
(* an RLock between the threads of a process, and inside it a lock of the  *)
(* operating system on the file between processes.  Both are re-entrant in *)
(* a thread: they are cached for the path, so that write_config inside     *)
(* config_lock does not wait for itself.  Each of the two waits of a call  *)
(* is bounded by the caller's timeout; a negative one means for ever.      *)
(*                                                                         *)
(* Time is counted in ticks.  The lock of the operating system belongs to  *)
(* the file, not to the path: delete_team and force_kill_team remove the   *)
(* directory a lock file is in, whoever holds it, and the next call makes  *)
(* a new file.                                                             *)
(***************************************************************************)
EXTENDS Integers

CONSTANTS Threads,
          Procs,
          process,      \* thread -> the process it runs in
          Nobody,
          Timeouts,     \* timeouts callers give, in ticks
          MaxDepth,     \* bound: nesting of calls in a thread
          MaxDeaths,    \* bound: processes that die
          MaxRemovals   \* bound: removals of the lock file

\* What the constants may be.
LockConstants ==
  /\ process \in [Threads -> Procs]
  /\ Nobody \notin Threads
  /\ Timeouts \subseteq Int
  /\ MaxDepth \in Nat /\ MaxDeaths \in Nat /\ MaxRemovals \in Nat

VARIABLES
  pc,       \* "out", waiting for the "thread" or the "file" lock, "in" the
            \* body, "leaving" it
  rlock,    \* process -> the thread that holds the RLock
  depth,    \* thread -> how often it holds the RLock
  counter,  \* thread -> the FileLock's recursion counter in that thread
  file,     \* the number of the file that is at the path
  held,     \* thread -> the number of the file it has locked, or 0
  limit,    \* thread -> the timeout of its last call
  waited,   \* thread -> ticks in the wait it is in
  deaths, removals

vars == <<pc, rlock, depth, counter, file, held, limit, waited, deaths,
          removals>>
locks == <<rlock, depth, counter, held>>
world == <<file, deaths, removals>>

Waiting(t) == pc[t] \in {"thread", "file"}
Holders(f) == {t \in Threads : held[t] = f}

TypeOK ==
  /\ pc \in [Threads -> {"out", "thread", "file", "in", "leaving"}]
  /\ rlock \in [Procs -> Threads \union {Nobody}]
  /\ depth \in [Threads -> Nat] /\ counter \in [Threads -> Nat]
  /\ file \in Nat \ {0} /\ held \in [Threads -> Nat]
  /\ limit \in [Threads -> Int]
  /\ waited \in [Threads -> Nat]
  /\ deaths \in Nat /\ removals \in Nat

Init ==
  /\ pc = [t \in Threads |-> "out"]
  /\ rlock = [p \in Procs |-> Nobody]
  /\ depth = [t \in Threads |-> 0] /\ counter = [t \in Threads |-> 0]
  /\ file = 1 /\ held = [t \in Threads |-> 0]
  /\ limit = [t \in Threads |-> 0]
  /\ waited = [t \in Threads |-> 0]
  /\ deaths = 0 /\ removals = 0

Goto(t, l) == pc' = [pc EXCEPT ![t] = l]

-----------------------------------------------------------------------------
Call(t, timeout) ==
  /\ pc[t] \in {"out", "in"}
  /\ depth[t] < MaxDepth
  /\ Goto(t, "thread")
  /\ limit' = [limit EXCEPT ![t] = timeout]
  /\ waited' = [waited EXCEPT ![t] = 0]
  /\ UNCHANGED <<locks, world>>

\* thread_lock.acquire
TakeThread(t) ==
  /\ pc[t] = "thread"
  /\ rlock[process[t]] \in {Nobody, t}
  /\ rlock' = [rlock EXCEPT ![process[t]] = t]
  /\ depth' = [depth EXCEPT ![t] = @ + 1]
  /\ waited' = [waited EXCEPT ![t] = 0]
  /\ Goto(t, "file")
  /\ UNCHANGED <<counter, held, limit, world>>

\* A wait has lasted as long as the caller allows.
TimedOut(t) == limit[t] >= 0 /\ waited[t] >= limit[t]

Return(t) == Goto(t, IF counter[t] = 0 THEN "out" ELSE "in")

ThreadTimeout(t) ==
  /\ pc[t] = "thread"
  /\ rlock[process[t]] \notin {Nobody, t}
  /\ TimedOut(t)
  /\ Return(t)
  /\ UNCHANGED <<locks, limit, waited, world>>

\* FileLock.acquire: a count if the thread has it, else the lock of the file.
TakeFile(t) ==
  /\ pc[t] = "file"
  /\ counter[t] > 0 \/ Holders(file) = {}
  /\ counter' = [counter EXCEPT ![t] = @ + 1]
  /\ held' = [held EXCEPT ![t] = IF counter[t] = 0 THEN file ELSE @]
  /\ Goto(t, "in")
  /\ UNCHANGED <<rlock, depth, limit, waited, world>>

\* The RLock is given up once.
GiveUpThread(t) ==
  /\ depth' = [depth EXCEPT ![t] = @ - 1]
  /\ rlock' = [rlock EXCEPT ![process[t]] = IF depth[t] = 1 THEN Nobody ELSE @]

\* A mutant: the RLock is kept when the wait for the file times out.
FileTimeout_Leaks(t) ==
  /\ pc[t] = "file"
  /\ counter[t] = 0 /\ Holders(file) # {}
  /\ TimedOut(t)
  /\ Return(t)
  /\ UNCHANGED <<locks, limit, waited, world>>

\* A mutant: a call sets the timeout of the lock they share before it has the
\* RLock, and so that of whoever waits for the file.
FileTimeout_Shared(t) ==
  /\ pc[t] = "file"
  /\ counter[t] = 0 /\ Holders(file) # {}
  /\ TimedOut(t) /\ \A u \in Threads : process[u] = process[t] /\ pc[u] = "thread" => TimedOut(u)
  /\ GiveUpThread(t)
  /\ Return(t)
  /\ UNCHANGED <<counter, held, limit, waited, world>>

FileTimeout(t) ==
  /\ pc[t] = "file"
  /\ counter[t] = 0 /\ Holders(file) # {}
  /\ TimedOut(t)
  /\ GiveUpThread(t)
  /\ Return(t)
  /\ UNCHANGED <<counter, held, limit, waited, world>>

\* A mutant: the inner of two nested calls unlocks the file.
ReleaseFile_Inner(t) ==
  /\ pc[t] = "in"
  /\ counter' = [counter EXCEPT ![t] = @ - 1]
  /\ held' = [held EXCEPT ![t] = 0]
  /\ Goto(t, "leaving")
  /\ UNCHANGED <<rlock, depth, limit, waited, world>>

\* The body is done or has raised.
ReleaseFile(t) ==
  /\ pc[t] = "in"
  /\ counter' = [counter EXCEPT ![t] = @ - 1]
  /\ held' = [held EXCEPT ![t] = IF counter[t] = 1 THEN 0 ELSE @]
  /\ Goto(t, "leaving")
  /\ UNCHANGED <<rlock, depth, limit, waited, world>>

ReleaseThread(t) ==
  /\ pc[t] = "leaving"
  /\ GiveUpThread(t)
  /\ Return(t)
  /\ UNCHANGED <<counter, held, limit, waited, world>>

-----------------------------------------------------------------------------
\* A process dies, with all its threads, and is started again.
Die(p) ==
  LET mine == {t \in Threads : process[t] = p} IN
  /\ deaths < MaxDeaths
  /\ deaths' = deaths + 1
  /\ \E t \in mine : pc[t] # "out"
  /\ pc' = [t \in Threads |-> IF t \in mine THEN "out" ELSE pc[t]]
  /\ rlock' = [rlock EXCEPT ![p] = Nobody]
  /\ depth' = [t \in Threads |-> IF t \in mine THEN 0 ELSE depth[t]]
  /\ counter' = [t \in Threads |-> IF t \in mine THEN 0 ELSE counter[t]]
  /\ held' = [t \in Threads |-> IF t \in mine THEN 0 ELSE held[t]]
  /\ UNCHANGED <<file, limit, waited, removals>>

\* The lock file goes with its directory; a new one is made.
Remove ==
  /\ removals < MaxRemovals
  /\ removals' = removals + 1
  /\ file' = file + 1
  /\ UNCHANGED <<pc, locks, limit, waited, deaths>>

\* Time passes for those who wait; whose time is up does not wait on.
Tick ==
  LET counting == {t \in Threads : Waiting(t) /\ waited[t] < limit[t]} IN
  /\ counting # {}
  /\ waited' = [t \in Threads |-> waited[t] + IF t \in counting THEN 1 ELSE 0]
  /\ UNCHANGED <<pc, locks, limit, world>>

-----------------------------------------------------------------------------
Attempt(t) == TakeThread(t) \/ ThreadTimeout(t) \/ TakeFile(t) \/ FileTimeout(t)
Leave(t) == ReleaseFile(t) \/ ReleaseThread(t)

Next ==
  \/ \E t \in Threads : Attempt(t) \/ Leave(t) \/ \E n \in Timeouts : Call(t, n)
  \/ \E p \in Procs : Die(p)
  \/ Remove
  \/ Tick

\* Time passes, and who can go on does; a body may last for ever: nothing is
\* assumed of ReleaseFile.
Fairness == WF_vars(Tick) /\ \A t \in Threads : WF_vars(Attempt(t))

Spec == Init /\ [][Next]_vars /\ Fairness

-----------------------------------------------------------------------------
Inside(t) == counter[t] > 0

\* Two threads of one process are never inside together, whatever happens to
\* the file; two of different processes only when it was removed in between.
Exclusion ==
  \A t, u \in Threads :
     t # u /\ Inside(t) /\ Inside(u) =>
       process[t] # process[u] /\ held[t] # held[u]

\* As long as nobody removes the lock file, one thread is inside at a time.
MutualExclusion ==
  removals = 0 => \A t, u \in Threads : Inside(t) /\ Inside(u) => t = u

\* A thread that is out has left nothing locked behind, neither after a body
\* nor after a timeout in either of the two waits.
NothingLeaked ==
  \A t \in Threads :
     pc[t] = "out" => depth[t] = 0 /\ held[t] = 0 /\ rlock[process[t]] # t

\* A bounded wait: every call that gave a timeout gets in or raises, even if
\* the body of the holder never ends.
EveryCallEnds ==
  \A t \in Threads : Waiting(t) /\ limit[t] >= 0 ~> ~Waiting(t)
=============================================================================
