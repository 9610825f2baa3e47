----------------------------- MODULE MCFileLock -----------------------------
(* FileLock on small instances: two threads in one process, one in another. *)
EXTENDS Integers

CONSTANTS Threads, Procs, process, NoThread, Timeouts, MaxDepth, MaxDeaths, MaxRemovals,
          t1, t2, t3, p1, p2

VARIABLES at, rlock, depth, counter, lockfile, held, limit, waited, deaths, removals

Lock == INSTANCE FileLock WITH Nobody <- NoThread, pc <- at, file <- lockfile

ASSUME LockAssumption == Lock!LockConstants

TheProcess == [t \in Threads |-> IF t = t3 THEN p2 ELSE p1]
All == {-1, 0, 1}

LockSpec == Lock!Spec

\* The locks of a path, on this instance (file_lock).
MutualExclusion == Lock!MutualExclusion
NothingLeaked == Lock!NothingLeaked
EveryCallEnds == Lock!EveryCallEnds
=============================================================================
