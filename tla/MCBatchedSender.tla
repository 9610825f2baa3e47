-------------------------- MODULE MCBatchedSender --------------------------
(* BatchedSender on small instances. *)
EXTENDS Integers

CONSTANTS Senders, MaxPerSender, MaxFailures, MayClose, s1, s2

VARIABLES closed, buffer, timer, running, hands, stage, caller, sends, inbox, failures

Batch == INSTANCE BatchedSender WITH MaxSends <- MaxPerSender, pc <- stage, count <- sends

ASSUME BatchedAssumption == Batch!BatchedConstants

BatchSpec == Batch!Spec

\* The messages to one recipient, on this instance (BatchedSender).
ExactlyOnce == Batch!ExactlyOnce
EventuallyPosted == Batch!EventuallyPosted
=============================================================================
