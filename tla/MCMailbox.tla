----------------------------- MODULE MCMailbox -----------------------------
(***************************************************************************)
(* Mailbox on two small instances, of which a behaviour picks one: a       *)
(* stable inbox that is read as a whole, and one that is unlinked and      *)
(* registered again, with reads by sender and deaths.                      *)
(***************************************************************************)
EXTENDS Mailbox

CONSTANTS w1, w2

VARIABLE plan   \* the instance

MCInit == Init /\ plan \in {"steady", "churn"}

Undisturbed == plan = "steady" /\ StableStep

\* Each writer stops a message short.
Churn ==
  /\ plan = "churn"
  /\ \/ \E w \in Writers : WriterStep(w)
     \/ \E w \in Writers, n \in 1..MaxBatch : count[w] + n < MaxSends /\ Send(w, n)
     \/ OwnerStep \/ Deregister \/ CleanUp
     \/ \E p \in Writers \union {Owner} : Crash(p)

MCNext == (Undisturbed \/ Churn) /\ UNCHANGED plan

MCSpec == MCInit /\ [][MCNext]_<<vars, plan>> /\ Fairness

\* The inbox as a postbox, as long as it is stable: rows count as soon as their
\* rewrite is done.
Stable == plan = "steady"
Box == INSTANCE Postbox WITH box <- IF Stable THEN Waiting ELSE <<>>,
                             got <- IF Stable THEN handled \o hand ELSE <<>>
ImplementsPostbox == Box!Spec

\* What was acknowledged is handled in the end, if the file is stable.
EventuallyHandled ==
  \A n \in Message : Stable /\ n \in acked ~> n \in ToSet(handled)
=============================================================================
