------------------------------ MODULE Postbox ------------------------------
(* What an inbox promises: messages are posted several at a time, and taken *)
(* all at once; nothing is lost, repeated or reordered.                     *)
EXTENDS SequencesExt

VARIABLES box,   \* what has been posted and not taken
          got    \* what has been taken

Init == box = <<>> /\ got = <<>>

\* Something new is put behind what is there.
Post ==
  /\ Len(box') > Len(box)
  /\ IsPrefix(box, box')
  /\ \A i \in Len(box) + 1..Len(box') : box'[i] \notin ToSet(box \o got)
  /\ UNCHANGED got

\* Everything there is is taken.
Take == box # <<>> /\ got' = got \o box /\ box' = <<>>

Spec == Init /\ [][Post \/ Take]_<<box, got>>
=============================================================================
