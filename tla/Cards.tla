-------------------------------- MODULE Cards --------------------------------
(***************************************************************************)
(* Agent Cards: the file manifests/<name>.json in which each teammate says *)
(* what it can do, the events by which registration.py tells the others    *)
(* that a card has changed or gone, and the caches of these cards          *)
(* (capability_manifest.py).  An adapter has two: one in its loop, filled  *)
(* at the start and kept up by the events it drains from its inbox, and    *)
(* one in the wrapper server of its model's child, filled when the child   *)
(* starts and brought up to date by reading the whole inbox again, without *)
(* marking it, whenever the model asks for a card.                         *)
(*                                                                         *)
(* A card is the version and the mode of the process behind it (the model  *)
(* child it drives, and with it what the card offers); the version is that *)
(* of the release and the same for every mode.                             *)
(***************************************************************************)
EXTENDS Naturals, Sequences

CONSTANTS Agents,
          Askers,     \* those whose model's child asks for cards
          CardsOf,    \* the cards a process may have, [version, mode]
          NoCard,
          Workers,    \* prewarm_concurrency()
          MaxStarts,  \* bound: starts of adapters
          MaxFaults   \* bound: reads that hang or fail, appends that fail, deaths

ASSUME CardsAssumption ==
  /\ Workers \in Nat \ {0} /\ {MaxStarts, MaxFaults} \subseteq Nat
  /\ Askers \subseteq Agents

VARIABLES
  row,      \* name -> its row in config.json: none, the host's or its own; the
            \* host's tool writes one before it starts an adapter
  card,     \* name -> its file
  box,      \* name -> its inbox: whether it is there, and the events in it
  pc,       \* name -> where its process is, up to its loop
  runs,     \* name -> the card of that process
  todo,     \* name -> whom it has still to tell of its card
  going,    \* name -> where a former process is that deregisters
  farewell, \* name -> whom that one has still to tell
  mode,     \* cache -> off, roster, load, idle
  known,    \* cache -> name -> the card cached
  names,    \* cache -> the names whose cards are still to be read
  workers,  \* cache -> the workers that do not hang
  got,      \* cache -> how many rows of the inbox it has taken
  queue,    \* cache -> of these, the ones to be applied
  prior,    \* name -> the version its next process read in its file, 0 if none,
            \* until that process writes the row
  starts, faults,
  missed    \* history: <<cache, name>>: the cache cannot know the card of name

files == <<row, card, box>>
procs == <<pc, runs, todo, going, farewell>>
caches == <<mode, known, names, workers, got, queue>>
births == <<starts, prior>>
counts == <<births, faults>>
vars == <<files, procs, caches, counts, missed>>

Loop(a) == <<a, "loop">>
Child(a) == <<a, "child">>
Caches == (Agents \X {"loop"}) \cup (Askers \X {"child"})
CachesOf(a) == {k \in Caches : k[1] = a}

Listed == {a \in Agents : row[a] # "none"}
NoInbox == [there |-> FALSE, rows |-> <<>>]
NoneKnown == [a \in Agents |-> NoCard]
Version(c) == IF c = NoCard THEN 0 ELSE c.version

Updated(a) == [of |-> a, version |-> runs[a].version, removed |-> FALSE]
Removed(a) == [of |-> a, version |-> 0, removed |-> TRUE]
Other(a) == {k \in Caches : k[1] # a}

Init ==
  /\ row \in [Agents -> {"none", "host"}] /\ card = NoneKnown
  /\ box = [a \in Agents |-> NoInbox]
  /\ pc = [a \in Agents |-> "off"] /\ runs = NoneKnown
  /\ todo = [a \in Agents |-> {}] /\ going = [a \in Agents |-> "no"]
  /\ farewell = [a \in Agents |-> {}]
  /\ mode = [k \in Caches |-> "off"] /\ known = [k \in Caches |-> NoneKnown]
  /\ names = [k \in Caches |-> {}] /\ workers = [k \in Caches |-> 0]
  /\ got = [k \in Caches |-> 0] /\ queue = [k \in Caches |-> <<>>]
  /\ prior = [a \in Agents |-> {}] /\ starts = 0 /\ faults = 0 /\ missed = {}

Faulty == faults < MaxFaults /\ faults' = faults + 1

-----------------------------------------------------------------------------
(* register() *)

\* Before it takes the lock, a process reads the version of the card that a former
\* one may have left; a read that fails finds none.  A name starts again when
\* nothing of its former process is left.
Begin(a) ==
  /\ pc[a] = "off" /\ going[a] = "no" /\ prior[a] = {}
  /\ starts < MaxStarts /\ starts' = starts + 1
  /\ \/ prior' = [prior EXCEPT ![a] = {Version(card[a])}] /\ UNCHANGED faults
     \/ prior' = [prior EXCEPT ![a] = {0}] /\ Faulty
  /\ UNCHANGED <<files, procs, caches, missed>>

\* It is killed, or finds no team, before it has registered.
KillEarly(a) ==
  /\ prior[a] # {} /\ Faulty /\ prior' = [prior EXCEPT ![a] = {}]
  /\ UNCHANGED <<files, procs, caches, starts, missed>>

\* Who else is in the file when the row is written is told, unless neither the
\* row is new nor the version another than the one that was read.
Telling(a, c) == row[a] # "own" \/ c.version \notin prior[a]

\* A mutant: only those are told whose processes have come that far themselves.
Audience_Running(a) == {b \in Listed \ {a} : pc[b] = "on"}
Audience(a) == Listed \ {a}

\* A farewell of b is yet to be applied, and no later event of it.
Pops(k, b) ==
  LET rows == IF k[2] = "child" THEN box[k[1]].rows
              ELSE queue[k] \o SubSeq(box[k[1]].rows, got[k] + 1, Len(box[k[1]].rows)) IN
    \E i \in DOMAIN rows : /\ rows[i] = Removed(b)
                          /\ \A j \in DOMAIN rows : j > i => rows[j].of # b

\* Nobody is told of card c, and cache k has or will have another one for a, or none.
Unaware(k, a, c) == ~Telling(a, c) /\ (known[k][a] # c \/ card[a] # c \/ Pops(k, a))

\* The section under the lock, in which the row is written.
Start(a, c) ==
  /\ pc[a] = "off" /\ going[a] = "no" /\ prior[a] # {} /\ prior' = [prior EXCEPT ![a] = {}]
  /\ pc' = [pc EXCEPT ![a] = "look"] /\ runs' = [runs EXCEPT ![a] = c]
  /\ row' = [row EXCEPT ![a] = "own"]
  /\ todo' = [todo EXCEPT ![a] = IF Telling(a, c) THEN Audience(a) ELSE {}]
  /\ missed' = missed \cup
       {<<k, a>> : k \in {q \in Other(a) : q[1] \notin Listed \/ Unaware(q, a, c)}}
  /\ UNCHANGED <<card, box, going, farewell, caches, starts, faults>>

\* _ensure_inbox looks for the file and writes an empty one, without the lock.
EnsureLooks(a) ==
  /\ pc[a] = "look" /\ ~box[a].there /\ pc' = [pc EXCEPT ![a] = "put"]
  /\ UNCHANGED <<files, runs, todo, going, farewell, caches, counts, missed>>

EnsurePuts(a) ==
  /\ pc[a] = "put" /\ pc' = [pc EXCEPT ![a] = "card"]
  /\ box' = [box EXCEPT ![a] = [there |-> TRUE, rows |-> <<>>]]
  /\ missed' = missed \cup {<<k, box[a].rows[i].of>> : k \in CachesOf(a), i \in DOMAIN box[a].rows}
  /\ UNCHANGED <<row, card, runs, todo, going, farewell, caches, counts>>

\* Where the process is when it has told the names in "left" no more.
AfterCast(a, left) == pc' = [pc EXCEPT ![a] = IF left = {} THEN "on" ELSE "cast"]
Boots(a, left) == mode' = [mode EXCEPT ![Loop(a)] = IF left = {} THEN "roster" ELSE "off"]

WriteCard(a) ==
  /\ pc[a] = "card" \/ (pc[a] = "look" /\ box[a].there)
  /\ AfterCast(a, todo[a]) /\ Boots(a, todo[a])
  /\ card' = [card EXCEPT ![a] = runs[a]]
  /\ UNCHANGED <<row, box, runs, todo, going, farewell>>
  /\ UNCHANGED <<known, names, workers, got, queue, counts, missed>>

Append1(b, e) == box' = [box EXCEPT ![b] = [there |-> TRUE, rows |-> Append(@.rows, e)]]

\* append_manifest_event under the lock of the inboxes, one inbox at a time.
Cast(a, b) ==
  /\ pc[a] = "cast" /\ Append1(b, Updated(a))
  /\ todo' = [todo EXCEPT ![a] = @ \ {b}]
  /\ AfterCast(a, todo[a] \ {b}) /\ Boots(a, todo[a] \ {b})
  /\ UNCHANGED <<row, card, runs, going, farewell>>
  /\ UNCHANGED <<known, names, workers, got, queue, counts, missed>>

\* An append that fails is logged, and the next one is tried.
CastFails(a, b) ==
  /\ pc[a] = "cast" /\ Faulty
  /\ todo' = [todo EXCEPT ![a] = @ \ {b}]
  /\ AfterCast(a, todo[a] \ {b}) /\ Boots(a, todo[a] \ {b})
  /\ missed' = missed \cup {<<k, a>> : k \in CachesOf(b)}
  /\ UNCHANGED <<files, runs, going, farewell, known, names, workers, got, queue, births>>

-----------------------------------------------------------------------------
(* load_startup *)

\* What cache k holds for b from now on; whoever has the card has not missed it.
Holds(k, b, c) ==
  /\ known' = [known EXCEPT ![k][b] = c]
  /\ missed' = IF c = runs[b] /\ ~Pops(k, b) THEN missed \ {<<k, b>>} ELSE missed

\* The cache is ready when there is no card left to be read.
Reading(k, left) ==
  /\ names' = [names EXCEPT ![k] = left]
  /\ mode' = [mode EXCEPT ![k] = IF left = {} THEN "idle" ELSE "load"]

\* The names are those in config.json; the cards are read by a few workers.
LoadRoster(k) ==
  /\ mode[k] = "roster" /\ Reading(k, Listed \ {k[1]})
  /\ workers' = [workers EXCEPT ![k] = Workers]
  /\ UNCHANGED <<files, procs, known, got, queue, counts, missed>>

ReadCard(k, b) ==
  /\ Reading(k, names[k] \ {b}) /\ Holds(k, b, card[b])
  /\ UNCHANGED <<files, procs, workers, got, queue, counts>>

\* The cards that are no longer in "left" are given up.
GivesUp(k, left) ==
  /\ Faulty /\ Reading(k, left)
  /\ missed' = missed \cup {<<k, n>> : n \in names[k] \ left}
  /\ UNCHANGED <<files, procs, known, got, queue, births>>

\* A read that takes too long is given up, and its worker with it; without a
\* worker the other cards are not read.
ReadHangs(k, b) ==
  /\ workers' = [workers EXCEPT ![k] = @ - 1]
  /\ GivesUp(k, IF workers[k] = 1 THEN {} ELSE names[k] \ {b})

\* A read that raises is logged.
ReadFails(k, b) == GivesUp(k, names[k] \ {b}) /\ UNCHANGED workers

-----------------------------------------------------------------------------
(* Events that come in *)

\* The loop drains its inbox: the unread rows, marked as read.
Drain(a) ==
  LET k == Loop(a) IN
    /\ mode[k] = "idle" /\ queue[k] = <<>> /\ got[k] < Len(box[a].rows)
    /\ queue' = [queue EXCEPT ![k] = SubSeq(box[a].rows, got[k] + 1, Len(box[a].rows))]
    /\ got' = [got EXCEPT ![k] = Len(box[a].rows)]
    /\ UNCHANGED <<files, procs, mode, known, names, workers, counts, missed>>

\* The model asks for somebody's card: all rows are gone through again.
Ask(a) ==
  LET k == Child(a) IN
    /\ mode[k] = "idle" /\ queue[k] = <<>> /\ Listed # {}
    /\ queue' = [queue EXCEPT ![k] = box[a].rows]
    /\ got' = [got EXCEPT ![k] = Len(box[a].rows)]
    /\ UNCHANGED <<files, procs, mode, known, names, workers, counts, missed>>

\* A card of the event's version is not read again.
Known(k, e) == known[k][e.of] # NoCard /\ e.version = Version(known[k][e.of])

\* The cached card stays as it is.
Keeps(k, b) ==
  /\ UNCHANGED known
  /\ missed' = IF known[k][b] = runs[b] THEN missed ELSE missed \cup {<<k, b>>}

TakesNext(k) ==
  /\ queue[k] # <<>> /\ queue' = [queue EXCEPT ![k] = Tail(@)]
  /\ UNCHANGED <<files, procs, mode, names, workers, got>>

Apply(k) ==
  LET e == Head(queue[k]) IN
    /\ TakesNext(k) /\ UNCHANGED counts
    /\ \/ e.of = k[1] /\ UNCHANGED <<known, missed>>
       \/ /\ e.of # k[1] /\ e.removed
          /\ known' = [known EXCEPT ![k][e.of] = NoCard] /\ UNCHANGED missed
       \/ e.of # k[1] /\ ~e.removed /\ Known(k, e) /\ Keeps(k, e.of)
       \/ e.of # k[1] /\ ~e.removed /\ ~Known(k, e) /\ Holds(k, e.of, card[e.of])

\* The card of an event cannot be read: the old one is kept.
ApplyFails(k) ==
  LET e == Head(queue[k]) IN
    /\ TakesNext(k) /\ e.of # k[1] /\ ~e.removed /\ ~Known(k, e)
    /\ Keeps(k, e.of) /\ Faulty /\ UNCHANGED births

-----------------------------------------------------------------------------
(* The child, and the end of a process *)

StartChild(a) ==
  /\ mode[Loop(a)] = "idle" /\ mode[Child(a)] = "off"
  /\ mode' = [mode EXCEPT ![Child(a)] = "roster"]
  /\ UNCHANGED <<files, procs, known, names, workers, got, queue, counts, missed>>

\* The caches in S are gone; the marks in the inbox stay.
Forget(S) ==
  /\ mode' = [k \in Caches |-> IF k \in S THEN "off" ELSE mode[k]]
  /\ known' = [k \in Caches |-> IF k \in S THEN NoneKnown ELSE known[k]]
  /\ names' = [k \in Caches |-> IF k \in S THEN {} ELSE names[k]]
  /\ workers' = [k \in Caches |-> IF k \in S THEN 0 ELSE workers[k]]
  /\ queue' = [k \in Caches |-> IF k \in S THEN <<>> ELSE queue[k]]
  /\ got' = [k \in Caches |-> IF k \in S /\ k[2] = "child" THEN 0 ELSE got[k]]

Off(a) == pc' = [pc EXCEPT ![a] = "off"] /\ runs' = [runs EXCEPT ![a] = NoCard]

\* An approved shutdown ends the loop, and deregister() takes the row out; who
\* is in the file then is told.
Leave(a) ==
  /\ mode[Loop(a)] = "idle" /\ going[a] = "no"
  /\ Off(a) /\ going' = [going EXCEPT ![a] = "card"]
  /\ row' = [row EXCEPT ![a] = "none"]
  /\ farewell' = [farewell EXCEPT ![a] = Listed \ {a}]
  /\ Forget(CachesOf(a))
  /\ UNCHANGED <<card, box, todo, counts, missed>>

LeaveCard(a) ==
  /\ going[a] = "card" /\ going' = [going EXCEPT ![a] = "cast"]
  /\ card' = [card EXCEPT ![a] = NoCard]
  /\ UNCHANGED <<row, box, pc, runs, todo, farewell, caches, counts, missed>>

LeaveCast(a, b) ==
  /\ going[a] = "cast" /\ Append1(b, Removed(a))
  /\ farewell' = [farewell EXCEPT ![a] = @ \ {b}]
  /\ UNCHANGED <<row, card, pc, runs, todo, going, caches, counts, missed>>

\* The inbox goes, without the lock.
Unlinked(a) ==
  /\ box' = [box EXCEPT ![a] = NoInbox]
  /\ got' = [k \in Caches |-> IF k[1] = a THEN 0 ELSE got[k]]

LeaveBox(a) ==
  /\ going[a] = "cast" /\ farewell[a] = {} /\ going' = [going EXCEPT ![a] = "no"]
  /\ Unlinked(a)
  /\ UNCHANGED <<row, card, pc, runs, todo, farewell>>
  /\ UNCHANGED <<mode, known, names, workers, queue, counts, missed>>

\* SIGKILL, at any step up to the loop or in it.
Kill(a) ==
  /\ pc[a] # "off" /\ Faulty /\ Off(a)
  /\ todo' = [todo EXCEPT ![a] = {}] /\ Forget(CachesOf(a))
  /\ UNCHANGED <<files, going, farewell, missed, births>>

\* The lead's teardown removes what is left of a process that died; it tells nobody.
CleanUp(a) ==
  /\ pc[a] = "off" /\ going[a] = "no" /\ row[a] = "own"
  /\ row' = [row EXCEPT ![a] = "none"] /\ card' = [card EXCEPT ![a] = NoCard]
  /\ Unlinked(a)
  /\ UNCHANGED <<procs, mode, known, names, workers, queue, counts, missed>>

-----------------------------------------------------------------------------
Next ==
  \/ \E a \in Agents :
       \/ Begin(a) \/ KillEarly(a)
       \/ \E c \in CardsOf : Start(a, c)
       \/ EnsureLooks(a) \/ EnsurePuts(a) \/ WriteCard(a)
       \/ \E b \in todo[a] : Cast(a, b) \/ CastFails(a, b)
       \/ \E b \in farewell[a] : LeaveCast(a, b)
       \/ Drain(a)
       \/ Leave(a) \/ LeaveCard(a) \/ LeaveBox(a)
       \/ Kill(a) \/ CleanUp(a)
  \/ \E a \in Askers : StartChild(a) \/ Ask(a)
  \/ \E k \in Caches :
       \/ LoadRoster(k) \/ Apply(k) \/ ApplyFails(k)
       \/ \E b \in names[k] : ReadCard(k, b) \/ ReadHangs(k, b) \/ ReadFails(k, b)

Spec == Init /\ [][Next]_vars

-----------------------------------------------------------------------------
\* Every cache that has caught up with its inbox holds the card of every peer
\* that is up, as that peer wrote it, unless the change could not reach it: the
\* peer wrote its row before the cache's owner joined and its card after the
\* owner had read it; the peer told nobody, as its row and its version were there
\* already (from a process that was killed, perhaps before it had told all), and
\* the cache had another card or a farewell to come; the append or a read of the
\* card failed; or the owner's empty inbox replaced the event.
KnowsItsPeers ==
  \A k \in Caches, b \in Agents :
     /\ mode[k] = "idle" /\ queue[k] = <<>> /\ got[k] = Len(box[k[1]].rows)
     /\ mode[Loop(b)] = "idle" /\ k[1] # b
     => known[k][b] = runs[b] \/ <<k, b>> \in missed
=============================================================================
