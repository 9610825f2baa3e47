--------------------------- MODULE MailboxProofs ---------------------------
(* Theorems about Mailbox, for any writers and bounds: a message is given to *)
(* the owner once, is not lost, and a stable inbox is a postbox; about the    *)
(* batches that senders hand to it; and about the locks it is appended under. *)
EXTENDS MCMailbox, MCBatchedSender, MCFileLock, Lemmas

-----------------------------------------------------------------------------
(* The elements of a sequence that are in a set. *)

\* One step of the recursion in Those.
Keeping(s, S, g, n) ==
  IF n = 0 THEN <<>> ELSE IF s[n] \in S THEN Append(g[n - 1], s[n]) ELSE g[n - 1]

\* The recursive function is there, however far it goes.
LEMMA KeepingExists ==
  ASSUME NEW s, NEW S, NEW k \in Nat
  PROVE  \E g : g = [n \in 0..k |-> Keeping(s, S, g, n)]
<1> DEFINE G(n, g) == g = [i \in 0..n |-> Keeping(s, S, g, i)]
           P == {n \in Nat : \E g : G(n, g)}
<1>1. 0 \in P
  <2> DEFINE g == [i \in 0..0 |-> <<>>]
  <2>1. G(0, g)
    BY DEF Keeping
  <2> QED
    BY <2>1
<1>2. ASSUME NEW n \in Nat, n \in P PROVE n + 1 \in P
  <2>1. PICK g : g = [i \in 0..n |-> Keeping(s, S, g, i)]
    BY <1>2
  <2> DEFINE h == [i \in 0..n + 1 |-> IF i <= n THEN g[i] ELSE Keeping(s, S, g, i)]
  <2>2. \A i \in 0..n : h[i] = g[i]
    OBVIOUS
  <2>3. \A i \in 0..n + 1 : Keeping(s, S, h, i) = Keeping(s, S, g, i)
    <3> TAKE i \in 0..n + 1
    <3>1. CASE i = 0
      BY <3>1 DEF Keeping
    <3>2. CASE i # 0
      <4>1. i - 1 \in 0..n
        BY <3>2
      <4>2. h[i - 1] = g[i - 1]
        BY <2>2, <4>1
      <4> QED
        BY <4>2 DEF Keeping
    <3> QED
      BY <3>1, <3>2
  <2>4. \A i \in 0..n + 1 : h[i] = Keeping(s, S, g, i)
    BY <2>1
  <2>5. h = [i \in 0..n + 1 |-> h[i]]
    OBVIOUS
  <2> HIDE DEF h
  <2>6. G(n + 1, h)
    BY <2>3, <2>4, <2>5
  <2> HIDE DEF G
  <2> QED
    BY <2>6
<1> HIDE DEF P
<1>3. k \in P
  BY <1>1, <1>2, Upwards
<1>4. \E g : G(k, g)
  BY <1>3 DEF P
<1> QED
  BY <1>4

LEMMA KeepingDefines ==
  ASSUME NEW A, NEW s \in Seq(A), NEW S
  PROVE  \E g : /\ Those(s, S) = g[Len(s)]
                /\ \A n \in 0..Len(s) : g[n] = Keeping(s, S, g, n)
<1> DEFINE G(g) == g = [n \in 0..Len(s) |->
        IF n = 0 THEN <<>> ELSE IF s[n] \in S THEN Append(g[n - 1], s[n]) ELSE g[n - 1]]
           f == CHOOSE g : G(g)
<1>1. \E h : G(h)
  <2>1. Len(s) \in Nat
    OBVIOUS
  <2>2. PICK h : h = [n \in 0..Len(s) |-> Keeping(s, S, h, n)]
    BY <2>1, KeepingExists
  <2>3. G(h)
    BY <2>2 DEF Keeping
  <2> HIDE DEF G
  <2> QED
    BY <2>3
<1>2. G(f)
  <2> HIDE DEF G
  <2> QED
    BY <1>1
<1>3. Those(s, S) = f[Len(s)]
  BY DEF Those
<1>4. \A n \in 0..Len(s) : f[n] = Keeping(s, S, f, n)
  BY <1>2 DEF Keeping
<1> QED
  BY <1>3, <1>4

\* Those(s, S) holds what s and S hold, as often as s does.
LEMMA ThoseKept ==
  ASSUME NEW A, NEW s \in Seq(A), NEW S
  PROVE  /\ Those(s, S) \in Seq(A)
         /\ \A m : Contains(Those(s, S), m) <=> m \in S /\ Contains(s, m)
         /\ \A m : Once(s, m) => Once(Those(s, S), m)
<1> PICK g : /\ Those(s, S) = g[Len(s)]
             /\ \A n \in 0..Len(s) : g[n] = Keeping(s, S, g, n)
  BY KeepingDefines
<1>0. Len(s) \in Nat /\ DOMAIN s = 1..Len(s) /\ \A n \in 1..Len(s) : s[n] \in A
  OBVIOUS
<1> DEFINE In(n, m) == \E i \in 1..n : s[i] = m
           Q(n) == /\ g[n] \in Seq(A)
                   /\ \A m : Contains(g[n], m) <=> m \in S /\ In(n, m)
                   /\ \A m : Once(s, m) => Once(g[n], m)
           P == {n \in Nat : n <= Len(s) => Q(n)}
<1>1. 0 \in P
  <2>1. g[0] = <<>>
    BY <1>0 DEF Keeping
  <2>2. \A m : ~In(0, m)
    OBVIOUS
  <2>3. Q(0)
    BY <2>1, <2>2, InEmpty
  <2> QED
    BY <2>3
<1>2. ASSUME NEW n \in Nat, n \in P PROVE n + 1 \in P
  <2> SUFFICES ASSUME n + 1 <= Len(s) PROVE Q(n + 1)
    OBVIOUS
  <2>1. Q(n) /\ n + 1 \in 0..Len(s) /\ s[n + 1] \in A
    BY <1>0, <1>2
  <2>2. g[n + 1] = IF s[n + 1] \in S THEN Append(g[n], s[n + 1]) ELSE g[n]
    <3>1. g[n + 1] = Keeping(s, S, g, n + 1) /\ (n + 1) - 1 = n /\ n + 1 # 0
      BY <2>1
    <3> QED
      BY <3>1 DEF Keeping
  <2>3. \A m : In(n + 1, m) <=> In(n, m) \/ s[n + 1] = m
    OBVIOUS
  <2>4. \A m : Once(s, m) /\ In(n, m) => m # s[n + 1]
    <3> TAKE m
    <3> HAVE Once(s, m) /\ In(n, m)
    <3>1. PICK i \in 1..n : s[i] = m
      OBVIOUS
    <3>2. i \in DOMAIN s /\ n + 1 \in DOMAIN s /\ i # n + 1
      BY <1>0
    <3> QED
      BY <3>1, <3>2 DEF Once
  <2>5. CASE s[n + 1] \in S
    <3>1. \A m : /\ Contains(g[n + 1], m) <=> Contains(g[n], m) \/ m = s[n + 1]
                 /\ Once(g[n], m) /\ ~(m = s[n + 1] /\ Contains(g[n], m)) => Once(g[n + 1], m)
      BY <2>1, <2>2, <2>5, InAppend
    <3>2. g[n + 1] \in Seq(A)
      BY <2>1, <2>2, <2>5
    <3> HIDE DEF In
    <3> QED
      BY <2>1, <2>3, <2>4, <2>5, <3>1, <3>2
  <2>6. CASE s[n + 1] \notin S
    <3>1. g[n + 1] = g[n]
      BY <2>2, <2>6
    <3> HIDE DEF In
    <3> QED
      BY <2>1, <2>3, <2>6, <3>1
  <2> QED
    BY <2>5, <2>6
<1>3. \A m : In(Len(s), m) <=> Contains(s, m)
  BY DEF Contains
<1> HIDE DEF Q
<1>4. Len(s) \in P
  <2> HIDE DEF P
  <2> QED
    BY <1>0, <1>1, <1>2, Upwards
<1>5. Q(Len(s))
  BY <1>0, <1>4
<1> HIDE DEF In
<1> QED
  BY <1>3, <1>5 DEF Q

-----------------------------------------------------------------------------
(* The inductive invariant. *)

Processes == Writers \union {Owner}

\* The lock is with whoever is at its two steps; the file at the path is open for
\* whoever has truncated it, and nobody else has written since.
Locking ==
  /\ \A p \in Processes : lock = p <=> pc[p] \in {"locked", "open"}
  /\ open # Nobody => open = lock /\ pc[open] = "open" /\ path = "torn"
  /\ lock # Nobody => msgs = <<>> \/ (msgs = buf /\ pc[lock] = "locked")

\* A writer's batch are the last messages it has counted.
Sending ==
  \A w \in Writers :
     /\ Len(batch[w]) <= count[w]
     /\ \A i \in DOMAIN batch[w] : batch[w][i] = <<w, count[w] - Len(batch[w]) + i>>

\* A message that is in nobody's batch yet.
Old(m) == m[2] <= count[m[1]] - Len(batch[m[1]])

\* What of an array is still to be read.
Fresh(rows, m) == \E i \in DOMAIN rows : rows[i].msg = m /\ ~rows[i].read

\* An array holds a message once, and a fresh one is with nobody else.
Sound(rows) ==
  /\ \A i, j \in DOMAIN rows : rows[i].msg = rows[j].msg => i = j
  /\ \A i \in DOMAIN rows : Old(rows[i].msg)
  /\ \A m \in Message : Fresh(rows, m) => ~Contains(hand, m) /\ ~Contains(handled, m)

\* The owner has what it has picked, which was fresh, and then what it was given.
Reading ==
  /\ pc[Owner] \in {"locked", "open"} => picked # {} /\ \A m \in picked : Fresh(buf, m)
  /\ pc[Owner] = "handling" <=> hand # <<>>
  /\ \A m \in Message : /\ Once(hand, m) /\ Once(handled, m)
                        /\ ~(Contains(hand, m) /\ Contains(handled, m))
                        /\ Contains(hand, m) \/ Contains(handled, m) => Old(m)

BoxInv == TypeOK /\ Locking /\ Sending /\ Sound(msgs) /\ Sound(buf) /\ Reading

LEMMA BoxInit == Init => BoxInv
<1> SUFFICES ASSUME Init PROVE BoxInv
  OBVIOUS
<1>1. /\ 0 \in 0..MaxSends /\ 0 \in 0..MaxUnlinks /\ 0 \in 0..MaxCrashes
      /\ <<>> \in Seq(Row) /\ <<>> \in Seq(Message) /\ Len(<<>>) = 0 /\ DOMAIN <<>> = {}
  BY BoundsAssumption
<1>2. TypeOK
  BY <1>1 DEF Init, TypeOK
<1>3. Locking
  BY NamesAssumption DEF Init, Locking, Processes
<1>4. Sending
  BY <1>1 DEF Init, Sending
<1>5. \A rows : rows = <<>> => Sound(rows)
  BY <1>1 DEF Sound, Fresh
<1>6. Reading
  BY <1>1, NamesAssumption, InEmpty DEF Init, Reading
<1> QED
  BY <1>2, <1>3, <1>4, <1>5, <1>6 DEF Init, BoxInv

\* Rows of an array, and who is who.
LEMMA Parts ==
  ASSUME BoxInv
  PROVE  /\ msgs \in Seq(Row) /\ buf \in Seq(Row)
         /\ hand \in Seq(Message) /\ handled \in Seq(Message)
         /\ Nobody \notin Processes /\ Owner \notin Writers /\ Processes = Writers \union {Owner}
         /\ lock \in Processes \union {Nobody} /\ open \in Processes \union {Nobody}
         /\ pc \in [Processes -> {"idle", "ensure", "append", "locked", "open", "handling",
                                  "starting", "missing"}]
  BY NamesAssumption DEF BoxInv, TypeOK, Processes

\* What a writer has counted.
LEMMA Counts ==
  ASSUME BoxInv, NEW w \in Writers
  PROVE  /\ count[w] \in Nat /\ batch[w] \in Seq(Message) /\ Len(batch[w]) \in Nat
         /\ Len(batch[w]) <= count[w]
<1>1. count[w] \in Nat /\ batch[w] \in Seq(Message)
  BY BoundsAssumption DEF BoxInv, TypeOK
<1> QED
  BY <1>1 DEF BoxInv, Sending

\* Arrays that get no rows stay sound.
LEMMA SoundStays ==
  ASSUME BoxInv, msgs' \in {msgs, <<>>}, buf' \in {msgs, buf, <<>>},
         \A m \in Message : Old(m) => Old(m)',
         \A m \in Message : Contains(hand', m) \/ Contains(handled', m)
                              => Contains(hand, m) \/ Contains(handled, m)
  PROVE  Sound(msgs)' /\ Sound(buf)'
<1>1. \A rows \in {msgs, buf, <<>>} :
        /\ \A i, j \in DOMAIN rows : rows[i].msg = rows[j].msg => i = j
        /\ \A i \in DOMAIN rows : rows[i].msg \in Message /\ Old(rows[i].msg)
        /\ \A m \in Message : Fresh(rows, m) => ~Contains(hand, m) /\ ~Contains(handled, m)
  <2>1. ASSUME NEW rows \in {msgs, buf}
        PROVE  /\ \A i, j \in DOMAIN rows : rows[i].msg = rows[j].msg => i = j
               /\ \A i \in DOMAIN rows : rows[i].msg \in Message /\ Old(rows[i].msg)
               /\ \A m \in Message : Fresh(rows, m) => ~Contains(hand, m) /\ ~Contains(handled, m)
    <3>1. rows \in Seq(Row) /\ Sound(rows)
      BY DEF BoxInv, TypeOK
    <3>2. \A i \in DOMAIN rows : rows[i] \in Row
      BY <3>1
    <3>3. \A i \in DOMAIN rows : rows[i].msg \in Message
      BY <3>2 DEF Row
    <3> QED
      BY <3>1, <3>3 DEF Sound
  <2>2. DOMAIN <<>> = {}
    OBVIOUS
  <2> QED
    BY <2>1, <2>2 DEF Fresh
<1> QED
  BY <1>1 DEF Sound, Fresh

\* A writer's messages in nobody's batch stay so.
LEMMA OldStays ==
  ASSUME BoxInv,
         \A w \in Writers : /\ count'[w] \in Nat /\ Len(batch'[w]) \in Nat
                            /\ count[w] - Len(batch[w]) <= count'[w] - Len(batch'[w])
  PROVE  \A m \in Message : Old(m) => Old(m)'
<1> SUFFICES ASSUME NEW m \in Message, Old(m) PROVE Old(m)'
  OBVIOUS
<1>1. m[1] \in Writers /\ m[2] \in Nat
  BY DEF Message
<1> DEFINE w == m[1]
<1>2. /\ count[w] \in Nat /\ Len(batch[w]) \in Nat /\ count'[w] \in Nat /\ Len(batch'[w]) \in Nat
      /\ count[w] - Len(batch[w]) <= count'[w] - Len(batch'[w])
      /\ m[2] <= count[w] - Len(batch[w])
  BY <1>1, Counts DEF Old
<1>3. m[2] <= count'[w] - Len(batch'[w])
  <2> HIDE DEF w
  <2> QED
    BY <1>1, <1>2
<1> QED
  BY <1>3 DEF Old

\* A step that moves no message.
LEMMA BoxStays ==
  ASSUME BoxInv, TypeOK', Locking', UNCHANGED <<count, batch, hand, handled, picked>>,
         msgs' \in {msgs, <<>>}, buf' \in {msgs, buf, <<>>},
         pc'[Owner] \in {"locked", "open"} => pc[Owner] \in {"locked", "open"} /\ buf' = buf,
         pc'[Owner] = "handling" <=> pc[Owner] = "handling"
  PROVE  BoxInv'
<1>1. \A m \in Message : Old(m) <=> Old(m)'
  BY DEF Old
<1>2. Sound(msgs)' /\ Sound(buf)'
  BY <1>1, SoundStays
<1>3. Sending'
  BY DEF BoxInv, Sending
<1>4. Reading'
  BY <1>1 DEF BoxInv, Reading
<1> QED
  BY <1>2, <1>3, <1>4 DEF BoxInv

-----------------------------------------------------------------------------
(* One lemma per group of operations. *)

\* A call of append_message starts or raises.
LEMMA BoxSend ==
  ASSUME BoxInv, NEW w \in Writers, (\E n \in 1..MaxBatch : Send(w, n)) \/ AppendRaises(w)
  PROVE  BoxInv'
<1>0. /\ pc[w] \in {"idle", "append"} /\ pc'[w] \in {"ensure", "idle"}
      /\ \A p \in Processes \ {w} : pc'[p] = pc[p]
      /\ pc' \in [Processes -> {"idle", "ensure", "append", "locked", "open", "handling",
                                "starting", "missing"}]
      /\ UNCHANGED <<file, lock, buf, acked, owner, bounds>> /\ w # Owner
  BY Parts DEF Send, AppendRaises, Goto
<1>1. /\ count' \in [Writers -> 0..MaxSends] /\ batch' \in [Writers -> Seq(Message)]
      /\ Sending'
      /\ \A v \in Writers : /\ count'[v] \in Nat /\ Len(batch'[v]) \in Nat
                            /\ count[v] - Len(batch[v]) <= count'[v] - Len(batch'[v])
  <2> DEFINE Counted ==
               /\ count' \in [Writers -> 0..MaxSends] /\ batch' \in [Writers -> Seq(Message)]
               /\ Sending'
               /\ \A v \in Writers : /\ count'[v] \in Nat /\ Len(batch'[v]) \in Nat
                                     /\ count[v] - Len(batch[v]) <= count'[v] - Len(batch'[v])
  <2>1. ASSUME NEW n \in 1..MaxBatch, Send(w, n) PROVE Counted
    <3> DEFINE b == [i \in 1..n |-> <<w, count[w] + i>>]
    <3>1. n \in Nat /\ count[w] \in Nat /\ count[w] + n <= MaxSends /\ MaxSends \in Nat
      BY <2>1, BoundsAssumption, Counts DEF Send
    <3>2. b \in Seq(Message) /\ Len(b) = n /\ DOMAIN b = 1..n
      <4>1. \A i \in 1..n : <<w, count[w] + i>> \in Message
        BY <3>1 DEF Message
      <4> QED
        BY <3>1, <4>1
    <3>3. \A i \in 1..n : b[i] = <<w, (count[w] + n) - n + i>>
      BY <3>1
    <3> HIDE DEF b
    <3>4. /\ count' = [count EXCEPT ![w] = @ + n] /\ batch' = [batch EXCEPT ![w] = b]
      BY <2>1 DEF Send, b
    <3>5. /\ count'[w] = count[w] + n /\ batch'[w] = b
          /\ \A v \in Writers \ {w} : count'[v] = count[v] /\ batch'[v] = batch[v]
          /\ count' \in [Writers -> 0..MaxSends] /\ batch' \in [Writers -> Seq(Message)]
      BY <3>1, <3>2, <3>4 DEF BoxInv, TypeOK
    <3>6. Sending'
      <4> SUFFICES ASSUME NEW v \in Writers
                   PROVE  /\ Len(batch'[v]) <= count'[v]
                          /\ \A i \in DOMAIN batch'[v] :
                                batch'[v][i] = <<v, count'[v] - Len(batch'[v]) + i>>
        BY DEF Sending
      <4>1. CASE v = w
        BY <3>1, <3>2, <3>3, <3>5, <4>1
      <4>2. CASE v # w
        BY <3>5, <4>2 DEF BoxInv, Sending
      <4> QED
        BY <4>1, <4>2
    <3>7. \A v \in Writers : /\ count'[v] \in Nat /\ Len(batch'[v]) \in Nat
                             /\ count[v] - Len(batch[v]) <= count'[v] - Len(batch'[v])
      <4> TAKE v \in Writers
      <4>1. /\ count[v] \in Nat /\ Len(batch[v]) \in Nat /\ Len(batch[v]) <= count[v]
        BY Counts
      <4>2. CASE v = w
        BY <3>1, <3>2, <3>5, <4>1, <4>2
      <4>3. CASE v # w
        BY <3>5, <4>1, <4>3
      <4> QED
        BY <4>2, <4>3
    <3> QED
      BY <3>5, <3>6, <3>7
  <2>2. CASE AppendRaises(w)
    <3>1. /\ count' = count /\ batch'[w] = <<>> /\ \A v \in Writers \ {w} : batch'[v] = batch[v]
          /\ batch' \in [Writers -> Seq(Message)]
      BY <2>2 DEF AppendRaises, BoxInv, TypeOK
    <3>2. \A v \in Writers : /\ count'[v] \in Nat /\ Len(batch'[v]) \in Nat
                             /\ Len(batch'[v]) <= count'[v]
                             /\ count[v] - Len(batch[v]) <= count'[v] - Len(batch'[v])
      <4> TAKE v \in Writers
      <4>1. /\ count[v] \in Nat /\ Len(batch[v]) \in Nat /\ Len(batch[v]) <= count[v]
        BY Counts
      <4>2. batch'[v] = <<>> \/ batch'[v] = batch[v]
        BY <3>1
      <4> QED
        BY <3>1, <4>1, <4>2
    <3>3. Sending'
      BY <3>1, <3>2 DEF BoxInv, Sending
    <3> QED
      BY <3>1, <3>2, <3>3 DEF BoxInv, TypeOK
  <2> QED
    BY <2>1, <2>2
<1>2. TypeOK'
  BY <1>0, <1>1 DEF BoxInv, TypeOK, Processes, file, owner, bounds
<1>3. Locking'
  BY <1>0, Parts DEF BoxInv, Locking, file
<1>4. \A m \in Message : Old(m) => Old(m)'
  BY <1>1, OldStays
<1>5. Sound(msgs)' /\ Sound(buf)'
  BY <1>0, <1>4, SoundStays DEF file, owner
<1>6. Reading'
  BY <1>0, <1>4, Parts DEF BoxInv, Reading, owner
<1> QED
  BY <1>1, <1>2, <1>3, <1>5, <1>6 DEF BoxInv

\* What moves no message: a look at the path, a lock that is taken to append, the
\* truncation, and whatever replaces or unlinks the file.
LEMMA BoxMoves ==
  ASSUME BoxInv,
         \/ \E w \in Writers : Ensure(w) \/ ReadToAppend(w)
         \/ \E p \in Processes : Truncate(p)
         \/ RegisterLooks \/ RegisterReplaces \/ Deregister \/ CleanUp
  PROVE  BoxInv'
<1>1. ASSUME NEW w \in Writers, Ensure(w) PROVE BoxInv'
  <2>1. TypeOK'
    BY <1>1 DEF Ensure, Goto, BoxInv, TypeOK, owner, bounds
  <2>2. Locking'
    BY <1>1, Parts DEF Ensure, Goto, BoxInv, Locking
  <2> QED
    BY <1>1, <2>1, <2>2, Parts, BoxStays DEF Ensure, Goto, owner
<1>2. ASSUME NEW w \in Writers, ReadToAppend(w) PROVE BoxInv'
  <2>1. TypeOK'
    BY <1>2 DEF ReadToAppend, Goto, BoxInv, TypeOK, owner, bounds, file
  <2>2. Locking'
    BY <1>2, Parts DEF ReadToAppend, Goto, BoxInv, Locking, file
  <2>3. pc'[Owner] = pc[Owner]
    BY <1>2, Parts DEF ReadToAppend, Goto
  <2>4. pc[Owner] \notin {"locked", "open"}
    BY <1>2, Parts DEF ReadToAppend, BoxInv, Locking
  <2> QED
    BY <1>2, <2>1, <2>2, <2>3, <2>4, BoxStays DEF ReadToAppend, owner, file
<1>3. ASSUME NEW p \in Processes, Truncate(p) PROVE BoxInv'
  <2>1. TypeOK'
    BY <1>3, Parts DEF Truncate, Goto, BoxInv, TypeOK, owner, bounds
  <2>2. Locking'
    BY <1>3, Parts DEF Truncate, Goto, BoxInv, Locking
  <2>3. /\ pc'[Owner] \in {"locked", "open"} => pc[Owner] \in {"locked", "open"}
        /\ pc'[Owner] = "handling" <=> pc[Owner] = "handling"
    BY <1>3, Parts DEF Truncate, Goto
  <2> QED
    BY <1>3, <2>1, <2>2, <2>3, BoxStays DEF Truncate, owner
<1>4. CASE RegisterLooks
  <2>1. TypeOK' /\ Locking'
    BY <1>4, Parts DEF RegisterLooks, Goto, BoxInv, TypeOK, Locking, owner, bounds, file
  <2> QED
    BY <1>4, <2>1, Parts, BoxStays DEF RegisterLooks, Goto, owner, file
<1>5. CASE RegisterReplaces
  <2>1. TypeOK'
    BY <1>5 DEF RegisterReplaces, Goto, BoxInv, TypeOK, owner, bounds
  <2>2. Locking'
    BY <1>5, Parts DEF RegisterReplaces, Goto, BoxInv, Locking
  <2> QED
    BY <1>5, <2>1, <2>2, Parts, BoxStays DEF RegisterReplaces, Goto, owner
<1>6. CASE Deregister \/ CleanUp
  <2>0. /\ unlinks' \in 0..MaxUnlinks
        /\ path' = "missing" /\ msgs' = <<>> /\ open' = Nobody
        /\ UNCHANGED <<lock, buf, batch, count, acked, owner, crashes>>
    BY <1>6, BoundsAssumption DEF Deregister, CleanUp, Unlink, BoxInv, TypeOK
  <2>1. /\ pc' \in [Processes -> {"idle", "ensure", "append", "locked", "open", "handling",
                                  "starting", "missing"}]
        /\ \A p \in Processes : pc'[p] \in {"locked", "open"} <=> pc[p] \in {"locked", "open"}
        /\ pc'[Owner] = "handling" <=> pc[Owner] = "handling"
    BY <1>6, Parts DEF Deregister, CleanUp, Goto
  <2>2. TypeOK'
    BY <2>0, <2>1 DEF BoxInv, TypeOK, Processes, owner
  <2>3. Locking'
    BY <2>0, <2>1 DEF BoxInv, Locking
  <2>4. Owner \in Processes
    BY DEF Processes
  <2> QED
    BY <2>0, <2>1, <2>2, <2>3, <2>4, BoxStays DEF owner
<1> QED
  BY <1>1, <1>2, <1>3, <1>4, <1>5, <1>6

\* What is unread in an array, once.
LEMMA UnreadHolds ==
  ASSUME NEW rows \in Seq(Row),
         \A i, j \in DOMAIN rows : rows[i].msg = rows[j].msg => i = j
  PROVE  /\ Messages(rows) \in Seq(Message) /\ Messages(Unread(rows)) \in Seq(Message)
         /\ \A m : Once(Messages(rows), m)
         /\ \A m : Contains(Messages(rows), m) <=> \E i \in DOMAIN rows : rows[i].msg = m
         /\ \A m : Contains(Messages(Unread(rows)), m) <=> Fresh(rows, m)
         /\ \A m : Once(Messages(Unread(rows)), m)
<1> DEFINE F == [msg : Message, read : {FALSE}]
           u == Unread(rows)
<1>1. \A s \in Seq(Row) : /\ Messages(s) \in Seq(Message) /\ DOMAIN Messages(s) = DOMAIN s
                          /\ \A i \in DOMAIN s : Messages(s)[i] = s[i].msg /\ s[i] \in Row
  <2> TAKE s \in Seq(Row)
  <2>1. Len(s) \in Nat /\ DOMAIN s = 1..Len(s) /\ \A i \in 1..Len(s) : s[i] \in Row
    OBVIOUS
  <2>2. \A i \in 1..Len(s) : s[i].msg \in Message
    BY <2>1 DEF Row
  <2>3. Messages(s) = [i \in 1..Len(s) |-> s[i].msg]
    BY <2>1 DEF Messages
  <2> QED
    BY <2>1, <2>2, <2>3
<1>2. /\ u \in Seq(Row)
      /\ \A x : Contains(u, x) <=> x \in F /\ Contains(rows, x)
      /\ \A x : Once(rows, x) => Once(u, x)
  <2>1. u = Those(rows, F)
    BY DEF Unread
  <2> HIDE DEF u, F
  <2> QED
    BY <2>1, ThoseKept
<1> HIDE DEF u, F
<1>3. \A x : Once(rows, x)
  BY DEF Once
<1>4. \A i \in DOMAIN u : u[i] \in F /\ \E j \in DOMAIN rows : rows[j] = u[i]
  <2> TAKE i \in DOMAIN u
  <2>1. Contains(u, u[i])
    BY <1>2 DEF Contains
  <2> QED
    BY <1>2, <2>1 DEF Contains
<1>5. \A m : /\ Contains(Messages(rows), m) <=> \E i \in DOMAIN rows : rows[i].msg = m
             /\ Once(Messages(rows), m)
  BY <1>1 DEF Contains, Once
<1>6. ASSUME NEW m PROVE Contains(Messages(u), m) <=> Fresh(rows, m)
  <2>1. ASSUME Contains(Messages(u), m) PROVE Fresh(rows, m)
    <3>1. PICK i \in DOMAIN u : u[i].msg = m
      BY <1>1, <1>2, <2>1 DEF Contains
    <3>2. u[i].read = FALSE /\ \E j \in DOMAIN rows : rows[j] = u[i]
      BY <1>4 DEF F
    <3> QED
      BY <3>1, <3>2 DEF Fresh
  <2>2. ASSUME Fresh(rows, m) PROVE Contains(Messages(u), m)
    <3>1. PICK j \in DOMAIN rows : rows[j].msg = m /\ ~rows[j].read
      BY <2>2 DEF Fresh
    <3>2. rows[j] \in Row
      OBVIOUS
    <3>3. rows[j] \in F
      BY <3>1, <3>2 DEF Row, F
    <3>4. Contains(rows, rows[j])
      BY DEF Contains
    <3>5. Contains(u, rows[j])
      BY <1>2, <3>3, <3>4
    <3> QED
      BY <1>1, <1>2, <3>1, <3>5 DEF Contains
  <2> QED
    BY <2>1, <2>2
<1>7. ASSUME NEW m PROVE Once(Messages(u), m)
  <2> SUFFICES ASSUME NEW i \in DOMAIN u, NEW j \in DOMAIN u, u[i].msg = m, u[j].msg = m
               PROVE  i = j
    BY <1>1, <1>2 DEF Once
  <2>1. u[i] = [msg |-> m, read |-> FALSE] /\ u[j] = [msg |-> m, read |-> FALSE]
    BY <1>4 DEF F
  <2> QED
    BY <1>2, <1>3, <2>1 DEF Once
<1> QED
  BY <1>1, <1>2, <1>5, <1>6, <1>7 DEF u

\* A read picks what is fresh.
LEMMA PicksFresh ==
  ASSUME BoxInv
  PROVE  /\ \A m \in PickAll(msgs) : m \in Message /\ Fresh(msgs, m)
         /\ \A w, l : \A m \in PickFrom(msgs, w, l) : m \in Message /\ Fresh(msgs, m)
<1> DEFINE u == Messages(Unread(msgs))
<1>1. u \in Seq(Message) /\ \A m : Contains(u, m) <=> Fresh(msgs, m)
  BY UnreadHolds DEF BoxInv, TypeOK, Sound
<1>2. PickAll(msgs) = ToSet(u) /\ \A w, l : PickFrom(msgs, w, l) =
        {Those(u, From(w))[i] : i \in {j \in DOMAIN Those(u, From(w)) :
                                         j > Len(Those(u, From(w))) - l}}
  BY DEF PickAll, PickFrom
<1> HIDE DEF u
<1>3. \A i \in DOMAIN u : u[i] \in Message /\ Contains(u, u[i])
  BY <1>1 DEF Contains
<1>4. \A m \in PickAll(msgs) : m \in Message /\ Fresh(msgs, m)
  BY <1>1, <1>2, <1>3 DEF ToSet
<1>5. ASSUME NEW w, NEW l, NEW m \in PickFrom(msgs, w, l) PROVE m \in Message /\ Fresh(msgs, m)
  <2> DEFINE own == Those(u, From(w))
  <2>1. own \in Seq(Message) /\ \A x : Contains(own, x) => Contains(u, x)
    BY <1>1, ThoseKept
  <2>2. PICK i \in DOMAIN own : m = own[i]
    BY <1>2, <1>5
  <2> HIDE DEF own
  <2>3. Contains(own, m) /\ m \in Message
    BY <2>1, <2>2 DEF Contains
  <2> QED
    BY <1>1, <2>1, <2>3
<1> QED
  BY <1>4, <1>5

\* The owner's read takes the lock.
LEMMA BoxMark ==
  ASSUME BoxInv, NEW S, ReadToMark(S), \A m \in S : m \in Message /\ Fresh(msgs, m)
  PROVE  BoxInv'
<1>1. TypeOK'
  BY DEF ReadToMark, Goto, BoxInv, TypeOK, file, bounds
<1>2. Locking'
  BY Parts DEF ReadToMark, Goto, BoxInv, Locking, file
<1>3. \A m \in Message : Old(m) <=> Old(m)'
  BY DEF ReadToMark, Old
<1>4. Sound(msgs)' /\ Sound(buf)'
  BY <1>3, SoundStays DEF ReadToMark, file
<1>5. Sending'
  BY DEF ReadToMark, BoxInv, Sending
<1>6. pc[Owner] = "idle" /\ pc'[Owner] = "locked"
  BY Parts DEF ReadToMark, Goto
<1>7. \A m : Fresh(buf, m)' <=> Fresh(msgs, m)
  BY DEF ReadToMark, Fresh
<1>8. Reading'
  BY <1>3, <1>6, <1>7 DEF ReadToMark, BoxInv, Reading
<1> QED
  BY <1>1, <1>2, <1>4, <1>5, <1>8 DEF BoxInv

\* What a rewrite does to the file.
LEMMA Rewritten ==
  ASSUME BoxInv, NEW p \in Processes, NEW rows \in Seq(Row), Written(p, rows),
         pc' \in [Processes -> {"idle", "ensure", "append", "locked", "open", "handling",
                                "starting", "missing"}],
         pc'[p] \in {"idle", "handling"}, \A q \in Processes \ {p} : pc'[q] = pc[q]
  PROVE  /\ Locking'
         /\ path' \in {"missing", "torn", "ok"} /\ open' = Nobody
         /\ lock' = Nobody /\ buf' = <<>> /\ msgs' \in {<<>>, rows}
<1>1. open \in {p, Nobody}
  BY DEF Written, BoxInv, Locking
<1>2. p # Nobody /\ lock = p
  BY Parts DEF Written
<1>3. msgs = <<>>
  BY <1>2 DEF Written, BoxInv, Locking
<1>4. /\ path' \in {"missing", "torn", "ok"} /\ open' = Nobody
      /\ lock' = Nobody /\ buf' = <<>> /\ msgs' \in {<<>>, rows}
  BY <1>1, <1>2, <1>3 DEF Written, BoxInv, TypeOK
<1>5. Locking'
  BY <1>2, <1>4, Parts DEF BoxInv, Locking
<1> QED
  BY <1>4, <1>5

\* An append writes its rows.
LEMMA BoxAppend ==
  ASSUME BoxInv, NEW w \in Writers, AppendRows(w)
  PROVE  BoxInv'
<1>b. PICK b : b = batch[w]
  OBVIOUS
<1>c. PICK base : base = count[w] - Len(b)
  OBVIOUS
<1>r. PICK rows : rows = buf \o New(b)
  OBVIOUS
<1>1. /\ base = count[w] - Len(b)
      /\ b \in Seq(Message) /\ Len(b) \in Nat /\ DOMAIN b = 1..Len(b) /\ count[w] \in Nat
      /\ base \in Nat /\ Len(b) = Len(batch[w])
      /\ \A k \in 1..Len(b) : b[k] = <<w, base + k>> /\ b[k] \in Message
  <2>1. /\ b \in Seq(Message) /\ Len(b) \in Nat /\ count[w] \in Nat /\ Len(b) <= count[w]
    BY <1>b, Counts
  <2>2. \A k \in DOMAIN b : b[k] = <<w, base + k>>
    BY <1>b, <1>c DEF BoxInv, Sending
  <2> QED
    BY <1>b, <1>c, <2>1, <2>2
<1>2. New(b) \in Seq(Row) /\ Len(New(b)) = Len(b)
      /\ \A k \in 1..Len(b) : New(b)[k].msg = b[k]
  <2>1. New(b) = [k \in 1..Len(b) |-> [msg |-> b[k], read |-> FALSE]]
    BY <1>1 DEF New
  <2>2. \A k \in 1..Len(b) : [msg |-> b[k], read |-> FALSE] \in Row
    BY <1>1 DEF Row
  <2> QED
    BY <1>1, <2>1, <2>2
<1>3. /\ <<>> \in Seq(Row) /\ buf \in Seq(Row) /\ Len(buf) \in Nat /\ DOMAIN buf = 1..Len(buf)
      /\ \A i \in 1..Len(buf) : buf[i].msg \in Message
  <2>1. /\ buf \in Seq(Row) /\ Len(buf) \in Nat /\ DOMAIN buf = 1..Len(buf)
        /\ \A i \in 1..Len(buf) : buf[i] \in Row
    BY Parts
  <2> QED
    BY <2>1 DEF Row
<1>4. /\ rows \in Seq(Row) /\ DOMAIN rows = 1..Len(buf) + Len(b)
      /\ \A i \in 1..Len(buf) : rows[i] = buf[i]
      /\ \A i \in Len(buf) + 1..Len(buf) + Len(b) :
            i - Len(buf) \in 1..Len(b) /\ rows[i].msg = b[i - Len(buf)]
  <2>1. PICK c : c = New(b)
    OBVIOUS
  <2>2. /\ rows \in Seq(Row) /\ DOMAIN rows = 1..Len(buf) + Len(b)
        /\ \A i \in 1..Len(buf) : rows[i] = buf[i]
        /\ \A i \in Len(buf) + 1..Len(buf) + Len(b) :
              i - Len(buf) \in 1..Len(b) /\ rows[i] = c[i - Len(buf)]
    <3>1. rows = buf \o c /\ c \in Seq(Row) /\ Len(c) = Len(b)
      BY <1>2, <1>r, <2>1
    <3>2. rows \in Seq(Row) /\ \A i \in 1..Len(buf) : rows[i] = buf[i]
      BY <1>3, <3>1, ConcatAt
    <3>3. Len(rows) = Len(buf) + Len(c)
      BY <1>3, <3>1, ConcatAt
    <3>4. DOMAIN rows = 1..Len(rows)
      BY <3>2
    <3>5. \A i \in Len(buf) + 1..Len(buf) + Len(c) :
             i - Len(buf) \in 1..Len(c) /\ rows[i] = c[i - Len(buf)]
      BY <1>3, <3>1, ConcatAt
    <3> QED
      BY <3>1, <3>2, <3>3, <3>4, <3>5
  <2> QED
    BY <1>2, <2>1, <2>2
<1>5. /\ pc' \in [Processes -> {"idle", "ensure", "append", "locked", "open", "handling",
                                "starting", "missing"}]
      /\ pc'[w] = "idle" /\ \A q \in Processes \ {w} : pc'[q] = pc[q]
      /\ w \in Processes /\ w # Owner /\ pc[w] = "open"
  BY Parts DEF AppendRows, Written, Goto
<1>6. /\ Written(w, rows) /\ UNCHANGED <<count, picked, hand, handled, unlinks, crashes>>
      /\ acked' = acked \union ToSet(b) /\ batch' = [batch EXCEPT ![w] = <<>>]
  BY <1>b, <1>r DEF AppendRows, owner, bounds
<1>7. /\ Locking' /\ path' \in {"missing", "torn", "ok"} /\ open' = Nobody
      /\ lock' = Nobody /\ buf' = <<>> /\ msgs' \in {<<>>, rows}
  BY <1>4, <1>5, <1>6, Rewritten
<1>8. /\ batch' \in [Writers -> Seq(Message)] /\ batch'[w] = <<>>
      /\ \A v \in Writers \ {w} : batch'[v] = batch[v]
  BY <1>6 DEF BoxInv, TypeOK
<1>9. TypeOK'
  <2>1. ToSet(b) \subseteq Message
    BY <1>1 DEF ToSet
  <2>2. /\ msgs' \in Seq(Row) /\ buf' \in Seq(Row) /\ acked' \subseteq Message
    BY <1>3, <1>4, <1>6, <1>7, <2>1 DEF BoxInv, TypeOK
  <2> QED
    BY <1>5, <1>6, <1>7, <1>8, <2>2 DEF BoxInv, TypeOK, Processes
<1>10. Sending' /\ \A v \in Writers : /\ count'[v] \in Nat /\ Len(batch'[v]) \in Nat
                                      /\ count[v] - Len(batch[v]) <= count'[v] - Len(batch'[v])
  <2>1. \A v \in Writers : /\ count'[v] \in Nat /\ Len(batch'[v]) \in Nat
                           /\ Len(batch'[v]) <= count'[v]
                           /\ count[v] - Len(batch[v]) <= count'[v] - Len(batch'[v])
    <3> TAKE v \in Writers
    <3>1. count[v] \in Nat /\ Len(batch[v]) \in Nat /\ Len(batch[v]) <= count[v]
      BY Counts
    <3>2. batch'[v] = <<>> \/ batch'[v] = batch[v]
      BY <1>8
    <3> QED
      BY <1>6, <3>1, <3>2
  <2> QED
    BY <1>6, <1>8, <2>1 DEF BoxInv, Sending
<1>11. \A m \in Message : Old(m) => Old(m)'
  BY <1>10, OldStays
<1>12. \A m \in Message : \A k \in 1..Len(b) : m = b[k] => ~Old(m) /\ Old(m)'
  <2> TAKE m \in Message
  <2> TAKE k \in 1..Len(b)
  <2> HAVE m = b[k]
  <2>1. m[1] = w /\ m[2] = base + k
    BY <1>1
  <2>2. Old(m) <=> base + k <= base
    BY <1>1, <2>1 DEF Old
  <2>3. Old(m)' <=> base + k <= count[w] - 0
    <3>1. count'[m[1]] = count[w] /\ Len(batch'[m[1]]) = 0
      BY <1>6, <1>8, <2>1
    <3> QED
      BY <2>1, <3>1 DEF Old
  <2> QED
    BY <1>1, <2>2, <2>3
<1>13. \A i \in 1..Len(buf) : Old(buf[i].msg)
  BY <1>3 DEF BoxInv, Sound
<1>14. \A i \in DOMAIN rows : /\ rows[i].msg \in Message
                            /\ \A m : m = rows[i].msg =>
                                  (Old(m) <=> i \in 1..Len(buf)) /\ Old(m)'
  <2> TAKE i \in DOMAIN rows
  <2>1. CASE i \in 1..Len(buf)
    <3> SUFFICES ASSUME NEW m \in Message, m = rows[i].msg PROVE Old(m) /\ Old(m)'
      BY <1>3, <1>4, <2>1
    <3> QED
      BY <1>3, <1>4, <1>11, <1>13, <2>1
  <2>2. CASE i \notin 1..Len(buf)
    <3>0. i \in Len(buf) + 1..Len(buf) + Len(b)
      BY <1>1, <1>3, <1>4, <2>2
    <3>1. i - Len(buf) \in 1..Len(b) /\ rows[i].msg = b[i - Len(buf)]
      BY <1>4, <3>0
    <3> SUFFICES ASSUME NEW m \in Message, m = rows[i].msg PROVE ~Old(m) /\ Old(m)'
      BY <1>1, <2>2, <3>1
    <3> QED
      BY <1>1, <1>12, <2>2, <3>1
  <2> QED
    BY <2>1, <2>2
<1>15. \A i, j \in DOMAIN rows : rows[i].msg = rows[j].msg => i = j
  <2> TAKE i, j \in DOMAIN rows
  <2> HAVE rows[i].msg = rows[j].msg
  <2>0. PICK m : m = rows[i].msg
    OBVIOUS
  <2>1. CASE i \in 1..Len(buf) /\ j \in 1..Len(buf)
    BY <1>3, <1>4, <2>1 DEF BoxInv, Sound
  <2>2. CASE i \notin 1..Len(buf) /\ j \notin 1..Len(buf)
    <3>0. i \in Len(buf) + 1..Len(buf) + Len(b) /\ j \in Len(buf) + 1..Len(buf) + Len(b)
      BY <1>1, <1>3, <1>4, <2>2
    <3>1. /\ i - Len(buf) \in 1..Len(b) /\ j - Len(buf) \in 1..Len(b)
          /\ b[i - Len(buf)] = b[j - Len(buf)]
      BY <1>4, <3>0
    <3>2. base + (i - Len(buf)) = base + (j - Len(buf))
      BY <1>1, <3>1
    <3> QED
      BY <1>1, <1>3, <1>4, <3>2
  <2>3. CASE i \in 1..Len(buf) /\ j \notin 1..Len(buf)
    BY <1>14, <2>0, <2>3
  <2>4. CASE i \notin 1..Len(buf) /\ j \in 1..Len(buf)
    BY <1>14, <2>0, <2>4
  <2> QED
    BY <2>1, <2>2, <2>3, <2>4
<1>16. \A m \in Message : Fresh(rows, m) => ~Contains(hand, m) /\ ~Contains(handled, m)
  <2> TAKE m \in Message
  <2> HAVE Fresh(rows, m)
  <2>1. PICK i \in DOMAIN rows : rows[i].msg = m /\ ~rows[i].read
    BY DEF Fresh
  <2>2. CASE i \in 1..Len(buf)
    <3>1. Fresh(buf, m)
      BY <1>3, <1>4, <2>1, <2>2 DEF Fresh
    <3> QED
      BY <3>1 DEF BoxInv, Sound
  <2>3. CASE i \notin 1..Len(buf)
    <3>1. ~Old(m)
      BY <1>14, <2>1, <2>3
    <3> QED
      BY <3>1 DEF BoxInv, Reading
  <2> QED
    BY <2>2, <2>3
<1>17. Sound(msgs)' /\ Sound(buf)'
  <2>1. ASSUME msgs' = rows PROVE Sound(msgs)'
    <3>1. \A i \in DOMAIN rows : \A m : m = rows[i].msg => Old(m)'
      BY <1>14
    <3>2. \A i \in DOMAIN msgs' : Old(msgs[i].msg)'
      BY <2>1, <3>1
    <3> QED
      BY <1>6, <1>15, <1>16, <2>1, <3>2 DEF Sound, Fresh
  <2>2. DOMAIN <<>> = {}
    OBVIOUS
  <2>3. Sound(buf)'
    BY <1>7, <2>2 DEF Sound, Fresh
  <2>4. ASSUME msgs' = <<>> PROVE Sound(msgs)'
    BY <2>2, <2>4 DEF Sound, Fresh
  <2> QED
    BY <1>7, <2>1, <2>3, <2>4
<1>18. Reading'
  <2>1. pc[Owner] \notin {"locked", "open"} /\ pc'[Owner] = pc[Owner]
    BY <1>5, Parts DEF AppendRows, Written, BoxInv, Locking
  <2> QED
    BY <1>6, <1>11, <2>1 DEF BoxInv, Reading
<1> QED
  BY <1>7, <1>9, <1>10, <1>17, <1>18 DEF BoxInv

\* The owner's rewrite marks what was picked and hands it over.
LEMMA BoxHands ==
  ASSUME BoxInv, Mark
  PROVE  BoxInv'
<1> DEFINE row(i) == IF buf[i].msg \in picked THEN [buf[i] EXCEPT !.read = TRUE] ELSE buf[i]
           rows == [i \in DOMAIN buf |-> row(i)]
<1>1. /\ <<>> \in Seq(Row) /\ buf \in Seq(Row) /\ Len(buf) \in Nat /\ DOMAIN buf = 1..Len(buf)
      /\ \A i \in DOMAIN buf : buf[i] \in Row /\ buf[i].msg \in Message /\ Old(buf[i].msg)
      /\ \A i, j \in DOMAIN buf : buf[i].msg = buf[j].msg => i = j
  <2>1. /\ buf \in Seq(Row) /\ Len(buf) \in Nat /\ DOMAIN buf = 1..Len(buf)
        /\ \A i \in DOMAIN buf : buf[i] \in Row
    BY Parts
  <2>2. \A i \in DOMAIN buf : buf[i].msg \in Message
    BY <2>1 DEF Row
  <2> QED
    BY <2>1, <2>2 DEF BoxInv, Sound
<1>2. \A i \in DOMAIN buf : /\ row(i) \in Row /\ row(i).msg = buf[i].msg
                            /\ ~row(i).read => ~buf[i].read /\ buf[i].msg \notin picked
  BY <1>1 DEF Row
<1> HIDE DEF row
<1>3. /\ rows \in Seq(Row) /\ DOMAIN rows = DOMAIN buf
      /\ \A i \in DOMAIN buf : rows[i].msg = buf[i].msg
      /\ \A i \in DOMAIN buf : ~rows[i].read => ~buf[i].read /\ buf[i].msg \notin picked
  BY <1>1, <1>2
<1>4. /\ Written(Owner, rows) /\ hand' = Those(Messages(buf), picked) /\ picked' = {}
      /\ UNCHANGED <<batch, count, acked, handled, unlinks, crashes>>
  BY DEF Mark, bounds, row
<1> HIDE DEF rows
<1>5. /\ pc' \in [Processes -> {"idle", "ensure", "append", "locked", "open", "handling",
                                "starting", "missing"}]
      /\ pc'[Owner] = "handling" /\ \A q \in Processes \ {Owner} : pc'[q] = pc[q]
      /\ Owner \in Processes /\ pc[Owner] = "open"
  BY Parts DEF Mark, Written, Goto
<1>6. /\ Locking' /\ path' \in {"missing", "torn", "ok"} /\ open' = Nobody
      /\ lock' = Nobody /\ buf' = <<>> /\ msgs' \in {<<>>, rows}
  BY <1>3, <1>4, <1>5, Rewritten
<1>7. /\ hand' \in Seq(Message)
      /\ \A m : Contains(hand', m) <=> m \in picked /\ \E i \in DOMAIN buf : buf[i].msg = m
      /\ \A m : Once(hand', m)
  <2>1. /\ Messages(buf) \in Seq(Message)
        /\ \A m : Once(Messages(buf), m)
        /\ \A m : Contains(Messages(buf), m) <=> \E i \in DOMAIN buf : buf[i].msg = m
    BY <1>1, UnreadHolds
  <2> QED
    BY <1>4, <2>1, ThoseKept
<1>8. picked \subseteq Message /\ picked # {} /\ \A m \in picked : Fresh(buf, m)
  BY <1>5 DEF BoxInv, TypeOK, Reading
<1>9. \A m \in picked : Old(m) /\ ~Contains(handled, m) /\ Contains(hand', m)
  <2> TAKE m \in picked
  <2>1. m \in Message /\ Fresh(buf, m)
    BY <1>8
  <2>2. \E i \in DOMAIN buf : buf[i].msg = m
    BY <2>1 DEF Fresh
  <2> QED
    BY <1>1, <1>7, <2>1, <2>2 DEF BoxInv, Sound
<1>10. hand' # <<>>
  BY <1>8, <1>9, InEmpty
<1>11. TypeOK'
  <2>1. msgs' \in Seq(Row) /\ buf' \in Seq(Row) /\ hand' \in Seq(Message)
    BY <1>1, <1>3, <1>6, <1>7
  <2> QED
    BY <1>4, <1>5, <1>6, <2>1 DEF BoxInv, TypeOK, Processes
<1>12. Sending' /\ \A m : Old(m)' <=> Old(m)
  BY <1>4 DEF BoxInv, Sending, Old
<1>13. Sound(msgs)' /\ Sound(buf)'
  <2>1. \A m \in Message : Fresh(rows, m) => ~Contains(hand', m) /\ ~Contains(handled, m)
    <3> TAKE m \in Message
    <3> HAVE Fresh(rows, m)
    <3>1. Fresh(buf, m) /\ m \notin picked
      BY <1>3 DEF Fresh
    <3> QED
      BY <1>7, <3>1 DEF BoxInv, Sound
  <2>2. ASSUME msgs' = rows PROVE Sound(msgs)'
    BY <1>1, <1>3, <1>4, <1>12, <2>1, <2>2 DEF Sound, Fresh
  <2>3. DOMAIN <<>> = {}
    OBVIOUS
  <2>4. Sound(buf)'
    BY <1>6, <2>3 DEF Sound, Fresh
  <2>5. ASSUME msgs' = <<>> PROVE Sound(msgs)'
    BY <2>3, <2>5 DEF Sound, Fresh
  <2> QED
    BY <1>6, <2>2, <2>4, <2>5
<1>14. Reading'
  BY <1>4, <1>5, <1>7, <1>9, <1>10, <1>12 DEF BoxInv, Reading
<1> QED
  BY <1>6, <1>11, <1>12, <1>13, <1>14 DEF BoxInv

\* The owner handles the first message it has been given.
LEMMA BoxHandles ==
  ASSUME BoxInv, Handle
  PROVE  BoxInv'
<1>1. /\ hand # <<>> /\ hand \in Seq(Message) /\ handled \in Seq(Message)
      /\ handled' = Append(handled, Head(hand)) /\ hand' = Tail(hand)
      /\ UNCHANGED <<path, msgs, open, lock, buf, batch, count, acked, picked, unlinks, crashes>>
  BY DEF Handle, BoxInv, TypeOK, Reading, file, bounds
<1>2. /\ Head(hand) \in Message /\ hand' \in Seq(Message) /\ (Len(hand) = 1 <=> hand' = <<>>)
      /\ \A m : Contains(hand, m) <=> m = Head(hand) \/ Contains(hand', m)
      /\ \A m : Once(hand, m) => Once(hand', m) /\ ~(m = Head(hand) /\ Contains(hand', m))
  BY <1>1, InTail
<1>3. /\ handled' \in Seq(Message)
      /\ \A m : Contains(handled', m) <=> Contains(handled, m) \/ m = Head(hand)
      /\ \A m : Once(handled, m) /\ ~(m = Head(hand) /\ Contains(handled, m)) => Once(handled', m)
  <2>1. handled' \in Seq(Message)
    BY <1>1, <1>2
  <2> QED
    BY <1>1, <1>2, <2>1, InAppend
<1>4. /\ pc[Owner] = "handling" /\ pc'[Owner] = IF Len(hand) = 1 THEN "idle" ELSE "handling"
      /\ \A p \in Processes \ {Owner} : pc'[p] = pc[p]
      /\ pc' \in [Processes -> {"idle", "ensure", "append", "locked", "open", "handling",
                                "starting", "missing"}]
  BY Parts DEF Handle, Goto
<1>5. TypeOK'
  BY <1>1, <1>2, <1>3, <1>4 DEF BoxInv, TypeOK, Processes
<1>6. Locking'
  BY <1>1, <1>4, Parts DEF BoxInv, Locking
<1>7. Sending' /\ \A m : Old(m)' <=> Old(m)
  BY <1>1 DEF BoxInv, Sending, Old
<1>8. Sound(msgs)' /\ Sound(buf)'
  BY <1>1, <1>2, <1>3, <1>7, SoundStays
<1>9. Reading'
  <2>1. \A m \in Message : /\ Once(hand', m) /\ Once(handled', m)
                           /\ ~(Contains(hand', m) /\ Contains(handled', m))
                           /\ Contains(hand', m) \/ Contains(handled', m) => Old(m)'
    <3> TAKE m \in Message
    <3>1. /\ Once(hand, m) /\ Once(handled, m)
          /\ ~(Contains(hand, m) /\ Contains(handled, m))
          /\ Contains(hand, m) \/ Contains(handled, m) => Old(m)
      BY DEF BoxInv, Reading
    <3> QED
      BY <1>2, <1>3, <1>7, <3>1
  <2> QED
    BY <1>2, <1>4, <2>1 DEF Reading
<1> QED
  BY <1>5, <1>6, <1>7, <1>8, <1>9 DEF BoxInv

\* A process dies.
LEMMA BoxCrashes ==
  ASSUME BoxInv, NEW p \in Processes, Crash(p)
  PROVE  BoxInv'
<1>1. /\ pc'[p] \in {"idle", "starting"} /\ \A q \in Processes \ {p} : pc'[q] = pc[q]
      /\ pc' \in [Processes -> {"idle", "ensure", "append", "locked", "open", "handling",
                                "starting", "missing"}]
  BY Parts DEF Crash, Goto
<1>2. /\ lock' = IF lock = p THEN Nobody ELSE lock
      /\ buf' = IF lock = p THEN <<>> ELSE buf
      /\ open' = IF open = p THEN Nobody ELSE open
      /\ UNCHANGED <<path, msgs, count, acked, handled, unlinks>>
      /\ IF p = Owner THEN picked' = {} /\ hand' = <<>> ELSE UNCHANGED <<picked, hand>>
      /\ batch' = [w \in Writers |-> IF w = p THEN <<>> ELSE batch[w]]
  BY DEF Crash
<1>3. /\ batch' \in [Writers -> Seq(Message)]
      /\ \A w \in Writers : batch'[w] = <<>> \/ batch'[w] = batch[w]
  BY <1>2 DEF BoxInv, TypeOK
<1>4. TypeOK'
  <2>1. crashes' \in 0..MaxCrashes
    BY BoundsAssumption DEF Crash, BoxInv, TypeOK
  <2>2. buf' \in {<<>>, buf} /\ hand' \in {<<>>, hand} /\ picked' \in {{}, picked}
    BY <1>2
  <2>3. <<>> \in Seq(Row) /\ <<>> \in Seq(Message)
    OBVIOUS
  <2>4. buf' \in Seq(Row) /\ hand' \in Seq(Message) /\ picked' \subseteq Message
    BY <2>2, <2>3 DEF BoxInv, TypeOK
  <2> QED
    BY <1>1, <1>2, <1>3, <2>1, <2>4, Parts DEF BoxInv, TypeOK
<1>5. Locking'
  BY <1>1, <1>2, Parts DEF BoxInv, Locking
<1>6. \A v \in Writers : /\ count'[v] \in Nat /\ Len(batch'[v]) \in Nat
                         /\ Len(batch'[v]) <= count'[v]
                         /\ count[v] - Len(batch[v]) <= count'[v] - Len(batch'[v])
  <2> TAKE v \in Writers
  <2>1. count[v] \in Nat /\ Len(batch[v]) \in Nat /\ Len(batch[v]) <= count[v]
    BY Counts
  <2> QED
    BY <1>2, <1>3, <2>1
<1>7. Sending'
  BY <1>2, <1>3, <1>6 DEF BoxInv, Sending
<1>8. \A m \in Message : Old(m) => Old(m)'
  BY <1>6, OldStays
<1>9. \A m \in Message : Contains(hand', m) => Contains(hand, m)
  BY <1>2, InEmpty
<1>10. Sound(msgs)' /\ Sound(buf)'
  BY <1>2, <1>8, <1>9, SoundStays
<1>11. Reading'
  <2>1. CASE p = Owner
    <3>1. pc'[Owner] = "starting"
      BY <2>1, Parts DEF Crash, Goto
    <3>2. hand' = <<>> /\ handled' = handled
      BY <1>2, <2>1
    <3> QED
      BY <1>8, <3>1, <3>2, InEmpty DEF BoxInv, Reading
  <2>2. CASE p # Owner
    <3>1. pc'[Owner] = pc[Owner] /\ UNCHANGED <<picked, hand, handled>>
      BY <1>1, <1>2, <2>2, Parts
    <3>2. pc[Owner] \in {"locked", "open"} => buf' = buf
      BY <1>2, <2>2, Parts DEF BoxInv, Locking
    <3> QED
      BY <1>8, <3>1, <3>2 DEF BoxInv, Reading
  <2> QED
    BY <2>1, <2>2
<1> QED
  BY <1>4, <1>5, <1>7, <1>10, <1>11 DEF BoxInv

LEMMA BoxStep == BoxInv /\ [Next]_vars => BoxInv'
<1> SUFFICES ASSUME BoxInv, [Next]_vars PROVE BoxInv'
  OBVIOUS
<1>1. ASSUME NEW w \in Writers, WriterStep(w) \/ \E n \in 1..MaxBatch : Send(w, n)
      PROVE  BoxInv'
  BY <1>1, BoxSend, BoxMoves, BoxAppend, Parts DEF WriterStep
<1>2. CASE OwnerStep
  <2>1. ASSUME ReadToMark(PickAll(msgs)) PROVE BoxInv'
    BY <2>1, PicksFresh, BoxMark
  <2>2. ASSUME NEW w \in Writers, NEW l \in Limits, ReadToMark(PickFrom(msgs, w, l)) PROVE BoxInv'
    BY <2>2, PicksFresh, BoxMark
  <2> QED
    BY <1>2, <2>1, <2>2, BoxMoves, BoxHands, BoxHandles DEF OwnerStep, Processes
<1>3. CASE Deregister \/ CleanUp
  BY <1>3, BoxMoves
<1>4. ASSUME NEW p \in Writers \union {Owner}, Crash(p) PROVE BoxInv'
  BY <1>4, BoxCrashes DEF Processes
<1>5. CASE UNCHANGED vars
  <2>1. TypeOK' /\ Locking'
    BY <1>5 DEF BoxInv, TypeOK, Locking, vars, file, owner, bounds
  <2> QED
    BY <1>5, <2>1, BoxStays DEF vars, file, owner, bounds
<1> QED
  BY <1>1, <1>2, <1>3, <1>4, <1>5 DEF Next

LEMMA BoxAlways == Spec => []BoxInv
<1>1. Init => BoxInv
  BY BoxInit
<1>2. BoxInv /\ [Next]_vars => BoxInv'
  BY BoxStep
<1> QED
  BY <1>1, <1>2, PTL DEF Spec

\* The state is what it is said to be.
THEOREM BoxTypes == Spec => []TypeOK
<1>1. BoxInv => TypeOK
  BY DEF BoxInv
<1> QED
  BY <1>1, BoxAlways, PTL

\* Whatever is rewritten, the array is sound.
LEMMA SettledSound ==
  ASSUME BoxInv
  PROVE  /\ Settled \in Seq(Row)
         /\ \A i, j \in DOMAIN Settled : Settled[i].msg = Settled[j].msg => i = j
         /\ \A m \in Message : Fresh(Settled, m) => ~Contains(hand, m) /\ ~Contains(handled, m)
         /\ Waiting \in Seq(Message)
         /\ \A m : /\ Contains(Waiting, m) <=> Fresh(Settled, m)
                   /\ Once(Waiting, m)
<1>1. PICK rows : rows = Settled
  OBVIOUS
<1>2. /\ rows \in Seq(Row)
      /\ \A i, j \in DOMAIN rows : rows[i].msg = rows[j].msg => i = j
      /\ \A m \in Message : Fresh(rows, m) => ~Contains(hand, m) /\ ~Contains(handled, m)
  <2>1. rows \in {msgs, buf}
    BY <1>1 DEF Settled
  <2> QED
    BY <2>1 DEF BoxInv, TypeOK, Sound
<1>3. /\ Messages(Unread(rows)) \in Seq(Message)
      /\ \A m : /\ Contains(Messages(Unread(rows)), m) <=> Fresh(rows, m)
                /\ Once(Messages(Unread(rows)), m)
  BY <1>2, UnreadHolds
<1> QED
  BY <1>1, <1>2, <1>3 DEF Waiting

\* A message is in the owner's hands, was handled or waits, and only one of
\* these, and only once.
LEMMA Together ==
  ASSUME BoxInv
  PROVE  /\ handled \o hand \o Waiting \in Seq(Message)
         /\ \A m : /\ Contains(handled \o hand \o Waiting, m) <=>
                        Contains(handled, m) \/ Contains(hand, m) \/ Fresh(Settled, m)
                   /\ m \in Message => Once(handled \o hand \o Waiting, m)
<1>1. /\ handled \in Seq(Message) /\ hand \in Seq(Message) /\ Waiting \in Seq(Message)
      /\ \A m : Contains(Waiting, m) <=> Fresh(Settled, m)
  BY SettledSound DEF BoxInv, TypeOK
<1>2. \A m \in Message : /\ Once(handled, m) /\ Once(hand, m) /\ Once(Waiting, m)
                         /\ ~(Contains(handled, m) /\ Contains(hand, m))
                         /\ ~(Contains(handled, m) /\ Contains(Waiting, m))
                         /\ ~(Contains(hand, m) /\ Contains(Waiting, m))
  BY SettledSound DEF BoxInv, Reading
<1>3. PICK s : s = handled \o hand
  OBVIOUS
<1>4. /\ s \in Seq(Message)
      /\ \A m : Contains(s, m) <=> Contains(handled, m) \/ Contains(hand, m)
      /\ \A m \in Message : Once(s, m)
  BY <1>1, <1>2, <1>3, InConcat
<1>5. /\ s \o Waiting \in Seq(Message)
      /\ \A m : Contains(s \o Waiting, m) <=> Contains(s, m) \/ Contains(Waiting, m)
      /\ \A m \in Message : Once(s \o Waiting, m)
  <2>1. PICK t : t = Waiting
    OBVIOUS
  <2> QED
    BY <1>1, <1>2, <1>4, <2>1, InConcat
<1> QED
  BY <1>1, <1>3, <1>4, <1>5

\* Nothing is handled twice: no message is twice in what was handled, what the
\* owner has in hand and what it will be given.
THEOREM NothingTwice == Spec => []AtMostOnce
<1>1. BoxInv => AtMostOnce
  <2> SUFFICES ASSUME BoxInv PROVE AtMostOnce
    OBVIOUS
  <2>1. PICK s : s = handled \o hand \o Waiting
    OBVIOUS
  <2>2. s \in Seq(Message) /\ \A m \in Message : Once(s, m)
    BY <2>1, Together
  <2>3. \A i \in DOMAIN s : s[i] \in Message
    BY <2>2
  <2>4. \A i, j \in DOMAIN s : s[i] = s[j] => i = j
    BY <2>2, <2>3 DEF Once
  <2> QED
    BY <2>1, <2>4 DEF AtMostOnce, IsInjective
<1> QED
  BY <1>1, BoxAlways, PTL

-----------------------------------------------------------------------------
(* While the file stays where it is and nobody dies, nothing is lost.       *)

Kept(m) == Contains(handled, m) \/ Contains(hand, m) \/ Fresh(Settled, m)

\* A rewrite that is under way is of the file at the path, and of what it held.
Steady ==
  /\ path # "missing" /\ pc[Owner] \notin {"starting", "missing"}
  /\ \A p \in Processes : pc[p] = "open" => open = p
  /\ path = "torn" => open # Nobody
  /\ lock # Nobody /\ pc[lock] = "locked" => msgs = buf
  /\ \A m \in acked : Kept(m)

LEMMA SteadyInit == Init /\ Exists => Steady
  BY NamesAssumption DEF Init, Steady, Processes

\* A step that leaves the messages where they are.
LEMMA KeptStays ==
  ASSUME Steady, UNCHANGED <<hand, handled, acked>>, Settled' = Settled
  PROVE  \A m \in acked' : Kept(m)'
  BY DEF Steady, Kept, Fresh

LEMMA SteadySends ==
  ASSUME BoxInv, Steady, NEW w \in Writers,
         \/ \E n \in 1..MaxBatch : Send(w, n)
         \/ Ensure(w) \/ AppendRaises(w) \/ ReadToAppend(w)
  PROVE  Steady'
<1>1. /\ UNCHANGED <<path, msgs, open, hand, handled, acked>>
      /\ \A p \in Processes : pc'[p] = "open" <=> pc[p] = "open"
      /\ pc'[Owner] = pc[Owner]
  BY Parts DEF Send, Ensure, AppendRaises, ReadToAppend, Goto, Steady, file, owner
<1>2. CASE ReadToAppend(w)
  <2>1. lock = Nobody /\ lock' = w /\ buf' = msgs
    BY <1>2 DEF ReadToAppend
  <2>2. open = Nobody
    BY <2>1, Parts DEF BoxInv, Locking
  <2>3. Settled' = Settled
    BY <1>1, <2>2 DEF Settled
  <2> QED
    BY <1>1, <2>1, <2>3, KeptStays DEF Steady
<1>3. CASE ~ReadToAppend(w)
  <2>1. UNCHANGED <<lock, buf>> /\ \A p \in Processes \ {w} : pc'[p] = pc[p]
    BY <1>3, Parts DEF Send, Ensure, AppendRaises, Goto
  <2>2. Settled' = Settled
    BY <1>1, <2>1 DEF Settled
  <2>3. w # lock
    BY <1>3, Parts DEF Send, Ensure, AppendRaises, BoxInv, Locking
  <2> QED
    BY <1>1, <2>1, <2>2, <2>3, KeptStays, Parts DEF Steady
<1> QED
  BY <1>2, <1>3

LEMMA SteadyMark ==
  ASSUME BoxInv, Steady, NEW S, ReadToMark(S)
  PROVE  Steady'
<1>1. /\ UNCHANGED <<path, msgs, open, hand, handled, acked>>
      /\ lock = Nobody /\ lock' = Owner /\ buf' = msgs /\ pc'[Owner] = "locked"
      /\ \A p \in Processes \ {Owner} : pc'[p] = pc[p]
  BY Parts DEF ReadToMark, Goto, file
<1>2. open = Nobody
  BY <1>1, Parts DEF BoxInv, Locking
<1>3. Settled' = Settled
  BY <1>1, <1>2 DEF Settled
<1> QED
  BY <1>1, <1>3, KeptStays DEF Steady

LEMMA SteadyTruncate ==
  ASSUME BoxInv, Steady, NEW p \in Processes, Truncate(p)
  PROVE  Steady'
<1>1. /\ UNCHANGED <<lock, buf, hand, handled, acked>> /\ lock = p /\ pc[p] = "locked"
      /\ path' = "torn" /\ open' = p /\ pc'[p] = "open"
      /\ \A q \in Processes \ {p} : pc'[q] = pc[q]
  BY Parts DEF Truncate, Goto, owner
<1>2. open = Nobody /\ msgs = buf
  BY <1>1, Parts DEF BoxInv, Locking, Steady
<1>3. Settled' = Settled
  BY <1>1, <1>2, Parts DEF Settled
<1>4. \A q \in Processes : pc'[q] = "open" => q = p
  BY <1>1, Parts DEF BoxInv, Locking
<1>5. pc'[Owner] \notin {"starting", "missing"}
  BY <1>1, Parts DEF Steady
<1> QED
  BY <1>1, <1>3, <1>4, <1>5, KeptStays, Parts DEF Steady

\* What is acknowledged has been written.
LEMMA SteadyAppend ==
  ASSUME BoxInv, Steady, NEW w \in Writers, AppendRows(w)
  PROVE  Steady'
<1>b. PICK b : b = batch[w]
  OBVIOUS
<1>r. PICK rows : rows = buf \o New(b)
  OBVIOUS
<1>1. /\ lock = w /\ pc[w] = "open" /\ open = w
      /\ lock' = Nobody /\ open' = Nobody /\ path' = "ok" /\ msgs' = rows
      /\ acked' = acked \union ToSet(b) /\ UNCHANGED <<hand, handled>>
      /\ pc'[w] = "idle" /\ \A q \in Processes \ {w} : pc'[q] = pc[q]
  BY <1>b, <1>r, Parts DEF AppendRows, Written, Goto, Steady, owner
<1>2. /\ buf \in Seq(Row) /\ b \in Seq(Message)
      /\ New(b) \in Seq(Row) /\ Len(New(b)) = Len(b)
      /\ \A k \in 1..Len(b) : New(b)[k].msg = b[k] /\ ~New(b)[k].read
  <2>1. b \in Seq(Message) /\ Len(b) \in Nat /\ DOMAIN b = 1..Len(b)
    BY <1>b, Counts
  <2>2. New(b) = [k \in 1..Len(b) |-> [msg |-> b[k], read |-> FALSE]]
    BY <2>1 DEF New
  <2>3. \A k \in 1..Len(b) : [msg |-> b[k], read |-> FALSE] \in Row
    BY <2>1 DEF Row
  <2> QED
    BY <2>1, <2>2, <2>3, Parts
<1>3. /\ \A i \in DOMAIN buf : i \in DOMAIN rows /\ rows[i] = buf[i]
      /\ \A k \in 1..Len(b) : \E i \in DOMAIN rows : rows[i].msg = b[k] /\ ~rows[i].read
  <2>1. PICK c : c = New(b)
    OBVIOUS
  <2>2. rows = buf \o c /\ c \in Seq(Row) /\ Len(c) = Len(b)
    BY <1>2, <1>r, <2>1
  <2>3. /\ \A i \in 1..Len(buf) : rows[i] = buf[i]
        /\ \A k \in 1..Len(c) : rows[Len(buf) + k] = c[k]
    BY <1>2, <2>2, ConcatAt
  <2>4. Len(rows) = Len(buf) + Len(c) /\ rows \in Seq(Row)
    BY <1>2, <2>2, ConcatAt
  <2>5. /\ Len(buf) \in Nat /\ Len(c) \in Nat /\ DOMAIN buf = 1..Len(buf)
        /\ DOMAIN rows = 1..Len(rows)
    BY <1>2, <2>2, <2>4
  <2>6. \A i \in DOMAIN buf : i \in DOMAIN rows /\ rows[i] = buf[i]
    BY <2>3, <2>4, <2>5
  <2>7. \A k \in 1..Len(c) : Len(buf) + k \in DOMAIN rows /\ rows[Len(buf) + k] = c[k]
    BY <2>3, <2>4, <2>5
  <2>8. \A k \in 1..Len(b) : k \in 1..Len(c) /\ c[k].msg = b[k] /\ ~c[k].read
    BY <1>2, <2>1, <2>2
  <2> QED
    BY <2>6, <2>7, <2>8
<1>4. Settled = buf /\ Settled' = rows
  BY <1>1, Parts DEF Settled
<1>5. \A m : Fresh(buf, m) => Fresh(rows, m)
  BY <1>3 DEF Fresh
<1>6. \A m \in ToSet(b) : Fresh(rows, m)
  <2>1. \A m \in ToSet(b) : \E k \in 1..Len(b) : m = b[k]
    BY <1>2 DEF ToSet
  <2> QED
    BY <1>3, <2>1 DEF Fresh
<1>7. \A m : Fresh(Settled, m)' <=> Fresh(rows, m)
  BY <1>4 DEF Fresh
<1>8. \A m \in acked' : Kept(m)'
  <2> TAKE m \in acked'
  <2>1. CASE m \in acked
    <3>1. Contains(handled, m) \/ Contains(hand, m) \/ Fresh(buf, m)
      BY <1>4, <2>1 DEF Steady, Kept
    <3> QED
      BY <1>1, <1>5, <1>7, <3>1 DEF Kept
  <2>2. CASE m \in ToSet(b)
    BY <1>6, <1>7, <2>2 DEF Kept
  <2> QED
    BY <1>1, <2>1, <2>2
<1>9. \A q \in Processes : pc'[q] # "open"
  BY <1>1, Parts DEF BoxInv, Locking
<1> QED
  BY <1>1, <1>8, <1>9, Parts DEF Steady

\* What is marked as read is handed over.
LEMMA SteadyHands ==
  ASSUME BoxInv, Steady, Mark
  PROVE  Steady'
<1> DEFINE row(i) == IF buf[i].msg \in picked THEN [buf[i] EXCEPT !.read = TRUE] ELSE buf[i]
<1>r. PICK rows : rows = [i \in DOMAIN buf |-> row(i)]
  OBVIOUS
<1>1. /\ lock = Owner /\ pc[Owner] = "open" /\ open = Owner
      /\ lock' = Nobody /\ open' = Nobody /\ path' = "ok" /\ msgs' = rows
      /\ hand' = Those(Messages(buf), picked) /\ UNCHANGED <<acked, handled>>
      /\ pc'[Owner] = "handling" /\ \A q \in Processes \ {Owner} : pc'[q] = pc[q]
  BY <1>r, Parts DEF Mark, Written, Goto, Steady
<1>2. DOMAIN rows = DOMAIN buf
      /\ \A i \in DOMAIN buf : buf[i].msg \notin picked => rows[i] = buf[i]
  BY <1>r
<1>3. \A m : Contains(hand', m) <=> m \in picked /\ \E i \in DOMAIN buf : buf[i].msg = m
  <2>1. Messages(buf) \in Seq(Message)
        /\ \A m : Contains(Messages(buf), m) <=> \E i \in DOMAIN buf : buf[i].msg = m
    BY Parts, UnreadHolds DEF BoxInv, Sound
  <2> QED
    BY <1>1, <2>1, ThoseKept
<1>4. Settled = buf /\ Settled' = rows
  BY <1>1, Parts DEF Settled
<1>5. \A m : Fresh(Settled, m)' <=> Fresh(rows, m)
  BY <1>4 DEF Fresh
<1>6. hand = <<>>
  BY <1>1 DEF BoxInv, Reading
<1>7. \A m \in acked' : Kept(m)'
  <2> TAKE m \in acked'
  <2>1. Contains(handled, m) \/ Fresh(buf, m)
    BY <1>1, <1>4, <1>6, InEmpty DEF Steady, Kept
  <2>2. Fresh(buf, m) => Contains(hand', m) \/ Fresh(rows, m)
    BY <1>2, <1>3 DEF Fresh
  <2> QED
    BY <1>1, <1>5, <2>1, <2>2 DEF Kept
<1>8. \A q \in Processes : pc'[q] # "open"
  BY <1>1, Parts DEF BoxInv, Locking
<1> QED
  BY <1>1, <1>7, <1>8, Parts DEF Steady

LEMMA SteadyHandles ==
  ASSUME BoxInv, Steady, Handle
  PROVE  Steady'
<1>1. /\ hand # <<>> /\ hand \in Seq(Message) /\ handled \in Seq(Message)
      /\ handled' = Append(handled, Head(hand)) /\ hand' = Tail(hand)
      /\ UNCHANGED <<path, msgs, open, lock, buf, acked>>
      /\ pc[Owner] = "handling" /\ pc'[Owner] \in {"idle", "handling"}
      /\ \A p \in Processes \ {Owner} : pc'[p] = pc[p]
  BY Parts DEF Handle, Goto, BoxInv, TypeOK, Reading, file
<1>2. Head(hand) \in Message /\ \A m : Contains(hand, m) <=> m = Head(hand) \/ Contains(hand', m)
  BY <1>1, InTail
<1>3. \A m : Contains(handled', m) <=> Contains(handled, m) \/ m = Head(hand)
  BY <1>1, <1>2, InAppend
<1>4. \A m : Fresh(Settled, m)' <=> Fresh(Settled, m)
  BY <1>1 DEF Settled, Fresh
<1>5. \A m \in acked' : Kept(m)'
  BY <1>1, <1>2, <1>3, <1>4 DEF Steady, Kept
<1>6. lock # Owner
  BY <1>1, Parts DEF BoxInv, Locking
<1> QED
  BY <1>1, <1>5, <1>6, Parts DEF Steady

SteadyInv == Exists /\ unlinks = 0 /\ crashes = 0 => Steady

LEMMA SteadyStep == BoxInv /\ SteadyInv /\ [Next]_vars => SteadyInv'
<1> SUFFICES ASSUME BoxInv, SteadyInv, [Next]_vars, Exists, unlinks' = 0, crashes' = 0
             PROVE  Steady'
  BY DEF SteadyInv
<1>1. CASE UNCHANGED vars
  <2>1. Steady
    BY <1>1 DEF vars, bounds, SteadyInv
  <2>2. Settled' = Settled
    BY <1>1 DEF vars, file, Settled
  <2> QED
    BY <1>1, <2>1, <2>2, KeptStays DEF vars, file, owner, Steady
<1>2. ~Deregister /\ ~CleanUp /\ \A p \in Processes : ~Crash(p)
  <2>1. unlinks \in Nat /\ crashes \in Nat
    BY BoundsAssumption DEF BoxInv, TypeOK
  <2> QED
    BY <2>1 DEF Deregister, CleanUp, Unlink, Crash
<1>3. ASSUME NEW w \in Writers, WriterStep(w) \/ \E n \in 1..MaxBatch : Send(w, n)
      PROVE  Steady'
  <2>1. UNCHANGED <<unlinks, crashes>>
    BY <1>3 DEF WriterStep, Ensure, ReadToAppend, AppendRaises, Truncate, AppendRows, Send, bounds
  <2>2. Steady
    BY <2>1 DEF SteadyInv
  <2> QED
    BY <1>3, <2>2, SteadySends, SteadyTruncate, SteadyAppend, Parts DEF WriterStep
<1>4. CASE OwnerStep
  <2>1. UNCHANGED <<unlinks, crashes>>
    BY <1>4 DEF OwnerStep, ReadToMark, Truncate, Mark, Handle, RegisterLooks, RegisterReplaces,
                bounds
  <2>2. Steady
    BY <2>1 DEF SteadyInv
  <2>3. ~RegisterLooks /\ ~RegisterReplaces
    BY <2>2 DEF RegisterLooks, RegisterReplaces, Steady
  <2> QED
    BY <1>4, <2>2, <2>3, SteadyMark, SteadyTruncate, SteadyHands, SteadyHandles, Parts
       DEF OwnerStep
<1> QED
  BY <1>1, <1>2, <1>3, <1>4, Parts DEF Next

\* A message whose append has returned is handled, in hand or waiting, unless the
\* file was not there, was unlinked or a process died.
THEOREM NothingAckedIsLost == Spec => []LostOnlyByChurn
<1>1. Init => SteadyInv
  BY SteadyInit DEF SteadyInv
<1>2. BoxInv /\ SteadyInv /\ [Next]_vars => SteadyInv'
  BY SteadyStep
<1>3. BoxInv /\ SteadyInv => LostOnlyByChurn
  <2> SUFFICES ASSUME BoxInv, Steady, NEW m \in acked
               PROVE  m \in ToSet(handled \o hand \o Waiting)
    BY DEF SteadyInv, LostOnlyByChurn, NoAckedLoss
  <2>1. Contains(handled \o hand \o Waiting, m)
    BY Together DEF Steady, Kept
  <2> QED
    BY <2>1 DEF Contains, ToSet
<1> QED
  BY <1>1, <1>2, <1>3, BoxAlways, PTL DEF Spec

-----------------------------------------------------------------------------
(* The order of what is kept. *)

LEMMA ConcatAppend ==
  ASSUME NEW A, NEW a \in Seq(A), NEW x \in Seq(A), NEW e \in A, NEW y, y = Append(x, e)
  PROVE  Append(a \o x, e) = a \o y
<1>1. /\ a \o x \in Seq(A) /\ Append(x, e) \in Seq(A) /\ <<e>> \in Seq(A)
      /\ Append(a \o x, e) = (a \o x) \o <<e>> /\ Append(x, e) = x \o <<e>>
  OBVIOUS
<1>2. \A z \in Seq(A) : (a \o x) \o z = a \o (x \o z)
  BY ConcatAssociative
<1> QED
  BY <1>1, <1>2

\* A sequence that reads like two others is these two.
LEMMA ConcatReads ==
  ASSUME NEW A, NEW z \in Seq(A), NEW b \in Seq(A), NEW x \in Seq(A),
         Len(x) = Len(z) + Len(b), \A i \in 1..Len(z) : x[i] = z[i],
         \A i \in 1..Len(b) : x[Len(z) + i] = b[i]
  PROVE  x = z \o b
<1> DEFINE y == z \o b
<1>1. /\ Len(z) \in Nat /\ Len(b) \in Nat /\ y \in Seq(A) /\ Len(y) = Len(z) + Len(b)
      /\ \A i \in 1..Len(z) : y[i] = z[i]
      /\ \A i \in 1..Len(b) : y[Len(z) + i] = b[i]
  BY ConcatAt
<1> HIDE DEF y
<1>2. \A i \in 1..Len(x) : x[i] = y[i]
  <2> TAKE i \in 1..Len(x)
  <2>1. CASE i <= Len(z)
    <3>1. i \in 1..Len(z)
      BY <1>1, <2>1
    <3> QED
      BY <1>1, <3>1
  <2>2. CASE i > Len(z)
    <3>1. i - Len(z) \in 1..Len(b) /\ Len(z) + (i - Len(z)) = i
      BY <1>1, <2>2
    <3>2. x[Len(z) + (i - Len(z))] = y[Len(z) + (i - Len(z))]
      BY <1>1, <3>1
    <3> QED
      BY <3>1, <3>2
  <2> QED
    BY <1>1, <2>1, <2>2
<1>3. x = y
  BY <1>1, <1>2, SeqEqual
<1> QED
  BY <1>3 DEF y

\* What of a sequence is kept when it goes on with elements that are all kept.
LEMMA ThoseConcat ==
  ASSUME NEW A, NEW s \in Seq(A), NEW u \in Seq(A), NEW S, \A i \in DOMAIN u : u[i] \in S
  PROVE  Those(s \o u, S) = Those(s, S) \o u
<1> DEFINE t == s \o u
<1>1. /\ t \in Seq(A) /\ Len(s) \in Nat /\ Len(u) \in Nat /\ Len(t) = Len(s) + Len(u)
      /\ \A i \in 1..Len(s) : t[i] = s[i]
      /\ \A i \in 1..Len(u) : t[Len(s) + i] = u[i] /\ u[i] \in S /\ u[i] \in A
  BY ConcatAt
<1> HIDE DEF t
<1>2. PICK g : /\ Those(s, S) = g[Len(s)]
               /\ \A n \in 0..Len(s) : g[n] = Keeping(s, S, g, n)
  BY KeepingDefines
<1>3. PICK h : /\ Those(t, S) = h[Len(t)]
               /\ \A n \in 0..Len(t) : h[n] = Keeping(t, S, h, n)
  BY <1>1, KeepingDefines
<1>4. Those(s, S) \in Seq(A)
  BY ThoseKept
<1>5. h[Len(s)] = g[Len(s)]
  <2> DEFINE P == {n \in Nat : n <= Len(s) => h[n] = g[n]}
  <2>1. 0 \in P
    <3>1. 0 \in 0..Len(s) /\ 0 \in 0..Len(t)
      BY <1>1
    <3>2. g[0] = <<>> /\ h[0] = <<>>
      BY <1>2, <1>3, <3>1 DEF Keeping
    <3> QED
      BY <3>2
  <2>2. ASSUME NEW n \in Nat, n \in P PROVE n + 1 \in P
    <3> SUFFICES ASSUME n + 1 <= Len(s) PROVE h[n + 1] = g[n + 1]
      OBVIOUS
    <3>1. /\ n + 1 \in 0..Len(s) /\ n + 1 \in 0..Len(t) /\ (n + 1) - 1 = n /\ n + 1 # 0
          /\ h[n] = g[n] /\ t[n + 1] = s[n + 1]
      BY <1>1, <2>2
    <3> QED
      BY <1>2, <1>3, <3>1 DEF Keeping
  <2> HIDE DEF P
  <2>3. Len(s) \in P
    BY <1>1, <2>1, <2>2, Upwards
  <2> QED
    BY <2>3 DEF P
<1>6. h[Len(t)] = g[Len(s)] \o u
  <2> DEFINE a == g[Len(s)]
             v(n) == SubSeq(u, 1, n)
             Q(n) == h[Len(s) + n] = a \o v(n)
             P == {n \in Nat : n <= Len(u) => Q(n)}
  <2>0. a \in Seq(A)
    BY <1>2, <1>4
  <2> HIDE DEF a
  <2>1. 0 \in P
    <3>1. v(0) = <<>> /\ Len(s) + 0 = Len(s)
      BY <1>1
    <3>2. a \o <<>> = a
      BY <2>0, ConcatEmptySeq
    <3>3. Q(0)
      BY <1>5, <3>1, <3>2 DEF a
    <3> HIDE DEF Q
    <3> QED
      BY <3>3
  <2>2. ASSUME NEW n \in Nat, n \in P PROVE n + 1 \in P
    <3> SUFFICES ASSUME n + 1 <= Len(u) PROVE Q(n + 1)
      <4> HIDE DEF Q
      <4> QED
        OBVIOUS
    <3> DEFINE k == Len(s) + (n + 1)
               e == u[n + 1]
    <3>1. /\ k \in 0..Len(t) /\ k - 1 = Len(s) + n /\ k # 0
          /\ t[k] = e /\ e \in S /\ e \in A /\ n + 1 \in 1..Len(u) /\ n <= Len(u)
      BY <1>1
    <3>2. Q(n)
      <4> HIDE DEF Q
      <4> QED
        BY <2>2, <3>1
    <3>3. h[k] = Append(h[k - 1], t[k])
      BY <1>3, <3>1 DEF Keeping
    <3> HIDE DEF e
    <3>4. h[k] = Append(a \o v(n), e)
      BY <3>1, <3>2, <3>3
    <3>5. v(n + 1) = v(n) \o <<e>>
      <4>1. n + 1 \in 1..Len(u) /\ 1 \in 1..Len(u) /\ (n + 1) - 1 = n /\ n + 1 \in 1..Len(u)
        BY <1>1
      <4> QED
        BY <4>1, SubSeqRecursiveSecond DEF e
    <3>6. v(n) \in Seq(A)
      BY <1>1, <3>1
    <3> HIDE DEF v
    <3>7. PICK x : x = v(n)
      OBVIOUS
    <3>8. x \in Seq(A) /\ v(n + 1) = Append(x, e)
      BY <3>1, <3>5, <3>6, <3>7
    <3>9. PICK y : y = Append(x, e)
      OBVIOUS
    <3>10. Append(a \o x, e) = a \o y
      <4>1. PICK c, d : c = a /\ d = e
        OBVIOUS
      <4>2. c \in Seq(A) /\ d \in A /\ x \in Seq(A) /\ y = Append(x, d)
        BY <2>0, <3>1, <3>8, <3>9, <4>1
      <4>3. Append(c \o x, d) = c \o y
        BY <4>2, ConcatAppend
      <4> QED
        BY <4>1, <4>3
    <3> QED
      BY <3>4, <3>7, <3>8, <3>9, <3>10
  <2> HIDE DEF Q
  <2>3. Len(u) \in P
    <3> HIDE DEF P
    <3> QED
      BY <1>1, <2>1, <2>2, Upwards
  <2>4. v(Len(u)) = u
    BY SubSeqFull
  <2>5. Q(Len(u)) /\ Len(t) = Len(s) + Len(u)
    BY <1>1, <2>3
  <2> HIDE DEF v
  <2> QED
    BY <2>4, <2>5 DEF Q, a
<1> QED
  BY <1>2, <1>3, <1>6 DEF t

\* Nothing is kept of a sequence that has nothing of the set.
LEMMA ThoseNone ==
  ASSUME NEW A, NEW s \in Seq(A), NEW S, \A i \in DOMAIN s : s[i] \notin S
  PROVE  Those(s, S) = <<>>
<1> DEFINE t == Those(s, S)
<1>1. t \in Seq(A) /\ \A m : Contains(t, m) => m \in S /\ Contains(s, m)
  BY ThoseKept
<1> HIDE DEF t
<1>2. ASSUME NEW m, Contains(t, m) PROVE FALSE
  <2>1. m \in S /\ Contains(s, m)
    BY <1>1, <1>2
  <2>2. PICK i \in DOMAIN s : s[i] = m
    BY <2>1 DEF Contains
  <2> QED
    BY <2>1, <2>2
<1>3. ASSUME NEW i \in DOMAIN t PROVE FALSE
  <2>1. Contains(t, t[i])
    BY DEF Contains
  <2> QED
    BY <1>2, <2>1
<1>4. Len(t) \in Nat /\ DOMAIN t = 1..Len(t)
  BY <1>1
<1>5. Len(t) = 0
  <2>1. 1 \notin 1..Len(t)
    BY <1>3, <1>4
  <2> QED
    BY <1>4, <2>1
<1>6. t = <<>>
  BY <1>1, <1>5
<1> QED
  BY <1>6 DEF t

\* What messages an array of rows and one that is a batch longer hold.
LEMMA MessagesConcat ==
  ASSUME NEW r \in Seq(Row), NEW b \in Seq(Message)
  PROVE  /\ New(b) \in Seq(Row) /\ Len(New(b)) = Len(b)
         /\ \A i \in DOMAIN New(b) : New(b)[i] \in [msg : Message, read : {FALSE}]
         /\ Messages(r \o New(b)) = Messages(r) \o b
<1> DEFINE n == New(b)
<1>1. /\ Len(b) \in Nat /\ DOMAIN b = 1..Len(b) /\ \A i \in 1..Len(b) : b[i] \in Message
  OBVIOUS
<1>2. /\ n = [i \in 1..Len(b) |-> [msg |-> b[i], read |-> FALSE]]
      /\ \A i \in 1..Len(b) : [msg |-> b[i], read |-> FALSE] \in Row
      /\ \A i \in 1..Len(b) : [msg |-> b[i], read |-> FALSE] \in [msg : Message, read : {FALSE}]
  BY <1>1 DEF New, Row
<1>3. /\ n \in Seq(Row) /\ Len(n) = Len(b) /\ DOMAIN n = 1..Len(b)
      /\ \A i \in 1..Len(b) : n[i] = [msg |-> b[i], read |-> FALSE]
  <2> DEFINE e == [i \in 1..Len(b) |-> [msg |-> b[i], read |-> FALSE]]
  <2>1. e \in [1..Len(b) -> Row]
    BY <1>2
  <2>2. \A i \in 1..Len(b) : e[i] = [msg |-> b[i], read |-> FALSE]
    OBVIOUS
  <2> HIDE DEF e
  <2>3. e \in Seq(Row) /\ Len(e) = Len(b) /\ DOMAIN e = 1..Len(b)
    BY <1>1, <2>1
  <2> QED
    BY <1>2, <2>2, <2>3 DEF e
<1> HIDE DEF n
<1>4. /\ r \o n \in Seq(Row) /\ Len(r \o n) = Len(r) + Len(b) /\ Len(r) \in Nat
      /\ DOMAIN (r \o n) = 1..Len(r) + Len(b)
      /\ \A i \in 1..Len(r) : (r \o n)[i] = r[i]
      /\ \A i \in 1..Len(b) : (r \o n)[Len(r) + i] = n[i]
  <2> DEFINE R == Row
  <2> HIDE DEF R
  <2>1. n \in Seq(R) /\ r \in Seq(R)
    BY <1>3 DEF R
  <2>2. /\ Len(r) \in Nat /\ Len(r \o n) = Len(r) + Len(n) /\ r \o n \in Seq(R)
        /\ DOMAIN (r \o n) = 1..Len(r) + Len(n)
        /\ \A i \in 1..Len(r) : (r \o n)[i] = r[i]
        /\ \A i \in 1..Len(n) : (r \o n)[Len(r) + i] = n[i]
    BY <2>1, ConcatAt
  <2> QED
    BY <1>3, <2>2 DEF R
<1>5. \A s \in Seq(Row) : /\ Messages(s) \in Seq(Message) /\ Len(Messages(s)) = Len(s)
                          /\ \A i \in 1..Len(s) : Messages(s)[i] = s[i].msg
  <2> TAKE s \in Seq(Row)
  <2>1. Len(s) \in Nat /\ DOMAIN s = 1..Len(s) /\ \A i \in 1..Len(s) : s[i] \in Row
    OBVIOUS
  <2>2. \A i \in 1..Len(s) : s[i].msg \in Message
    BY <2>1 DEF Row
  <2>3. Messages(s) = [i \in 1..Len(s) |-> s[i].msg]
    BY <2>1 DEF Messages
  <2> QED
    BY <2>1, <2>2, <2>3
<1>6. Messages(r \o n) = Messages(r) \o b
  <2> DEFINE x == Messages(r \o n)
             z == Messages(r)
  <2>1. x \in Seq(Message) /\ Len(x) = Len(r) + Len(b)
        /\ z \in Seq(Message) /\ Len(z) = Len(r) /\ \A i \in 1..Len(r) : z[i] = r[i].msg
    BY <1>4, <1>5
  <2>2. \A i \in 1..Len(r) : x[i] = r[i].msg
    <3> TAKE i \in 1..Len(r)
    <3>1. i \in 1..Len(r) + Len(b)
      BY <1>1, <1>4
    <3> QED
      BY <1>4, <1>5, <3>1
  <2>3. \A i \in 1..Len(b) : x[Len(r) + i] = b[i]
    <3> TAKE i \in 1..Len(b)
    <3>1. Len(r) + i \in 1..Len(r) + Len(b)
      BY <1>1, <1>4
    <3>2. x[Len(r) + i] = (r \o n)[Len(r) + i].msg
      BY <1>4, <1>5, <3>1
    <3> QED
      BY <1>3, <1>4, <3>2
  <2> HIDE DEF x, z
  <2>4. /\ Len(x) = Len(z) + Len(b)
        /\ \A i \in 1..Len(z) : x[i] = z[i]
        /\ \A i \in 1..Len(b) : x[Len(z) + i] = b[i]
    BY <2>1, <2>2, <2>3
  <2>5. x = z \o b
    BY <2>1, <2>4, ConcatReads
  <2> QED
    BY <2>5 DEF x, z
<1> QED
  BY <1>2, <1>3, <1>6 DEF n

\* To keep the rows of a kind and take their messages is to take the messages
\* and keep those of these rows.
LEMMA ThoseMessages ==
  ASSUME NEW r \in Seq(Row), NEW U, NEW M,
         \A i \in DOMAIN r : r[i].msg \in M <=> r[i] \in U
  PROVE  Those(Messages(r), M) = Messages(Those(r, U))
<1> DEFINE s == Messages(r)
<1>1. /\ Len(r) \in Nat /\ DOMAIN r = 1..Len(r) /\ \A i \in 1..Len(r) : r[i] \in Row
  OBVIOUS
<1>2. /\ s \in Seq(Message) /\ Len(s) = Len(r) /\ \A i \in 1..Len(r) : s[i] = r[i].msg
  <2>1. \A i \in 1..Len(r) : r[i].msg \in Message
    BY <1>1 DEF Row
  <2>2. s = [i \in 1..Len(r) |-> r[i].msg]
    BY <1>1 DEF Messages
  <2> QED
    BY <1>1, <2>1, <2>2
<1> HIDE DEF s
<1>3. PICK g : /\ Those(r, U) = g[Len(r)]
               /\ \A n \in 0..Len(r) : g[n] = Keeping(r, U, g, n)
  BY KeepingDefines
<1>4. PICK h : /\ Those(s, M) = h[Len(s)]
               /\ \A n \in 0..Len(s) : h[n] = Keeping(s, M, h, n)
  BY <1>2, KeepingDefines
<1> DEFINE Q(n) == g[n] \in Seq(Row) /\ h[n] = Messages(g[n])
           P == {n \in Nat : n <= Len(r) => Q(n)}
<1>5. 0 \in P
  <2>1. g[0] = <<>> /\ h[0] = <<>>
    BY <1>1, <1>2, <1>3, <1>4 DEF Keeping
  <2>2. Messages(<<>>) = <<>> /\ <<>> \in Seq(Row)
    BY DEF Messages
  <2>3. Q(0)
    BY <2>1, <2>2
  <2> HIDE DEF Q
  <2> QED
    BY <2>3
<1>6. ASSUME NEW n \in Nat, n \in P PROVE n + 1 \in P
  <2> SUFFICES ASSUME n + 1 <= Len(r)
               PROVE  g[n + 1] \in Seq(Row) /\ h[n + 1] = Messages(g[n + 1])
    OBVIOUS
  <2>1. /\ n + 1 \in 0..Len(r) /\ n + 1 \in 0..Len(s) /\ (n + 1) - 1 = n /\ n + 1 # 0
        /\ n + 1 \in DOMAIN r /\ s[n + 1] = r[n + 1].msg /\ r[n + 1] \in Row
        /\ g[n] \in Seq(Row) /\ h[n] = Messages(g[n])
    BY <1>1, <1>2, <1>6
  <2>2. /\ g[n + 1] = IF r[n + 1] \in U THEN Append(g[n], r[n + 1]) ELSE g[n]
        /\ h[n + 1] = IF s[n + 1] \in M THEN Append(h[n], s[n + 1]) ELSE h[n]
    BY <1>3, <1>4, <2>1 DEF Keeping
  <2>3. s[n + 1] \in M <=> r[n + 1] \in U
    BY <2>1
  <2>4. Messages(Append(g[n], r[n + 1])) = Append(Messages(g[n]), r[n + 1].msg)
    <3> DEFINE x == g[n]
               f == r[n + 1]
    <3>1. x \in Seq(Row) /\ f \in Row /\ f.msg \in Message
      BY <2>1 DEF Row
    <3> HIDE DEF x, f
    <3>2. /\ Append(x, f) \in Seq(Row) /\ DOMAIN Append(x, f) = 1..Len(x) + 1 /\ Len(x) \in Nat
          /\ DOMAIN x = 1..Len(x)
          /\ \A i \in 1..Len(x) : Append(x, f)[i] = x[i] /\ x[i] \in Row
          /\ Append(x, f)[Len(x) + 1] = f
      BY <3>1
    <3>3. \A i \in 1..Len(x) : x[i].msg \in Message
      BY <3>2 DEF Row
    <3>4. /\ Messages(x) = [i \in 1..Len(x) |-> x[i].msg]
          /\ Messages(Append(x, f)) = [i \in 1..Len(x) + 1 |-> Append(x, f)[i].msg]
      BY <3>2 DEF Messages
    <3>5. Messages(x) \in Seq(Message) /\ Len(Messages(x)) = Len(x)
          /\ \A i \in 1..Len(x) : Messages(x)[i] = x[i].msg
      BY <3>2, <3>3, <3>4
    <3> DEFINE y == Messages(x)
               z == Append(y, f.msg)
               w == Messages(Append(x, f))
    <3>6. /\ w = [i \in 1..Len(x) + 1 |-> w[i]]
          /\ \A i \in 1..Len(x) : w[i] = x[i].msg
          /\ w[Len(x) + 1] = f.msg
      BY <3>2, <3>4
    <3> HIDE DEF y, w
    <3>7. /\ z \in Seq(Message) /\ Len(z) = Len(x) + 1 /\ DOMAIN z = 1..Len(x) + 1
          /\ \A i \in 1..Len(x) : z[i] = x[i].msg
          /\ z[Len(x) + 1] = f.msg
      BY <3>1, <3>2, <3>5 DEF y
    <3> HIDE DEF z
    <3>8. \A i \in 1..Len(x) + 1 : w[i] \in Message
      BY <3>1, <3>2, <3>3, <3>6
    <3>9. w \in Seq(Message) /\ Len(w) = Len(x) + 1
      BY <3>2, <3>6, <3>8
    <3>10. \A i \in 1..Len(w) : w[i] = z[i]
      <4> TAKE i \in 1..Len(w)
      <4>1. i \in 1..Len(x) \/ i = Len(x) + 1
        BY <3>2, <3>9
      <4> QED
        BY <3>6, <3>7, <4>1
    <3>11. w = z
      BY <3>7, <3>9, <3>10, SeqEqual
    <3> QED
      BY <3>11 DEF w, z, y, x, f
  <2>5. Append(g[n], r[n + 1]) \in Seq(Row)
    BY <2>1
  <2> QED
    BY <2>1, <2>2, <2>3, <2>4, <2>5
<1> HIDE DEF P
<1>7. Len(r) \in P
  BY <1>1, <1>5, <1>6, Upwards
<1> QED
  BY <1>1, <1>2, <1>3, <1>4, <1>7 DEF P, s

-----------------------------------------------------------------------------
(* A stable inbox is a postbox. *)

\* While only the steps of a stable inbox are taken, a rewrite is of the file at
\* the path and of what it held, and the owner marks all it has found unread.
Whole ==
  /\ \A p \in Processes : pc[p] = "open" => open = p
  /\ lock # Nobody /\ pc[lock] = "locked" => msgs = buf
  /\ pc[Owner] \in {"locked", "open"} => picked = PickAll(buf)

LEMMA WholeInit == Init => Whole
  BY NamesAssumption DEF Init, Whole, Processes

\* What there is in the postbox and what was taken out of it stay the same.
SameBox == Settled' = Settled /\ UNCHANGED <<hand, handled>>

LEMMA WholeSends ==
  ASSUME BoxInv, Whole, NEW w \in Writers,
         \/ \E n \in 1..MaxBatch : Send(w, n)
         \/ Ensure(w) \/ AppendRaises(w) \/ ReadToAppend(w)
  PROVE  Whole' /\ SameBox
<1>1. /\ UNCHANGED <<msgs, open, hand, handled, picked>>
      /\ \A p \in Processes : pc'[p] = "open" <=> pc[p] = "open"
      /\ pc'[Owner] = pc[Owner]
  BY Parts DEF Send, Ensure, AppendRaises, ReadToAppend, Goto, file, owner
<1>2. CASE ReadToAppend(w)
  <2>1. lock = Nobody /\ lock' = w /\ buf' = msgs
    BY <1>2 DEF ReadToAppend
  <2>2. open = Nobody /\ pc[Owner] \notin {"locked", "open"}
    BY <2>1, Parts DEF BoxInv, Locking
  <2> QED
    BY <1>1, <2>1, <2>2 DEF Whole, SameBox, Settled
<1>3. CASE ~ReadToAppend(w)
  <2>1. UNCHANGED <<lock, buf>> /\ \A p \in Processes \ {w} : pc'[p] = pc[p]
    BY <1>3, Parts DEF Send, Ensure, AppendRaises, Goto
  <2>2. w # lock
    BY <1>3, Parts DEF Send, Ensure, AppendRaises, BoxInv, Locking
  <2>3. SameBox
    BY <1>1, <2>1 DEF SameBox, Settled
  <2> QED
    BY <1>1, <2>1, <2>2, <2>3, Parts DEF Whole
<1> QED
  BY <1>2, <1>3

LEMMA WholeMark ==
  ASSUME BoxInv, Whole, ReadToMark(PickAll(msgs))
  PROVE  Whole' /\ SameBox
<1>1. /\ UNCHANGED <<msgs, open, hand, handled>> /\ picked' = PickAll(msgs)
      /\ lock = Nobody /\ lock' = Owner /\ buf' = msgs /\ pc'[Owner] = "locked"
      /\ \A p \in Processes \ {Owner} : pc'[p] = pc[p]
  BY Parts DEF ReadToMark, Goto, file
<1>2. open = Nobody
  BY <1>1, Parts DEF BoxInv, Locking
<1> QED
  BY <1>1, <1>2, Parts DEF Whole, SameBox, Settled

LEMMA WholeTruncate ==
  ASSUME BoxInv, Whole, NEW p \in Processes, Truncate(p)
  PROVE  Whole' /\ SameBox
<1>1. /\ UNCHANGED <<lock, buf, hand, handled, picked>> /\ lock = p /\ pc[p] = "locked"
      /\ open' = p /\ pc'[p] = "open" /\ \A q \in Processes \ {p} : pc'[q] = pc[q]
  BY Parts DEF Truncate, Goto, owner
<1>2. open = Nobody /\ msgs = buf
  BY <1>1, Parts DEF BoxInv, Locking, Whole
<1>3. SameBox
  BY <1>1, <1>2, Parts DEF SameBox, Settled
<1>4. \A q \in Processes : pc'[q] = "open" => q = p
  BY <1>1, Parts DEF BoxInv, Locking
<1>5. pc'[Owner] \in {"locked", "open"} => pc[Owner] \in {"locked", "open"}
  BY <1>1, Parts
<1> QED
  BY <1>1, <1>3, <1>4, <1>5, Parts DEF Whole

\* Where two processes would be at a rewrite, one has ended it.
LEMMA WholeWritten ==
  ASSUME BoxInv, NEW p \in Processes, NEW rows, Whole, Written(p, rows),
         pc' = [pc EXCEPT ![p] = pc'[p]], pc'[p] \in {"idle", "handling"}
  PROVE  Whole' /\ Settled = buf /\ Settled' = rows
<1>1. /\ lock = p /\ pc[p] = "open" /\ open = p /\ lock' = Nobody /\ open' = Nobody
      /\ msgs' = rows
  BY DEF Written, Whole
<1>2. \A q \in Processes : pc'[q] \notin {"locked", "open"}
  BY <1>1, Parts DEF BoxInv, Locking
<1> QED
  BY <1>1, <1>2, Parts DEF Whole, Settled

\* What an array of rows holds that is still to be read.
Left(rows) == Messages(Unread(rows))

\* An append puts new messages behind what is there.
LEMMA Posts ==
  ASSUME BoxInv, Whole, NEW w \in Writers, AppendRows(w)
  PROVE  /\ Whole' /\ UNCHANGED <<hand, handled>>
         /\ \E b \in Seq(Message) : /\ Waiting' = Waiting \o b
                                    /\ \A k \in DOMAIN b : ~Old(b[k])
<1> DEFINE U == [msg : Message, read : {FALSE}]
<1>b. PICK b : b = batch[w]
  OBVIOUS
<1>n. PICK n : n = New(b)
  OBVIOUS
<1>1. Written(w, buf \o n) /\ UNCHANGED <<hand, handled>> /\ w \in Processes
      /\ pc' = [pc EXCEPT ![w] = pc'[w]] /\ pc'[w] = "idle"
  BY <1>b, <1>n, Parts DEF AppendRows, Goto, owner
<1>2. Whole' /\ Settled = buf /\ Settled' = buf \o n
  BY <1>1, WholeWritten
<1>3. b \in Seq(Message) /\ buf \in Seq(Row)
  BY <1>b, Counts, Parts
<1>4. /\ n \in Seq(Row) /\ \A i \in DOMAIN n : n[i] \in U
      /\ \A r \in Seq(Row) : Messages(r \o n) = Messages(r) \o b
  BY <1>3, <1>n, MessagesConcat
<1>5. Those(buf \o n, U) = Those(buf, U) \o n /\ Those(buf, U) \in Seq(Row)
  <2> DEFINE R == Row
  <2> HIDE DEF U, R
  <2>1. n \in Seq(R) /\ buf \in Seq(R)
    BY <1>3, <1>4 DEF R
  <2>2. Those(buf \o n, U) = Those(buf, U) \o n
    BY <1>4, <2>1, ThoseConcat
  <2>3. Those(buf, U) \in Seq(R)
    BY <2>1, ThoseKept
  <2> QED
    BY <2>2, <2>3 DEF R
<1>6. Waiting = Left(buf) /\ Waiting' = Left(buf \o n)
  BY <1>2 DEF Waiting, Left
<1>7. Left(buf \o n) = Left(buf) \o b
  BY <1>4, <1>5 DEF Left, Unread
<1>8. \A k \in DOMAIN b : ~Old(b[k])
  <2> TAKE k \in DOMAIN b
  <2>1. b[k] = <<w, count[w] - Len(batch[w]) + k>>
    BY <1>b DEF BoxInv, Sending
  <2>2. k \in 1..Len(b) /\ Len(b) \in Nat
    BY <1>3
  <2>3. count[w] \in Nat /\ Len(batch[w]) \in Nat
    BY Counts
  <2> QED
    BY <2>1, <2>2, <2>3 DEF Old
<1> QED
  BY <1>1, <1>2, <1>3, <1>6, <1>7, <1>8

\* A read of the owner takes all there is.
LEMMA Takes ==
  ASSUME BoxInv, Whole, Mark
  PROVE  /\ Whole' /\ Waiting # <<>> /\ Waiting' = <<>>
         /\ hand = <<>> /\ hand' = Waiting /\ handled' = handled
<1> DEFINE U == [msg : Message, read : {FALSE}]
           row(i) == IF buf[i].msg \in picked THEN [buf[i] EXCEPT !.read = TRUE] ELSE buf[i]
<1>r. PICK rows : rows = [i \in DOMAIN buf |-> row(i)]
  OBVIOUS
<1>1. /\ Written(Owner, rows) /\ hand' = Those(Messages(buf), picked) /\ handled' = handled
      /\ pc' = [pc EXCEPT ![Owner] = pc'[Owner]] /\ pc'[Owner] = "handling"
      /\ pc[Owner] = "open" /\ Owner \in Processes
  BY <1>r, Parts DEF Mark, Written, Goto
<1>2. Whole' /\ Settled = buf /\ Settled' = rows
  BY <1>1, WholeWritten
<1>3. /\ buf \in Seq(Row) /\ Len(buf) \in Nat /\ DOMAIN buf = 1..Len(buf)
      /\ \A i \in DOMAIN buf : buf[i] \in Row
      /\ \A i, j \in DOMAIN buf : buf[i].msg = buf[j].msg => i = j
  BY DEF BoxInv, TypeOK, Sound
<1>4. /\ hand = <<>> /\ picked # {} /\ picked = PickAll(buf)
  BY <1>1 DEF BoxInv, Reading, Whole
<1>5. \A m : m \in picked <=> Fresh(buf, m)
  <2>1. \A m : m \in ToSet(Left(buf)) <=> Contains(Left(buf), m)
    BY DEF Contains, ToSet
  <2>2. \A m : Contains(Left(buf), m) <=> Fresh(buf, m)
    BY <1>3, UnreadHolds DEF Left
  <2> QED
    BY <1>4, <2>1, <2>2 DEF PickAll, Left
<1>6. \A i \in DOMAIN buf : /\ buf[i].msg \in picked <=> ~buf[i].read
                            /\ ~buf[i].read <=> buf[i] \in U
  <2> TAKE i \in DOMAIN buf
  <2>1. buf[i].msg \in picked <=> ~buf[i].read
    BY <1>3, <1>5 DEF Fresh
  <2>2. buf[i] \in [msg : Message, read : BOOLEAN]
    BY <1>3 DEF Row
  <2> QED
    BY <2>1, <2>2
<1>7. /\ rows \in Seq(Row) /\ \A i \in DOMAIN rows : rows[i] \notin U
  <2>1. \A i \in DOMAIN buf : row(i) \in Row /\ row(i) \notin U
    <3> TAKE i \in DOMAIN buf
    <3>1. buf[i] \in [msg : Message, read : BOOLEAN]
      BY <1>3 DEF Row
    <3>2. CASE buf[i].msg \in picked
      BY <3>1, <3>2 DEF Row
    <3>3. CASE buf[i].msg \notin picked
      BY <1>3, <1>6, <3>3
    <3> QED
      BY <3>2, <3>3
  <2> HIDE DEF row, U
  <2> QED
    BY <1>3, <1>r, <2>1
<1>8. Waiting' = <<>>
  <2>1. Those(rows, U) = <<>>
    <3> HIDE DEF U
    <3> QED
      BY <1>7, ThoseNone
  <2>2. Messages(<<>>) = <<>>
    BY DEF Messages
  <2> QED
    BY <1>2, <2>1, <2>2 DEF Waiting, Unread
<1>9. hand' = Waiting
  <2>1. Those(Messages(buf), picked) = Messages(Those(buf, U))
    <3> HIDE DEF U
    <3> QED
      BY <1>3, <1>6, ThoseMessages
  <2> QED
    BY <1>1, <1>2, <2>1 DEF Waiting, Unread
<1>10. Waiting # <<>>
  <2>1. PICK m : m \in picked
    BY <1>4
  <2>2. Contains(Waiting, m)
    <3>1. Contains(Left(buf), m)
      BY <1>3, <1>5, <2>1, UnreadHolds DEF Left
    <3> QED
      BY <1>2, <3>1 DEF Waiting, Left
  <2> QED
    BY <2>2, InEmpty
<1> QED
  BY <1>1, <1>2, <1>4, <1>8, <1>9, <1>10

\* To handle a message changes nothing of what was taken.
LEMMA Hands ==
  ASSUME BoxInv, Whole, Handle
  PROVE  Whole' /\ Settled' = Settled /\ handled' \o hand' = handled \o hand
<1>1. /\ hand # <<>> /\ hand \in Seq(Message) /\ handled \in Seq(Message)
      /\ handled' = Append(handled, Head(hand)) /\ hand' = Tail(hand)
      /\ UNCHANGED <<msgs, open, lock, buf, picked>>
      /\ pc[Owner] = "handling" /\ pc'[Owner] \in {"idle", "handling"}
      /\ \A p \in Processes \ {Owner} : pc'[p] = pc[p]
  BY Parts DEF Handle, Goto, BoxInv, TypeOK, Reading, file
<1>2. lock # Owner
  BY <1>1, Parts DEF BoxInv, Locking
<1>3. Whole' /\ Settled' = Settled
  BY <1>1, <1>2, Parts DEF Whole, Settled
<1>4. PICK e, t : e = Head(hand) /\ t = Tail(hand)
  OBVIOUS
<1>5. /\ e \in Message /\ t \in Seq(Message) /\ <<e>> \in Seq(Message)
      /\ hand = <<e>> \o t /\ Append(handled, e) = handled \o <<e>>
  BY <1>1, <1>4
<1>6. PICK u : u = <<e>>
  OBVIOUS
<1>7. (handled \o u) \o t = handled \o (u \o t)
  BY <1>1, <1>5, <1>6, ConcatAssociative
<1>8. handled' \o hand' = handled \o hand
  BY <1>1, <1>4, <1>5, <1>6, <1>7
<1> QED
  BY <1>3, <1>8

\* Everything that is in the postbox or was taken out of it is old.
LEMMA BoxOld ==
  ASSUME BoxInv
  PROVE  /\ Waiting \in Seq(Message) /\ handled \o hand \in Seq(Message)
         /\ \A m \in Message : Contains(Waiting \o (handled \o hand), m) => Old(m)
<1>1. PICK b, g : b = Waiting /\ g = handled \o hand
  OBVIOUS
<1>2. /\ b \in Seq(Message) /\ g \in Seq(Message)
      /\ \A m : /\ Contains(b, m) <=> Fresh(Settled, m)
                /\ Contains(g, m) <=> Contains(handled, m) \/ Contains(hand, m)
  BY <1>1, SettledSound, Parts, InConcat
<1>3. \A m : Contains(b \o g, m) <=> Contains(b, m) \/ Contains(g, m)
  BY <1>2, InConcat
<1>4. \A m : Fresh(Settled, m) => Old(m)
  <2>1. Settled \in {msgs, buf}
    BY DEF Settled
  <2> QED
    BY <2>1 DEF BoxInv, Sound, Fresh
<1>5. \A m \in Message : Contains(handled, m) \/ Contains(hand, m) => Old(m)
  BY DEF BoxInv, Reading
<1> QED
  BY <1>1, <1>2, <1>3, <1>4, <1>5

\* A sequence that goes on begins with what it was.
LEMMA GoesOn ==
  ASSUME NEW A, NEW s \in Seq(A), NEW b \in Seq(A)
  PROVE  /\ Len(s) \in Nat /\ Len(b) \in Nat /\ Len(s \o b) = Len(s) + Len(b)
         /\ SubSeq(s \o b, 1, Len(s)) = SubSeq(s, 1, Len(s))
         /\ \A i \in Len(s) + 1..Len(s) + Len(b) :
               i - Len(s) \in DOMAIN b /\ (s \o b)[i] = b[i - Len(s)]
<1> DEFINE t == s \o b
<1>1. /\ Len(t) = Len(s) + Len(b) /\ Len(s) \in Nat /\ Len(b) \in Nat /\ t \in Seq(A)
      /\ DOMAIN b = 1..Len(b) /\ \A i \in 1..Len(s) : t[i] = s[i]
      /\ \A i \in Len(s) + 1..Len(s) + Len(b) : i - Len(s) \in 1..Len(b) /\ t[i] = b[i - Len(s)]
  BY ConcatAt
<1> HIDE DEF t
<1>2. SubSeq(t, 1, Len(s)) = SubSeq(s, 1, Len(s))
  <2> DEFINE x == SubSeq(s, 1, Len(s))
             y == SubSeq(t, 1, Len(s))
  <2>1. /\ x \in Seq(A) /\ Len(x) = Len(s) /\ \A i \in 1..Len(s) : x[i] = s[i]
    BY <1>1
  <2>2. /\ y \in Seq(A) /\ Len(y) = Len(s) /\ \A i \in 1..Len(s) : y[i] = t[i]
    BY <1>1
  <2> HIDE DEF x, y
  <2>3. x = y
    BY <1>1, <2>1, <2>2, SeqEqual
  <2> QED
    BY <2>3 DEF x, y
<1> QED
  BY <1>1, <1>2 DEF t

\* Every step of a stable inbox is one of a postbox, or none.
LEMMA StableSteps ==
  ASSUME BoxInv, Whole, Stable, Stable', StableStep
  PROVE  Whole' /\ (Box!Post \/ Box!Take \/ (UNCHANGED <<Waiting, handled \o hand>>))
<1> DEFINE Same == UNCHANGED <<Waiting, handled \o hand>>
<1>1. SameBox => Same
  BY DEF SameBox, Waiting
<1>2. ASSUME NEW w \in Writers, (\E n \in 1..MaxBatch : Send(w, n)) \/ WriterStep(w), ~AppendRows(w)
      PROVE  Whole' /\ Same
  <2>1. CASE Truncate(w)
    BY <1>1, <2>1, WholeTruncate, Parts
  <2>2. CASE ~Truncate(w)
    BY <1>1, <1>2, <2>2, WholeSends DEF WriterStep
  <2> QED
    BY <2>1, <2>2
<1>3. ASSUME NEW w \in Writers, AppendRows(w)
      PROVE  Whole' /\ (Box!Post \/ Same)
  <2>1. /\ Whole' /\ UNCHANGED <<hand, handled>>
        /\ \E b \in Seq(Message) : /\ Waiting' = Waiting \o b
                                   /\ \A k \in DOMAIN b : ~Old(b[k])
    BY <1>3, Posts
  <2>2. PICK b \in Seq(Message) : Waiting' = Waiting \o b /\ \A k \in DOMAIN b : ~Old(b[k])
    BY <2>1
  <2>3. PICK s, t, g : s = Waiting /\ t = Waiting' /\ g = handled \o hand
    OBVIOUS
  <2>4. /\ s \in Seq(Message) /\ g \in Seq(Message) /\ t = s \o b
        /\ \A m \in Message : Contains(s \o g, m) => Old(m)
    BY <2>2, <2>3, BoxOld
  <2>5. CASE b = <<>>
    <3>1. t = s
      BY <2>4, <2>5
    <3> QED
      BY <2>1, <2>3, <3>1
  <2>6. CASE b # <<>>
    <3>1. /\ Len(s) \in Nat /\ Len(b) \in Nat /\ Len(s \o b) = Len(s) + Len(b)
          /\ SubSeq(s \o b, 1, Len(s)) = SubSeq(s, 1, Len(s))
          /\ \A i \in Len(s) + 1..Len(s) + Len(b) :
                i - Len(s) \in DOMAIN b /\ (s \o b)[i] = b[i - Len(s)]
      BY <2>4, GoesOn
    <3>2. /\ Len(t) = Len(s) + Len(b) /\ SubSeq(s, 1, Len(s)) = SubSeq(t, 1, Len(s))
          /\ \A i \in Len(s) + 1..Len(t) : i - Len(s) \in DOMAIN b /\ t[i] = b[i - Len(s)]
      BY <2>4, <3>1
    <3>3. Len(t) > Len(s) /\ Box!IsPrefix(s, t)
      BY <2>6, <3>1, <3>2 DEF Box!IsPrefix
    <3>4. \A i \in Len(s) + 1..Len(t) : t[i] \notin Box!ToSet(s \o g)
      <4> TAKE i \in Len(s) + 1..Len(t)
      <4>1. t[i] \in Message /\ ~Old(t[i])
        BY <2>2, <3>2
      <4>2. ~Contains(s \o g, t[i])
        BY <2>4, <4>1
      <4> QED
        BY <4>2 DEF Contains, Box!ToSet
    <3>5. /\ (IF Stable THEN Waiting ELSE <<>>) = s
          /\ (IF Stable THEN Waiting ELSE <<>>)' = t
          /\ (IF Stable THEN handled \o hand ELSE <<>>) = g
          /\ (IF Stable THEN handled \o hand ELSE <<>>)' = g
      BY <2>1, <2>3
    <3>6. Box!Post
      BY <3>3, <3>4, <3>5 DEF Box!Post
    <3> QED
      BY <2>1, <3>6
  <2> QED
    BY <2>5, <2>6
<1>4. ASSUME ReadToMark(PickAll(msgs)) \/ Truncate(Owner) PROVE Whole' /\ Same
  BY <1>1, <1>4, WholeMark, WholeTruncate, Parts
<1>5. ASSUME Mark PROVE Whole' /\ Box!Take
  <2>1. /\ Whole' /\ Waiting # <<>> /\ Waiting' = <<>>
        /\ hand = <<>> /\ hand' = Waiting /\ handled' = handled
    BY <1>5, Takes
  <2>2. handled \o <<>> = handled
    BY Parts, ConcatEmptySeq
  <2>3. handled' \o hand' = (handled \o hand) \o Waiting
    BY <2>1, <2>2
  <2> QED
    BY <2>1, <2>3 DEF Box!Take
<1>6. ASSUME Handle PROVE Whole' /\ Same
  BY <1>6, Hands DEF Waiting
<1> QED
  BY <1>2, <1>3, <1>4, <1>5, <1>6 DEF StableStep

\* A stable inbox is a postbox: messages are put behind what is there, several
\* at a time, and taken all at once; none is lost, repeated or reordered.
THEOREM InboxIsPostbox == MCSpec => ImplementsPostbox
<1> DEFINE StableInv == BoxInv /\ (Stable => Whole)
           Steps == (Box!Post \/ Box!Take) \/
                      UNCHANGED <<IF Stable THEN Waiting ELSE <<>>,
                                  IF Stable THEN handled \o hand ELSE <<>>>>
<1>1. MCInit => StableInv /\ Box!Init
  <2> SUFFICES ASSUME MCInit PROVE StableInv /\ Box!Init
    OBVIOUS
  <2>1. StableInv
    BY BoxInit, WholeInit DEF MCInit
  <2>2. Settled = <<>> /\ handled \o hand = <<>>
    BY DEF MCInit, Init, Settled
  <2>3. Waiting = <<>>
    <3>1. ~\E m : Contains(Waiting, m)
      BY <2>1, <2>2, SettledSound DEF Fresh
    <3>2. Waiting \in Seq(Message)
      BY <2>1, SettledSound
    <3>3. PICK b : b = Waiting
      OBVIOUS
    <3>4. b = <<>>
      <4>1. DOMAIN b = {}
        BY <3>1, <3>3 DEF Contains
      <4> QED
        BY <3>2, <3>3, <4>1
    <3> QED
      BY <3>3, <3>4
  <2> QED
    BY <2>1, <2>2, <2>3 DEF Box!Init
<1>2. StableInv /\ [MCNext]_<<vars, plan>> => StableInv' /\ Steps
  <2> SUFFICES ASSUME StableInv, [MCNext]_<<vars, plan>> PROVE StableInv' /\ Steps
    OBVIOUS
  <2>1. plan' = plan /\ [Next]_vars
    BY DEF MCNext, Undisturbed, StableStep, Churn, Next, OwnerStep
  <2>2. BoxInv' /\ (Stable' <=> Stable)
    BY <2>1, BoxStep DEF Stable
  <2>3. CASE ~Stable
    BY <2>2, <2>3
  <2>4. CASE Stable /\ StableStep
    BY <2>2, <2>4, StableSteps
  <2>5. CASE Stable /\ UNCHANGED vars
    BY <2>2, <2>5 DEF vars, file, owner, Whole, Waiting, Settled
  <2> QED
    BY <2>3, <2>4, <2>5 DEF MCNext, Undisturbed, Churn, Stable, vars
<1> QED
  BY <1>1, <1>2, PTL DEF MCSpec, ImplementsPostbox, Box!Spec
-----------------------------------------------------------------------------
(* The batched sender, for any senders and bounds: where a message is. *)

InHands(m) == \E h \in hands : Contains(h.batch, m)

\* Nothing but what was sent is anywhere, and what was sent is somewhere.
Placed(m) == m \in Batch!Sent <=> Contains(buffer, m) \/ Contains(inbox, m) \/ InHands(m)

\* A message is in at most one place, once.
Alone(m) ==
  /\ Once(buffer, m) /\ Once(inbox, m) /\ \A h \in hands : Once(h.batch, m)
  /\ ~(Contains(buffer, m) /\ Contains(inbox, m))
  /\ InHands(m) => ~Contains(buffer, m) /\ ~Contains(inbox, m)
  /\ \A g, h \in hands : Contains(g.batch, m) /\ Contains(h.batch, m) => g = h

\* A sender that has looked at _closed has a message to buffer.
SendInv ==
  /\ Batch!TypeOK
  /\ \A s \in Senders : stage[s] = "checked" => sends[s] > 0
  /\ \A m \in Batch!Message : Placed(m) /\ Alone(m)

LEMMA BatchFacts == MaxPerSender \in Nat /\ MaxFailures \in Nat /\ MayClose \in BOOLEAN
BY BatchedAssumption DEF Batch!BatchedConstants

LEMMA SendInit == Batch!Init => SendInv
<1> SUFFICES ASSUME Batch!Init PROVE SendInv
  OBVIOUS
<1>1. Batch!TypeOK
  <2>1. 0 \in 0..MaxPerSender /\ 0 \in 0..MaxFailures /\ <<>> \in Seq(Batch!Message)
    BY BatchFacts
  <2> QED
    BY <2>1 DEF Batch!Init, Batch!TypeOK
<1>2. ASSUME NEW m \in Batch!Message PROVE m \notin Batch!Sent
  BY <1>2 DEF Batch!Sent, Batch!Message, Batch!Init
<1> QED
  BY <1>1, <1>2, InEmpty DEF Batch!Init, SendInv, Placed, Alone, InHands

\* The inductive invariant says what ExactlyOnce says.
LEMMA SendInvSays == SendInv => ExactlyOnce
<1> SUFFICES ASSUME SendInv, NEW m \in Batch!Sent
             PROVE  /\ \A b \in Batch!Held : Once(b, m)
                    /\ \E b \in Batch!Held : Contains(b, m)
                    /\ ~ \E h \in hands : Contains(h.batch, m) /\ Contains(buffer \o inbox, m)
                    /\ ~ (Contains(buffer, m) /\ Contains(inbox, m))
                    /\ \A g, h \in hands : Contains(g.batch, m) /\ Contains(h.batch, m) => g = h
  BY DEF Batch!ExactlyOnce, ExactlyOnce, Once, Batch!Contains, Contains
<1>1. m \in Batch!Message /\ Placed(m) /\ Alone(m)
  BY DEF SendInv, Batch!Sent
<1>2. Contains(buffer \o inbox, m) <=> Contains(buffer, m) \/ Contains(inbox, m)
  BY InConcat DEF SendInv, Batch!TypeOK
<1> QED
  BY <1>1, <1>2 DEF Placed, Alone, InHands, Batch!Held

-----------------------------------------------------------------------------
(* One lemma per operation. *)

\* A step that moves no message.
LEMMA SendStays ==
  ASSUME SendInv, Batch!TypeOK', UNCHANGED <<buffer, inbox, hands>>, Batch!Sent' = Batch!Sent,
         \A s \in Senders : stage'[s] = "checked" => sends'[s] > 0
  PROVE  SendInv'
  BY DEF SendInv, Placed, Alone, InHands

\* The call is counted, and its message not yet sent.
LEMMA SendCheck == ASSUME SendInv, NEW s \in Senders, Batch!Check(s) PROVE SendInv'
<1>1. /\ stage[s] = "idle" /\ sends[s] \in 0..MaxPerSender /\ sends[s] < MaxPerSender
      /\ sends'[s] = sends[s] + 1 /\ stage'[s] = "checked"
      /\ \A t \in Senders \ {s} : stage'[t] = stage[t] /\ sends'[t] = sends[t]
  BY DEF SendInv, Batch!TypeOK, Batch!Check
<1>2. Batch!TypeOK'
  BY <1>1, BatchFacts DEF SendInv, Batch!TypeOK, Batch!Check
<1>3. Batch!Sent' = Batch!Sent
  <2>1. ASSUME NEW m \in Batch!Message PROVE m \in Batch!Sent' <=> m \in Batch!Sent
    <3>1. m[1] \in Senders /\ m[2] \in Nat
      BY <2>1 DEF Batch!Message
    <3> QED
      BY <1>1, <3>1, BatchFacts DEF Batch!Sent
  <2> QED
    BY <2>1 DEF Batch!Sent
<1>4. \A t \in Senders : stage'[t] = "checked" => sends'[t] > 0
  BY <1>1 DEF SendInv
<1> QED
  BY <1>2, <1>3, <1>4, SendStays DEF Batch!Check

\* The message is sent by being buffered.
LEMMA SendBuffer == ASSUME SendInv, NEW s \in Senders, Batch!Buffer(s) PROVE SendInv'
<1> DEFINE x == <<s, sends[s]>>
<1>1. /\ stage[s] = "checked" /\ sends[s] \in 1..MaxPerSender /\ sends' = sends
      /\ buffer' = Append(buffer, x) /\ hands' = hands /\ inbox' = inbox
      /\ stage'[s] \in {"arm", "idle"}
      /\ \A t \in Senders \ {s} : stage'[t] = stage[t]
      /\ buffer \in Seq(Batch!Message)
  BY DEF SendInv, Batch!TypeOK, Batch!Buffer
<1>2. x \in Batch!Message
  BY <1>1 DEF Batch!Message
<1>3. Batch!TypeOK'
  <2>1. buffer' \in Seq(Batch!Message)
    BY <1>1, <1>2
  <2> QED
    BY <2>1 DEF SendInv, Batch!TypeOK, Batch!Buffer
<1>4. \A m \in Batch!Message : m \in Batch!Sent' <=> m \in Batch!Sent \/ m = x
  <2> TAKE m \in Batch!Message
  <2>1. m[1] \in Senders /\ m[2] \in Nat /\ m = <<m[1], m[2]>>
    BY DEF Batch!Message
  <2>2. CASE m[1] = s
    BY <1>1, <2>1, <2>2, BatchFacts DEF Batch!Sent
  <2>3. CASE m[1] # s
    BY <1>1, <2>1, <2>3 DEF Batch!Sent
  <2> QED
    BY <2>2, <2>3
<1>5. x \notin Batch!Sent
  BY <1>1, BatchFacts DEF Batch!Sent
<1> HIDE DEF x
<1>6. ASSUME NEW m \in Batch!Message PROVE Placed(m)' /\ Alone(m)'
  <2>1. /\ Contains(buffer', m) <=> Contains(buffer, m) \/ m = x
        /\ Once(buffer, m) /\ ~(m = x /\ Contains(buffer, m)) => Once(buffer', m)
    BY <1>1, <1>2, InAppend
  <2>2. Placed(m) /\ Alone(m) /\ (InHands(m)' <=> InHands(m))
    BY <1>1 DEF SendInv, InHands
  <2> QED
    BY <1>1, <1>4, <1>5, <2>1, <2>2 DEF Placed, Alone
<1> QED
  BY <1>1, <1>3, <1>6 DEF SendInv

\* The buffer changes hands.
LEMMA SendPop ==
  ASSUME SendInv, NEW by \in {"timer", "caller"}, Batch!Pop(by), Batch!TypeOK'
  PROVE  SendInv'
<1> DEFINE new == [by |-> by, batch |-> buffer]
<1>1. /\ buffer' = <<>> /\ inbox' = inbox /\ stage' = stage /\ sends' = sends
      /\ hands' = IF buffer = <<>> THEN hands ELSE hands \union {new}
  BY DEF Batch!Pop
<1>2. Batch!Sent' = Batch!Sent
  BY <1>1 DEF Batch!Sent
<1>3. new.batch = buffer
  OBVIOUS
<1> HIDE DEF new
<1>4. ASSUME NEW m \in Batch!Message PROVE Placed(m)' /\ Alone(m)'
  <2>1. Placed(m) /\ Alone(m)
    BY DEF SendInv
  <2>2. ~Contains(buffer', m) /\ Once(buffer', m) /\ (buffer = <<>> => ~Contains(buffer, m))
    BY <1>1, InEmpty
  <2>3. InHands(m)' <=> InHands(m) \/ Contains(buffer, m)
    BY <1>1, <1>3, <2>2 DEF InHands
  <2>4. Placed(m)'
    BY <1>1, <1>2, <2>1, <2>2, <2>3 DEF Placed
  <2>5. \A h \in hands' : h \in hands \/ h = new
    BY <1>1
  <2>6. Alone(m)'
    <3>1. \A h \in hands' : Once(h.batch, m)
      BY <1>3, <2>1, <2>5 DEF Alone
    <3>2. \A g, h \in hands' : Contains(g.batch, m) /\ Contains(h.batch, m) => g = h
      BY <1>3, <2>1, <2>5 DEF Alone, InHands
    <3> QED
      BY <1>1, <2>1, <2>2, <2>3, <3>1, <3>2 DEF Alone
  <2> QED
    BY <2>4, <2>6
<1> QED
  BY <1>1, <1>4 DEF SendInv

\* A batch is appended to the inbox, or put in front of the buffer.
LEMMA SendPutsDown ==
  ASSUME SendInv, Batch!TypeOK', NEW h \in hands, hands' = hands \ {h}, UNCHANGED <<stage, sends>>,
         \/ inbox' = inbox \o h.batch /\ buffer' = buffer
         \/ inbox' = inbox /\ buffer' = h.batch \o buffer
  PROVE  SendInv'
<1>1. Batch!Sent' = Batch!Sent
  BY DEF Batch!Sent
<1>2. buffer \in Seq(Batch!Message) /\ inbox \in Seq(Batch!Message) /\ h.batch \in Seq(Batch!Message)
  BY DEF SendInv, Batch!TypeOK
<1>3. ASSUME NEW m \in Batch!Message PROVE Placed(m)' /\ Alone(m)'
  <2>1. Placed(m) /\ Alone(m)
    BY DEF SendInv
  <2>2. InHands(m) <=> InHands(m)' \/ Contains(h.batch, m)
    BY DEF InHands
  <2>3. Contains(h.batch, m) => ~InHands(m)' /\ ~Contains(buffer, m) /\ ~Contains(inbox, m)
    BY <2>1 DEF InHands, Alone
  <2>4. Once(buffer, m) /\ Once(inbox, m) /\ Once(h.batch, m)
    BY <2>1 DEF Alone
  <2>5. /\ \A g \in hands' : Once(g.batch, m)
        /\ \A f, g \in hands' : Contains(f.batch, m) /\ Contains(g.batch, m) => f = g
    BY <2>1 DEF Alone
  <2>6. CASE inbox' = inbox \o h.batch /\ buffer' = buffer
    <3>1. /\ Contains(inbox', m) <=> Contains(inbox, m) \/ Contains(h.batch, m)
          /\ Once(inbox', m)
      BY <1>2, <2>3, <2>4, <2>6, InConcat
    <3> QED
      BY <1>1, <2>1, <2>2, <2>3, <2>4, <2>5, <2>6, <3>1 DEF Placed, Alone
  <2>7. CASE inbox' = inbox /\ buffer' = h.batch \o buffer
    <3>1. /\ Contains(buffer', m) <=> Contains(h.batch, m) \/ Contains(buffer, m)
          /\ Once(buffer', m)
      BY <1>2, <2>3, <2>4, <2>7, InConcat
    <3> QED
      BY <1>1, <2>1, <2>2, <2>3, <2>4, <2>5, <2>7, <3>1 DEF Placed, Alone
  <2> QED
    BY <2>6, <2>7
<1> QED
  BY <1>3 DEF SendInv

\* Every variable keeps its type when the buffer or a batch moves.
LEMMA SendTypes ==
  ASSUME SendInv, Batch!TimerPops \/ Batch!CallerPops \/ \E h \in hands : Batch!Deliver(h) \/ Batch!Fail(h)
  PROVE  Batch!TypeOK'
<1>0. <<>> \in Seq(Batch!Message)
  OBVIOUS
<1>1. ASSUME NEW by \in {"timer", "caller"}, Batch!Pop(by)
      PROVE  /\ \A h \in hands' : h.by \in {"timer", "caller"} /\ h.batch \in Seq(Batch!Message)
             /\ buffer' = <<>> /\ timer' = "none"
             /\ UNCHANGED <<closed, stage, sends, inbox, failures>>
  BY <1>1 DEF Batch!Pop, SendInv, Batch!TypeOK
<1>2. CASE Batch!TimerPops
  <2>1. running' \in Nat /\ caller' = caller
    BY <1>2 DEF Batch!TimerPops, SendInv, Batch!TypeOK
  <2> QED
    BY <1>0, <1>1, <1>2, <2>1 DEF Batch!TimerPops, SendInv, Batch!TypeOK
<1>3. CASE Batch!CallerPops
  <2>1. running' = running /\ caller' \in {"flushed", "appending"}
    BY <1>3 DEF Batch!CallerPops
  <2> QED
    BY <1>0, <1>1, <1>3, <2>1 DEF Batch!CallerPops, SendInv, Batch!TypeOK
<1>4. ASSUME NEW h \in hands, Batch!Deliver(h) PROVE Batch!TypeOK'
  <2>1. inbox' \in Seq(Batch!Message)
    BY <1>4, InConcat DEF Batch!Deliver, SendInv, Batch!TypeOK
  <2> QED
    BY <1>4, <2>1 DEF Batch!Deliver, Batch!Done, SendInv, Batch!TypeOK
<1>5. ASSUME NEW h \in hands, Batch!Fail(h) PROVE Batch!TypeOK'
  <2>1. buffer' \in Seq(Batch!Message)
    BY <1>5, InConcat DEF Batch!Fail, SendInv, Batch!TypeOK
  <2>2. failures' \in 0..MaxFailures
    BY <1>5, BatchFacts DEF Batch!Fail, SendInv, Batch!TypeOK
  <2> QED
    BY <1>5, <2>1, <2>2 DEF Batch!Fail, Batch!Done, SendInv, Batch!TypeOK
<1> QED
  BY <1>2, <1>3, <1>4, <1>5

\* Timers come and go, and flush() and close() return: no message moves.
LEMMA SendElse ==
  ASSUME SendInv, (\E s \in Senders : Batch!Arm(s)) \/ Batch!Fire \/ Batch!List \/ Batch!FlushReturns \/ Batch!Close
  PROVE  SendInv'
<1>1. Batch!TypeOK' /\ UNCHANGED <<buffer, inbox, hands, sends>>
      /\ \A s \in Senders : stage'[s] = "checked" <=> stage[s] = "checked"
  <2>1. ASSUME NEW s \in Senders, Batch!Arm(s)
        PROVE  Batch!TypeOK' /\ UNCHANGED <<buffer, inbox, hands, sends>>
               /\ \A t \in Senders : stage'[t] = "checked" <=> stage[t] = "checked"
    BY <2>1 DEF Batch!Arm, SendInv, Batch!TypeOK
  <2>2. CASE Batch!Fire
    BY <2>2 DEF Batch!Fire, SendInv, Batch!TypeOK
  <2>3. CASE Batch!List \/ Batch!FlushReturns \/ Batch!Close
    BY <2>3 DEF Batch!List, Batch!FlushReturns, Batch!Close, SendInv, Batch!TypeOK
  <2> QED
    BY <2>1, <2>2, <2>3
<1>2. Batch!Sent' = Batch!Sent
  BY <1>1 DEF Batch!Sent, Batch!Message
<1> QED
  BY <1>1, <1>2, SendStays DEF SendInv

LEMMA SendStep == SendInv /\ [Batch!Next]_(Batch!vars) => SendInv'
<1> SUFFICES ASSUME SendInv, [Batch!Next]_(Batch!vars) PROVE SendInv'
  OBVIOUS
<1>1. ASSUME NEW s \in Senders, Batch!Check(s) \/ Batch!SenderStep(s) PROVE SendInv'
  BY <1>1, SendCheck, SendBuffer, SendElse DEF Batch!SenderStep
<1>2. CASE Batch!TimerStep
  BY <1>2, SendElse, SendTypes, SendPop DEF Batch!TimerStep, Batch!TimerPops
<1>3. CASE Batch!FlushStep
  <2>1. PICK h \in hands : Batch!Deliver(h) \/ Batch!Fail(h)
    BY <1>3 DEF Batch!FlushStep
  <2>2. Batch!TypeOK'
    BY <2>1, SendTypes
  <2> QED
    BY <2>1, <2>2, SendPutsDown DEF Batch!Deliver, Batch!Fail, Batch!Done
<1>4. CASE Batch!CallerStep
  BY <1>4, SendElse, SendTypes, SendPop DEF Batch!CallerStep, Batch!CallerPops
<1>5. CASE UNCHANGED Batch!vars
  <2>1. Batch!Sent' = Batch!Sent
    BY <1>5 DEF Batch!vars, Batch!Sent
  <2> QED
    BY <1>5, <2>1, SendStays DEF Batch!vars, SendInv, Batch!TypeOK
<1> QED
  BY <1>1, <1>2, <1>3, <1>4, <1>5 DEF Batch!Next

-----------------------------------------------------------------------------
\* Every variable keeps its type: batches, buffer and inbox hold messages.
THEOREM BatchTypes == BatchSpec => []Batch!TypeOK
<1>1. SendInv => Batch!TypeOK
  BY DEF SendInv
<1> QED
  BY <1>1, SendInit, SendStep, PTL DEF Batch!Spec, BatchSpec

\* However many senders, timers and flushes overlap and whatever appends fail,
\* a message that was sent is in one place, once.
THEOREM NothingLostOrTwice == BatchSpec => []ExactlyOnce
  BY SendInvSays, SendInit, SendStep, PTL DEF Batch!Spec, BatchSpec

-----------------------------------------------------------------------------
(* The file lock, for any processes and threads, timeouts, nesting, deaths    *)
(* and removals of the lock file.                                             *)

\* What the two locks owe each other: who is in the middle of a call holds as
\* much of the RLock and of the FileLock as the call has taken so far.
Stage(t) ==
  /\ at[t] = "out" => depth[t] = 0 /\ counter[t] = 0
  /\ at[t] = "thread" => depth[t] = counter[t]
  /\ at[t] = "file" => depth[t] = counter[t] + 1
  /\ at[t] = "in" => depth[t] = counter[t] /\ counter[t] > 0
  /\ at[t] = "leaving" => depth[t] = counter[t] + 1

\* A count goes with the lock it counts, and files are locked up to the one
\* that is at the path now.
Counted(t) ==
  /\ depth[t] > 0 <=> rlock[process[t]] = t
  /\ counter[t] > 0 <=> held[t] > 0
  /\ held[t] <= lockfile

\* The operating system gives a file to one at a time.
OneHolder == \A t, u \in Threads : held[t] > 0 /\ held[t] = held[u] => t = u

\* Without a removal there is one file.
OneFile == lockfile = removals + 1

LockInv ==
  /\ Lock!TypeOK
  /\ \A t \in Threads : Stage(t)
  /\ \A t \in Threads : Counted(t)
  /\ OneHolder
  /\ OneFile

LEMMA LockFacts ==
  /\ process \in [Threads -> Procs]
  /\ NoThread \notin Threads
  /\ Timeouts \subseteq Int
  /\ MaxDepth \in Nat /\ MaxDeaths \in Nat /\ MaxRemovals \in Nat
BY LockAssumption DEF Lock!LockConstants

\* The lock starts free.
LEMMA LockInit == Lock!Init => LockInv
BY LockFacts DEF Lock!Init, LockInv, Lock!TypeOK, Stage, Counted, OneHolder, OneFile

USE DEF Lock!Goto, Lock!locks, Lock!world

\* A call begins: nothing is taken yet.
LEMMA CallStep ==
  ASSUME LockInv, NEW t \in Threads, NEW n \in Timeouts, Lock!Call(t, n)
  PROVE  LockInv'
BY LockFacts DEF Lock!Call, LockInv, Lock!TypeOK, Stage, Counted, OneHolder, OneFile

\* The RLock is taken, for the first time or once more.
LEMMA TakeThreadStep ==
  ASSUME LockInv, NEW t \in Threads, Lock!TakeThread(t)
  PROVE  LockInv'
<1> USE LockFacts DEF Lock!TakeThread
<1>0. process[t] \in Procs /\ \A u \in Threads : process[u] \in Procs
  OBVIOUS
<1>1. Lock!TypeOK'
  BY <1>0 DEF LockInv, Lock!TypeOK, Stage, Counted
<1>2. ASSUME NEW u \in Threads PROVE Stage(u)'
  BY DEF LockInv, Lock!TypeOK, Stage, Counted
<1>3. ASSUME NEW u \in Threads PROVE Counted(u)'
  BY <1>0 DEF LockInv, Lock!TypeOK, Stage, Counted
<1>4. OneHolder' /\ OneFile'
  BY DEF LockInv, Lock!TypeOK, Counted, OneHolder, OneFile
<1> QED
  BY <1>1, <1>2, <1>3, <1>4 DEF LockInv

\* The first wait is given up with nothing taken.
LEMMA ThreadTimeoutStep ==
  ASSUME LockInv, NEW t \in Threads, Lock!ThreadTimeout(t)
  PROVE  LockInv'
BY LockFacts
   DEF Lock!ThreadTimeout, Lock!Return, LockInv, Lock!TypeOK, Stage, Counted, OneHolder, OneFile

\* The file is locked, or counted once more.
LEMMA TakeFileStep ==
  ASSUME LockInv, NEW t \in Threads, Lock!TakeFile(t)
  PROVE  LockInv'
BY LockFacts
   DEF Lock!TakeFile, Lock!Holders, LockInv, Lock!TypeOK, Stage, Counted, OneHolder, OneFile

\* The second wait is given up, and the RLock with it.
LEMMA FileTimeoutStep ==
  ASSUME LockInv, NEW t \in Threads, Lock!FileTimeout(t)
  PROVE  LockInv'
<1> USE LockFacts
<1>1. /\ process[t] \in Procs /\ depth[t] = 1 /\ counter[t] = 0
      /\ rlock[process[t]] = t /\ NoThread # t
  BY DEF Lock!FileTimeout, LockInv, Lock!TypeOK, Stage, Counted
<1>2. /\ at' = [at EXCEPT ![t] = "out"]
      /\ depth' = [depth EXCEPT ![t] = 0]
      /\ rlock' = [rlock EXCEPT ![process[t]] = NoThread]
      /\ UNCHANGED <<counter, held, limit, waited, Lock!world>>
  BY <1>1 DEF Lock!FileTimeout, Lock!GiveUpThread, Lock!Return
<1>3. Lock!TypeOK'
  BY <1>1, <1>2 DEF LockInv, Lock!TypeOK
<1>4. ASSUME NEW u \in Threads PROVE Stage(u)' /\ Counted(u)'
  <2>1. process[u] \in Procs
    OBVIOUS
  <2> QED
    BY <1>1, <1>2, <2>1 DEF LockInv, Lock!TypeOK, Stage, Counted
<1>5. OneHolder' /\ OneFile'
  BY <1>2 DEF LockInv, OneHolder, OneFile
<1> QED
  BY <1>3, <1>4, <1>5 DEF LockInv

\* The body ends: the FileLock first ...
LEMMA ReleaseFileStep ==
  ASSUME LockInv, NEW t \in Threads, Lock!ReleaseFile(t)
  PROVE  LockInv'
BY LockFacts
   DEF Lock!ReleaseFile, LockInv, Lock!TypeOK, Stage, Counted, OneHolder, OneFile

\* ... then the RLock.
LEMMA ReleaseThreadStep ==
  ASSUME LockInv, NEW t \in Threads, Lock!ReleaseThread(t)
  PROVE  LockInv'
<1> USE LockFacts DEF Lock!ReleaseThread, Lock!GiveUpThread, Lock!Return
<1>0. process[t] \in Procs /\ \A u \in Threads : process[u] \in Procs
  OBVIOUS
<1>1. Lock!TypeOK'
  BY <1>0 DEF LockInv, Lock!TypeOK, Stage, Counted
<1>2. ASSUME NEW u \in Threads PROVE Stage(u)'
  BY DEF LockInv, Lock!TypeOK, Stage, Counted
<1>3. ASSUME NEW u \in Threads PROVE Counted(u)'
  BY <1>0 DEF LockInv, Lock!TypeOK, Stage, Counted
<1>4. OneHolder' /\ OneFile'
  BY DEF LockInv, Lock!TypeOK, Counted, OneHolder, OneFile
<1> QED
  BY <1>1, <1>2, <1>3, <1>4 DEF LockInv

\* A death takes what the threads of a process held.
LEMMA DieStep ==
  ASSUME LockInv, NEW p \in Procs, Lock!Die(p)
  PROVE  LockInv'
BY LockFacts DEF Lock!Die, LockInv, Lock!TypeOK, Stage, Counted, OneHolder, OneFile

\* The world outside changes neither lock.
LEMMA RemoveStep == LockInv /\ Lock!Remove => LockInv'
BY LockFacts DEF Lock!Remove, LockInv, Lock!TypeOK, Stage, Counted, OneHolder, OneFile

LEMMA TickStep == LockInv /\ Lock!Tick => LockInv'
BY LockFacts DEF Lock!Tick, LockInv, Lock!TypeOK, Stage, Counted, OneHolder, OneFile

\* Every step keeps the invariant.
LEMMA LockStep == LockInv /\ [Lock!Next]_(Lock!vars) => LockInv'
<1> SUFFICES ASSUME LockInv, [Lock!Next]_(Lock!vars) PROVE LockInv'
  OBVIOUS
<1>1. ASSUME NEW t \in Threads, Lock!Attempt(t) PROVE LockInv'
  BY <1>1, TakeThreadStep, ThreadTimeoutStep, TakeFileStep, FileTimeoutStep DEF Lock!Attempt
<1>2. ASSUME NEW t \in Threads, Lock!Leave(t) PROVE LockInv'
  BY <1>2, ReleaseFileStep, ReleaseThreadStep DEF Lock!Leave
<1>3. CASE UNCHANGED Lock!vars
  BY <1>3 DEF Lock!vars, LockInv, Lock!TypeOK, Stage, Counted, OneHolder, OneFile
<1> QED
  BY <1>1, <1>2, <1>3, CallStep, DieStep, RemoveStep, TickStep DEF Lock!Next

LEMMA LockAlways == LockSpec => []LockInv
BY LockInit, LockStep, PTL DEF Lock!Spec, LockSpec

\* The lock's state is well formed.
THEOREM LockTypeCorrect == LockSpec => []Lock!TypeOK
<1> LockInv => Lock!TypeOK
  BY DEF LockInv
<1> QED
  BY LockAlways, PTL

\* file_lock lets two threads of one process in together never, and two of
\* different processes only with different files under them.
THEOREM LockExclusion == LockSpec => []Lock!Exclusion
<1>1. ASSUME LockInv PROVE Lock!Exclusion
  <2> SUFFICES ASSUME NEW t \in Threads, NEW u \in Threads, t # u,
                      Lock!Inside(t), Lock!Inside(u)
               PROVE  process[t] # process[u] /\ held[t] # held[u]
    BY DEF Lock!Exclusion
  <2>1. held[t] > 0 /\ held[u] > 0
    BY <1>1 DEF LockInv, Counted, Lock!Inside
  <2>2. depth[t] > 0 /\ depth[u] > 0
    BY <1>1 DEF LockInv, Lock!TypeOK, Stage, Lock!Inside
  <2>3. rlock[process[t]] = t /\ rlock[process[u]] = u
    BY <1>1, <2>2 DEF LockInv, Counted
  <2> QED
    BY <1>1, <2>1, <2>3 DEF LockInv, OneHolder
<1> QED
  BY <1>1, LockAlways, PTL

\* While the lock file stays in place, one thread is inside at a time.
THEOREM LockMutualExclusion == LockSpec => []MutualExclusion
<1>1. ASSUME LockInv PROVE MutualExclusion
  <2> SUFFICES ASSUME removals = 0, NEW t \in Threads, NEW u \in Threads,
                      Lock!Inside(t), Lock!Inside(u)
               PROVE  t = u
    BY DEF Lock!MutualExclusion, MutualExclusion
  <2>1. held[t] > 0 /\ held[u] > 0 /\ held[t] <= 1 /\ held[u] <= 1
    BY <1>1 DEF LockInv, Counted, OneFile, Lock!Inside
  <2>2. held[t] = held[u]
    BY <1>1, <2>1 DEF LockInv, Lock!TypeOK
  <2> QED
    BY <1>1, <2>1, <2>2 DEF LockInv, OneHolder
<1> QED
  BY <1>1, LockAlways, PTL

\* No exit from file_lock, a timeout included, leaves anything locked.
THEOREM LockNothingLeaked == LockSpec => []NothingLeaked
<1>1. ASSUME LockInv PROVE NothingLeaked
  BY <1>1 DEF LockInv, Lock!TypeOK, Stage, Counted, Lock!NothingLeaked, NothingLeaked
<1> QED
  BY <1>1, LockAlways, PTL
=============================================================================
