------------------------- MODULE InputBatchProofs -------------------------
(***************************************************************************)
(* Merging keeps the last packet of every device and the order of all that *)
(* is more than a movement, whatever packets the clients send and however  *)
(* long the queue is. The reason is Passed: what the loop has gone past    *)
(* belongs to other devices, and still does after the packet it works on   *)
(* has been replaced by a merged one.                                      *)
(***************************************************************************)
EXTENDS InputBatch, Recursion, SequenceTheorems, TLAPS

\* The elements of two sequences in a row.
LEMMA ConcatIs ==
  ASSUME NEW S, NEW a \in Seq(S), NEW b \in Seq(S)
  PROVE  /\ a \o b \in Seq(S) /\ Len(a \o b) = Len(a) + Len(b)
         /\ \A j \in 1 .. Len(a) + Len(b) :
              (a \o b)[j] = IF j <= Len(a) THEN a[j] ELSE b[j - Len(a)]
  OBVIOUS

\* What Without does to a sequence.
LEMMA WithoutIs ==
  ASSUME NEW S, NEW s \in Seq(S), NEW k \in 1 .. Len(s)
  PROVE  /\ Without(s, k) \in Seq(S)
         /\ Len(Without(s, k)) = Len(s) - 1
         /\ \A j \in 1 .. Len(s) - 1 : Without(s, k)[j] = IF j < k THEN s[j] ELSE s[j + 1]
<1> DEFINE a == SubSeq(s, 1, k - 1)
           b == SubSeq(s, k + 1, Len(s))
<1>1. a \in Seq(S) /\ Len(a) = k - 1 /\ \A j \in 1 .. k - 1 : a[j] = s[j]
  OBVIOUS
<1>2. b \in Seq(S) /\ Len(b) = Len(s) - k /\ \A j \in 1 .. Len(s) - k : b[j] = s[k + j]
  OBVIOUS
<1> HIDE DEF a, b
<1>3. /\ a \o b \in Seq(S) /\ Len(a \o b) = Len(a) + Len(b)
      /\ \A j \in 1 .. Len(a) + Len(b) :
           (a \o b)[j] = IF j <= Len(a) THEN a[j] ELSE b[j - Len(a)]
  BY <1>1, <1>2, ConcatIs
<1>4. Len(a \o b) = Len(s) - 1
  BY <1>1, <1>2, <1>3
<1>5. \A j \in 1 .. Len(s) - 1 : (a \o b)[j] = IF j < k THEN s[j] ELSE s[j + 1]
  <2> SUFFICES ASSUME NEW j \in 1 .. Len(s) - 1
               PROVE  (a \o b)[j] = IF j < k THEN s[j] ELSE s[j + 1]
    OBVIOUS
  <2>1. CASE j < k
    BY <1>1, <1>2, <1>3, <2>1
  <2>2. CASE ~(j < k)
    <3>1. (a \o b)[j] = b[j - (k - 1)]
      BY <1>1, <1>2, <1>3, <2>2
    <3>2. j - (k - 1) \in 1 .. Len(s) - k /\ k + (j - (k - 1)) = j + 1
      BY <2>2
    <3>3. b[j - (k - 1)] = s[j + 1]
      BY <1>2, <3>2
    <3> QED
      BY <2>2, <3>1, <3>3
  <2> QED
    BY <2>1, <2>2
<1>6. Without(s, k) = a \o b
  BY DEF Without, a, b
<1> QED
  BY <1>3, <1>4, <1>5, <1>6

\* A packet in front of a queue.
LEMMA FrontIs ==
  ASSUME NEW S, NEW s \in Seq(S), NEW e
  PROVE  /\ Len(<<e>> \o s) = Len(s) + 1
         /\ (<<e>> \o s)[1] = e
         /\ \A k \in 1 .. Len(s) : (<<e>> \o s)[k + 1] = s[k]
         /\ DOMAIN (<<e>> \o s) = 1 .. Len(s) + 1
<1>1. <<e>> \in Seq(S \cup {e}) /\ s \in Seq(S \cup {e})
  OBVIOUS
<1> QED
  BY <1>1

\* Packets that are merged are of one device, and packets the loop passes are not.
LEMMA BatchedSameDevice ==
  ASSUME NEW p, NEW q, p.kind \in Kinds, Batch(p, q) = "batched"
  PROVE  Dev(p) = Dev(q) /\ p.kind = q.kind
<1>1. p.kind = q.kind
  BY DEF Batch
<1>2. CASE p.kind \in Relative
  BY <1>1, <1>2 DEF Dev, Relative
<1>3. CASE p.kind \in {"mouse_abs", "pen"}
  BY <1>1, <1>3 DEF Dev
<1>4. CASE p.kind = "controller"
  BY <1>1, <1>4 DEF Dev, Batch, BatchController, Relative
<1>5. CASE p.kind = "touch"
  BY <1>1, <1>5 DEF Dev, Batch, BatchTouch, Relative
<1>6. CASE p.kind = "controller_touch"
  BY <1>1, <1>6 DEF Dev, Batch, BatchControllerTouch, BatchTouch, Relative
<1>7. CASE p.kind = "motion"
  BY <1>1, <1>7 DEF Dev, Batch, BatchMotion, Relative
<1>8. CASE p.kind \in {"mouse_button", "key", "battery", "arrival"}
  BY <1>1, <1>8 DEF Batch, Relative
<1> QED
  BY <1>1, <1>2, <1>3, <1>4, <1>5, <1>6, <1>7, <1>8 DEF Kinds

\* What the loop goes past belongs to another device, and can be told apart by it.
LEMMA SkippedOtherDevice ==
  ASSUME NEW p, NEW q, p.kind \in Kinds, Batch(p, q) = "skip"
  PROVE  /\ Dev(p) # Dev(q) /\ p.kind \notin Relative
         /\ p.kind \in {"controller", "touch", "controller_touch", "motion"}
<1>1. p.kind = q.kind
  BY DEF Batch
<1>2. CASE p.kind \in Relative
  BY <1>1, <1>2 DEF Batch, Relative
<1>3. CASE p.kind \in {"mouse_abs", "pen"}
  BY <1>1, <1>3 DEF Batch, BatchAbs, BatchPen, Relative
<1>4. CASE p.kind = "controller"
  BY <1>1, <1>4 DEF Dev, Batch, BatchController, Relative
<1>5. CASE p.kind = "touch"
  BY <1>1, <1>5 DEF Dev, Batch, BatchTouch, Relative
<1>6. CASE p.kind = "controller_touch"
  BY <1>1, <1>6 DEF Dev, Batch, BatchControllerTouch, BatchTouch, Relative
<1>7. CASE p.kind = "motion"
  BY <1>1, <1>7 DEF Dev, Batch, BatchMotion, Relative
<1>8. CASE p.kind \in {"mouse_button", "key", "battery", "arrival"}
  BY <1>1, <1>8 DEF Batch, Relative
<1> QED
  BY <1>1, <1>2, <1>3, <1>4, <1>5, <1>6, <1>7, <1>8 DEF Kinds

\* What was passed before a merge is passed by the merged packet too.
LEMMA MergedPasses ==
  ASSUME NEW p, NEW q, NEW r, p.kind \in Kinds, Batch(p, q) = "batched", Batch(p, r) = "skip"
  PROVE  Batch(q, r) = "skip"
<1>1. p.kind = q.kind /\ p.kind = r.kind
  BY DEF Batch
<1>2. p.kind \in {"controller", "touch", "controller_touch", "motion"}
  BY SkippedOtherDevice
<1>4. CASE p.kind = "controller"
  BY <1>1, <1>4 DEF Batch, BatchController, Relative
<1>5. CASE p.kind = "touch"
  BY <1>1, <1>5 DEF Batch, BatchTouch, Relative
<1>6. CASE p.kind = "controller_touch"
  BY <1>1, <1>6 DEF Batch, BatchControllerTouch, BatchTouch, Relative
<1>7. CASE p.kind = "motion"
  BY <1>1, <1>7 DEF Batch, BatchMotion, Relative
<1> QED
  BY <1>2, <1>4, <1>5, <1>6, <1>7

\* The initial states satisfy the invariant.
LEMMA InitInv == Init => InputInv
<1> SUFFICES ASSUME Init PROVE InputInv
  OBVIOUS
<1> USE InputBatchAssumption DEF Init
<1>1. TypeOK
  BY DEF TypeOK
<1>2. NotStranded /\ Passed
  BY DEF NotStranded, Passed
<1> QED
  BY <1>1, <1>2 DEF InputInv

\* The control thread appends and pushes one task for each packet.
LEMMA ControlStep == InputInv /\ ControlThread => InputInv'
<1> SUFFICES ASSUME InputInv, ControlThread PROVE InputInv'
  OBVIOUS
<1> USE DEF InputInv
<1>1. ASSUME NEW p \in Packets, Receive(p) PROVE InputInv'
  <2> USE <1>1
  <2>1. /\ queue' \in Seq(client) /\ Len(queue') = Len(queue) + 1
    BY DEF Receive, TypeOK
  <2>2. TypeOK'
    BY <2>1 DEF Receive, TypeOK
  <2>3. NotStranded'
    BY <2>1 DEF Receive, NotStranded, TypeOK
  <2>4. Passed'
    BY DEF Receive, Passed
  <2> QED
    BY <2>2, <2>3, <2>4
<1>2. CASE Push
  <2>1. TypeOK'
    BY <1>2 DEF Push, TypeOK
  <2>2. NotStranded' /\ Passed'
    BY <1>2 DEF Push, NotStranded, Passed, TypeOK
  <2> QED
    BY <2>1, <2>2
<1> QED
  BY <1>1, <1>2 DEF ControlThread

\* The packet being merged is of a kind the code knows.
LEMMA EntryKind == InputInv /\ wpc # "idle" => entry.kind \in Kinds
<1> SUFFICES ASSUME InputInv, wpc # "idle" PROVE entry.kind \in Kinds
  OBVIOUS
<1>1. CASE entry.kind \in Relative
  BY <1>1 DEF Kinds
<1>2. CASE entry \in client
  BY <1>2, InputBatchAssumption DEF InputInv, TypeOK, Packets
<1> QED
  BY <1>1, <1>2 DEF InputInv, TypeOK

\* The merged packet is of the device of both, and is the later packet unless
\* amounts are summed.
LEMMA MergedIs ==
  ASSUME NEW p, NEW q, p.kind \in Kinds, Batch(p, q) = "batched"
  PROVE  /\ Dev(Merged(p, q)) = Dev(q) /\ Dev(p) = Dev(q)
         /\ p.kind \notin Relative => Merged(p, q) = q
         /\ p.kind \in Relative => Merged(p, q).kind = p.kind /\ Dev(q) = <<p.kind>>
<1>1. p.kind = q.kind /\ Dev(p) = Dev(q)
  BY BatchedSameDevice
<1>2. CASE p.kind \in Relative
  <2>1. Merged(p, q).kind = p.kind
    BY <1>2 DEF Merged
  <2>2. \A r : r.kind \in Relative => Dev(r) = <<r.kind>>
    BY DEF Dev, Relative
  <2> QED
    BY <1>1, <1>2, <2>1, <2>2
<1>3. CASE p.kind \notin Relative
  BY <1>1, <1>3 DEF Merged
<1> QED
  BY <1>2, <1>3

\* The pool thread takes at least one packet per task and passes only packets
\* of other devices.
LEMMA PoolStep == InputInv /\ PoolThread => InputInv'
<1> SUFFICES ASSUME InputInv, PoolThread PROVE InputInv'
  OBVIOUS
<1> USE DEF InputInv
<1>1. CASE Pop
  <2>1. CASE queue = << >>
    <3>1. TypeOK'
      BY <1>1, <2>1 DEF Pop, TypeOK
    <3>2. NotStranded' /\ Passed'
      BY <1>1, <2>1 DEF Pop, NotStranded, Passed, TypeOK
    <3> QED
      BY <3>1, <3>2
  <2>2. CASE queue # << >>
    <3>1. queue \in Seq(client) /\ Head(queue) \in client /\ queue' \in Seq(client)
          /\ Len(queue') = Len(queue) - 1 /\ Len(queue') \in Nat
      BY <1>1, <2>2 DEF Pop, TypeOK
    <3>2. TypeOK'
      BY <1>1, <2>2, <3>1 DEF Pop, TypeOK
    <3>3. NotStranded'
      BY <1>1, <2>2, <3>1 DEF Pop, NotStranded, TypeOK
    <3>4. Passed'
      BY <1>1, <2>2 DEF Pop, Passed
    <3> QED
      BY <3>2, <3>3, <3>4
  <2> QED
    BY <2>1, <2>2
<1>2. CASE BatchNext
  <2> USE <1>2
  <2>1. ASSUME i \in DOMAIN queue, Batch(entry, queue[i]) = "batched",
               entry' = Merged(entry, queue[i]), queue' = Without(queue, i), wpc' = wpc, i' = i
        PROVE  InputInv'
    <3> USE <2>1
    <3>1. queue \in Seq(client) /\ i \in 1 .. Len(queue) /\ wpc = "batch" /\ client' = client
      BY DEF TypeOK, BatchNext
    <3>2. /\ queue' \in Seq(client) /\ Len(queue') = Len(queue) - 1
          /\ \A j \in 1 .. Len(queue) - 1 : queue'[j] = IF j < i THEN queue[j] ELSE queue[j + 1]
      BY <3>1, WithoutIs
    <3>3. entry.kind \in Kinds
      BY <3>1, EntryKind
    <3>4. entry'.kind \in Relative \/ entry' \in client
      BY <3>1, <3>3, MergedIs
    <3>5. TypeOK'
      BY <3>1, <3>2, <3>4 DEF TypeOK, BatchNext
    <3>6. NotStranded'
      BY <3>1, <3>2 DEF NotStranded, BatchNext, TypeOK
    <3>7. Passed'
      <4> SUFFICES ASSUME NEW k \in 1 .. i - 1 PROVE Batch(entry', queue'[k]) = "skip"
        BY DEF Passed
      <4>1. Batch(entry, queue[k]) = "skip" /\ queue'[k] = queue[k]
        BY <3>1, <3>2 DEF Passed
      <4>2. entry' = queue[i]
        BY <3>3, <4>1, MergedIs, SkippedOtherDevice
      <4> QED
        BY <3>3, <4>1, <4>2, MergedPasses
    <3> QED
      BY <3>5, <3>6, <3>7
  <2>2. ASSUME i \in DOMAIN queue, Batch(entry, queue[i]) = "skip", i' = i + 1,
               UNCHANGED <<queue, wpc, entry>>
        PROVE  InputInv'
    <3>1. i \in 1 .. Len(queue)
      BY <2>2 DEF TypeOK
    <3>2. TypeOK'
      BY <2>2, <3>1 DEF TypeOK, BatchNext
    <3>3. NotStranded'
      BY <2>2 DEF NotStranded, BatchNext
    <3>4. Passed'
      BY <2>2, <3>1 DEF Passed, BatchNext
    <3> QED
      BY <3>2, <3>3, <3>4
  <2>3. ASSUME wpc' = "send", i' = 1, UNCHANGED <<queue, entry>> PROVE InputInv'
    <3>1. TypeOK'
      BY <2>3 DEF TypeOK, BatchNext
    <3>2. NotStranded' /\ Passed'
      BY <2>3 DEF NotStranded, BatchNext, Passed
    <3> QED
      BY <3>1, <3>2
  <2> QED
    BY <2>1, <2>2, <2>3 DEF BatchNext
<1>3. CASE Send
  <2>1. TypeOK'
    BY <1>3 DEF Send, TypeOK
  <2>2. NotStranded' /\ Passed'
    BY <1>3 DEF Send, NotStranded, Passed
  <2> QED
    BY <2>1, <2>2
<1> QED
  BY <1>1, <1>2, <1>3 DEF PoolThread

\* No step of the two threads breaks the invariant.
LEMMA NextInv == InputInv /\ [Next]_vars => InputInv'
<1>1. InputInv /\ UNCHANGED vars => InputInv'
  BY DEF InputInv, TypeOK, NotStranded, Passed, vars
<1> QED
  BY <1>1, ControlStep, PoolStep DEF Next

\* The invariant of the queue, the tasks and the loop holds always.
THEOREM InputInvariance == Spec => []InputInv
  BY InitInv, NextInv, PTL DEF Spec

\* Every queued packet has its task.
THEOREM NoneStranded == Spec => []NotStranded
<1>1. InputInv => NotStranded
  BY DEF InputInv
<1> QED
  BY <1>1, InputInvariance, PTL

\* A merge replaces the packet in front and takes one packet out of the queue:
\* the last packet of a device stays what it was.
LEMMA MergeKeepsLast ==
  ASSUME InputInv, NEW d \in Devices, d[1] \notin Relative, wpc = "batch", i \in DOMAIN queue,
         Batch(entry, queue[i]) = "batched", entry' = Merged(entry, queue[i]),
         queue' = Without(queue, i), wpc' = wpc, os' = os
  PROVE  LastOf(d)' = LastOf(d)
<1> DEFINE R == <<entry>> \o queue
           Q == <<entry'>> \o queue'
           n == Len(queue)
           of == {k \in 1 .. n + 1 : Dev(R[k]) = d}
           ofQ == {k \in 1 .. n : Dev(Q[k]) = d}
<1>1. queue \in Seq(client) /\ i \in 1 .. n /\ n \in Nat /\ entry.kind \in Kinds
  BY EntryKind DEF InputInv, TypeOK
<1>2. /\ queue' \in Seq(client) /\ Len(queue') = n - 1
      /\ \A j \in 1 .. n - 1 : queue'[j] = IF j < i THEN queue[j] ELSE queue[j + 1]
  BY <1>1, WithoutIs
<1>3. /\ DOMAIN R = 1 .. n + 1 /\ R[1] = entry /\ \A k \in 1 .. n : R[k + 1] = queue[k]
  BY <1>1, FrontIs
<1>4. /\ DOMAIN Q = 1 .. n /\ Q[1] = entry' /\ \A k \in 1 .. n - 1 : Q[k + 1] = queue'[k]
  <2>1. Len(queue') + 1 = n
    BY <1>1, <1>2
  <2> QED
    BY <1>1, <1>2, <2>1, FrontIs
<1>5. Remaining = R /\ Remaining' = Q
  BY DEF Remaining
<1>6. Dev(entry) = Dev(queue[i]) /\ Dev(entry') = Dev(queue[i])
  BY <1>1, MergedIs
<1>7. Dev(queue[i]) = d => entry' = queue[i]
  BY <1>1, MergedIs
<1>8. \A k \in 1 .. i - 1 : Dev(queue[k]) # Dev(queue[i])
  BY <1>1, <1>6, SkippedOtherDevice DEF InputInv, Passed
<1> HIDE DEF R, Q, n
<1>9. \A k \in 2 .. n + 1 : R[k] = queue[k - 1]
  <2> TAKE k \in 2 .. n + 1
  <2>1. k - 1 \in 1 .. n /\ (k - 1) + 1 = k
    BY <1>1
  <2> QED
    BY <1>3, <2>1
<1>10. \A k \in 2 .. n : Q[k] = IF k <= i THEN R[k] ELSE R[k + 1]
  <2> TAKE k \in 2 .. n
  <2>1. k - 1 \in 1 .. n - 1 /\ (k - 1) + 1 = k
    BY <1>1
  <2>2. Q[k] = IF k - 1 < i THEN queue[k - 1] ELSE queue[(k - 1) + 1]
    BY <1>2, <1>4, <2>1
  <2>3. R[k] = queue[k - 1] /\ R[k + 1] = queue[(k - 1) + 1]
    BY <1>1, <1>9, <2>1
  <2> QED
    BY <1>1, <2>2, <2>3
<1>11. R[i + 1] = queue[i] /\ i + 1 \in 2 .. n + 1
  BY <1>1, <1>3
<1>12. /\ Dev(R[1]) = Dev(R[i + 1]) /\ Dev(Q[1]) = Dev(R[i + 1])
       /\ Dev(R[i + 1]) = d => Q[1] = R[i + 1]
       /\ \A k \in 2 .. i : Dev(R[k]) # Dev(R[i + 1])
  <2>1. \A k \in 2 .. i : k - 1 \in 1 .. i - 1 /\ k \in 2 .. n + 1
    BY <1>1
  <2> QED
    BY <1>3, <1>4, <1>6, <1>7, <1>8, <1>9, <1>11, <2>1
<1>13. LastOf(d) = IF of = {} THEN {os[d]} ELSE {R[k] : k \in {k \in of : \A j \in of : j <= k}}
  BY <1>3, <1>5 DEF LastOf
<1>14. LastOf(d)' = IF ofQ = {} THEN {os[d]} ELSE {Q[k] : k \in {k \in ofQ : \A j \in ofQ : j <= k}}
  BY <1>4, <1>5 DEF LastOf
<1>15. CASE Dev(R[i + 1]) # d
  \* The merge is of another device: the packets of d only move up.
  <2>1. \A k \in of : /\ k \in 2 .. i => k \in ofQ /\ Q[k] = R[k]
                      /\ k \in i + 2 .. n + 1 => k - 1 \in ofQ /\ Q[k - 1] = R[k]
                      /\ k \in 2 .. i \/ k \in i + 2 .. n + 1
    BY <1>1, <1>10, <1>12, <1>15
  <2>2. \A k \in ofQ : /\ k \in 2 .. i => k \in of /\ Q[k] = R[k]
                       /\ k \in i + 1 .. n => k + 1 \in of /\ Q[k] = R[k + 1]
                       /\ k \in 2 .. i \/ k \in i + 1 .. n
    BY <1>1, <1>10, <1>12, <1>15
  <2> HIDE DEF of, ofQ
  <2>3. of \subseteq Int /\ ofQ \subseteq Int
    BY <1>1 DEF of, ofQ
  <2>a. \A k \in of : /\ k # i + 1
                      /\ IF k <= i THEN k \in ofQ /\ Q[k] = R[k]
                                  ELSE k - 1 \in ofQ /\ Q[k - 1] = R[k]
    <3> TAKE k \in of
    <3>1. CASE k \in 2 .. i
      BY <1>1, <2>1, <3>1
    <3>2. CASE k \in i + 2 .. n + 1
      <4>1. k - 1 \in ofQ /\ Q[k - 1] = R[k]
        BY <2>1, <3>2
      <4>2. k # i + 1 /\ ~(k <= i)
        BY <1>1, <3>2
      <4> QED
        BY <4>1, <4>2
    <3> QED
      BY <2>1, <3>1, <3>2
  <2>b. \A k \in ofQ : IF k <= i THEN k \in of /\ R[k] = Q[k]
                                  ELSE k + 1 \in of /\ R[k + 1] = Q[k]
    <3> TAKE k \in ofQ
    <3>1. CASE k \in 2 .. i
      BY <1>1, <2>2, <3>1
    <3>2. CASE k \in i + 1 .. n
      <4>1. k + 1 \in of /\ R[k + 1] = Q[k]
        BY <2>2, <3>2
      <4>2. ~(k <= i)
        BY <1>1, <3>2
      <4> QED
        BY <4>1, <4>2
    <3> QED
      BY <2>2, <3>1, <3>2
  <2>c. i \in Int
    BY <1>1
  <2>4. of = {} <=> ofQ = {}
    BY <2>a, <2>b
  <2>5. ASSUME NEW k \in of, \A j \in of : j <= k
        PROVE  \E m \in ofQ : Q[m] = R[k] /\ \A j \in ofQ : j <= m
    <3> DEFINE m == IF k <= i THEN k ELSE k - 1
    <3>1. m \in ofQ /\ Q[m] = R[k]
      BY <2>a
    <3>2. ASSUME NEW j \in ofQ PROVE j <= m
      <4>1. IF j <= i THEN j <= k ELSE j + 1 <= k
        BY <2>5, <2>b
      <4> QED
        BY <4>1, <2>a, <2>c, <2>3
    <3> QED
      BY <3>1, <3>2
  <2>6. ASSUME NEW k \in ofQ, \A j \in ofQ : j <= k
        PROVE  \E m \in of : R[m] = Q[k] /\ \A j \in of : j <= m
    <3> DEFINE m == IF k <= i THEN k ELSE k + 1
    <3>1. m \in of /\ R[m] = Q[k]
      BY <2>b
    <3>2. ASSUME NEW j \in of PROVE j <= m
      <4>1. IF j <= i THEN j <= k ELSE j - 1 <= k
        BY <2>6, <2>a
      <4> QED
        BY <4>1, <2>a, <2>c, <2>3
    <3> QED
      BY <3>1, <3>2
  <2>7. {R[k] : k \in {k \in of : \A j \in of : j <= k}} = {Q[k] : k \in {k \in ofQ : \A j \in ofQ : j <= k}}
    BY <2>5, <2>6
  <2> QED
    BY <1>13, <1>14, <2>4, <2>7
<1>16. CASE Dev(R[i + 1]) = d
  \* The merged packet takes the place of the one it was merged with.
  <2>1. 1 \in of /\ i + 1 \in of /\ 1 \in ofQ /\ Q[1] = R[i + 1]
    BY <1>1, <1>12, <1>16
  <2>2. \A k \in of : k = 1 \/ k = i + 1 \/ (k \in i + 2 .. n + 1 /\ k - 1 \in ofQ /\ Q[k - 1] = R[k])
    BY <1>1, <1>10, <1>12, <1>16
  <2>3. \A k \in ofQ : k = 1 \/ (k \in i + 1 .. n /\ k + 1 \in of /\ Q[k] = R[k + 1])
    BY <1>1, <1>10, <1>12, <1>16
  <2> HIDE DEF of, ofQ
  <2>4. of \subseteq Int /\ ofQ \subseteq Int
    BY <1>1 DEF of, ofQ
  <2>5. ASSUME NEW k \in of, \A j \in of : j <= k
        PROVE  \E m \in ofQ : Q[m] = R[k] /\ \A j \in ofQ : j <= m
    BY <1>1, <2>1, <2>2, <2>3, <2>4, <2>5
  <2>6. ASSUME NEW k \in ofQ, \A j \in ofQ : j <= k
        PROVE  \E m \in of : R[m] = Q[k] /\ \A j \in of : j <= m
    BY <1>1, <2>1, <2>2, <2>3, <2>4, <2>6
  <2>7. {R[k] : k \in {k \in of : \A j \in of : j <= k}} = {Q[k] : k \in {k \in ofQ : \A j \in ofQ : j <= k}}
    BY <2>5, <2>6
  <2> QED
    BY <1>13, <1>14, <2>1, <2>7
<1> QED
  BY <1>15, <1>16

\* Merging never drops the last packet of a device, whatever lies in between.
THEOREM LastPacketKept == Spec => FinalKept
<1> DEFINE Kept == \A d \in Devices : d[1] \notin Relative /\ Len(queue') <= Len(queue)
                     => LastOf(d)' = LastOf(d)
<1>1. InputInv /\ InputInv' /\ [Next]_vars => [Kept]_vars
  <2> SUFFICES ASSUME InputInv, InputInv', Next, NEW d \in Devices, d[1] \notin Relative,
                      Len(queue') <= Len(queue)
               PROVE  LastOf(d)' = LastOf(d)
    BY DEF vars
  <2>1. queue \in Seq(client) /\ DOMAIN os = Devices
    BY DEF InputInv, TypeOK
  <2>2. ASSUME Remaining' = Remaining, os' = os PROVE LastOf(d)' = LastOf(d)
    BY <2>2 DEF LastOf
  <2>3. ASSUME NEW p \in Packets, Receive(p) PROVE FALSE
    BY <2>1, <2>3 DEF Receive
  <2>4. CASE Push
    BY <2>2, <2>4 DEF Push, Remaining
  <2>5. CASE Pop
    <3>1. CASE queue = << >>
      BY <2>2, <2>5, <3>1 DEF Pop, Remaining
    <3>2. CASE queue # << >>
      <4>1. Remaining = << >> \o queue /\ Remaining' = <<Head(queue)>> \o Tail(queue)
        BY <2>5, <3>2 DEF Pop, Remaining
      <4>2. << >> \o queue = queue /\ <<Head(queue)>> \o Tail(queue) = queue
        BY <2>1, <3>2
      <4> QED
        BY <2>2, <2>5, <4>1, <4>2 DEF Pop
    <3> QED
      BY <3>1, <3>2
  <2>6. CASE BatchNext
    <3>1. ASSUME queue' = queue, entry' = entry, wpc' \in {"batch", "send"} PROVE LastOf(d)' = LastOf(d)
      BY <2>2, <2>6, <3>1 DEF BatchNext, Remaining
    <3>2. ASSUME i \in DOMAIN queue, Batch(entry, queue[i]) = "batched",
                 entry' = Merged(entry, queue[i]), queue' = Without(queue, i), wpc' = wpc
          PROVE  LastOf(d)' = LastOf(d)
      BY <2>6, <3>2, MergeKeepsLast DEF BatchNext
    <3> QED
      BY <2>6, <3>1, <3>2 DEF BatchNext
  <2>7. CASE Send
    <3> DEFINE R == <<entry>> \o queue
               n == Len(queue)
    <3>1. /\ n \in Nat /\ DOMAIN R = 1 .. n + 1 /\ R[1] = entry
          /\ \A k \in 1 .. n : R[k + 1] = queue[k]
      BY <2>1, FrontIs
    <3>2. Remaining = R
      BY <2>7 DEF Send, Remaining
    <3>3. Remaining' = queue
      BY <2>1, <2>7 DEF Send, Remaining
    <3>4. os' = [os EXCEPT ![Dev(entry)] = entry]
      BY <2>7 DEF Send
    <3> DEFINE of == {k \in 1 .. n + 1 : Dev(R[k]) = d}
               ofQ == {k \in 1 .. n : Dev(queue[k]) = d}
    <3>5. LastOf(d) = IF of = {} THEN {os[d]} ELSE {R[k] : k \in {k \in of : \A j \in of : j <= k}}
      BY <3>1, <3>2 DEF LastOf
    <3>6. LastOf(d)' = IF ofQ = {} THEN {os'[d]} ELSE {queue[k] : k \in {k \in ofQ : \A j \in ofQ : j <= k}}
      <4>1. DOMAIN queue = 1 .. n
        BY <2>1
      <4> QED
        BY <3>3, <4>1 DEF LastOf
    <3> HIDE DEF R, n
    <3>7. \A k \in of : k = 1 \/ (k - 1 \in ofQ /\ R[k] = queue[k - 1])
      <4> SUFFICES ASSUME NEW k \in of, k # 1 PROVE k - 1 \in ofQ /\ R[k] = queue[k - 1]
        OBVIOUS
      <4>1. k - 1 \in 1 .. n /\ (k - 1) + 1 = k
        BY <3>1
      <4> QED
        BY <3>1, <4>1
    <3>8. \A k \in ofQ : k + 1 \in of /\ R[k + 1] = queue[k]
      BY <3>1
    <3>9. 1 \in of <=> Dev(entry) = d
      BY <3>1
    <3>10. of \subseteq Nat \ {0} /\ ofQ \subseteq Nat \ {0}
      BY <3>1
    <3> HIDE DEF of, ofQ
    <3>11. CASE ofQ = {}
      <4>1. os'[d] = IF Dev(entry) = d THEN entry ELSE os[d]
        BY <2>1, <3>4
      <4>2. of = IF Dev(entry) = d THEN {1} ELSE {}
        BY <3>7, <3>9, <3>11
      <4>3. Dev(entry) = d => {R[k] : k \in {k \in of : \A j \in of : j <= k}} = {entry}
        <5>1. Dev(entry) = d => {k \in of : \A j \in of : j <= k} = {1}
          BY <4>2
        <5> QED
          BY <3>1, <5>1
      <4>4. LastOf(d) = IF Dev(entry) = d THEN {entry} ELSE {os[d]}
        BY <3>5, <4>2, <4>3
      <4>5. LastOf(d)' = {os'[d]}
        BY <3>6, <3>11
      <4> QED
        BY <4>1, <4>4, <4>5, Zenon
    <3>12. CASE ofQ # {}
      <4>1. of # {} /\ \E k \in of : k > 1
        <5>1. PICK k0 \in ofQ : TRUE
          BY <3>12
        <5>2. k0 + 1 \in of /\ k0 + 1 > 1
          BY <3>8, <3>10, <5>1
        <5> QED
          BY <5>2
      <4>2. ASSUME NEW k \in of, \A j \in of : j <= k
            PROVE  \E m \in ofQ : queue[m] = R[k] /\ \A j \in ofQ : j <= m
        <5>1. k # 1 /\ k \in Nat
          BY <3>10, <4>1, <4>2
        <5>2. k - 1 \in ofQ /\ R[k] = queue[k - 1]
          BY <3>7, <5>1
        <5>3. \A j \in ofQ : j <= k - 1
          BY <3>8, <3>10, <4>2, <5>1
        <5> QED
          BY <5>2, <5>3
      <4>3. ASSUME NEW k \in ofQ, \A j \in ofQ : j <= k
            PROVE  \E m \in of : R[m] = queue[k] /\ \A j \in of : j <= m
        <5>1. k + 1 \in of /\ R[k + 1] = queue[k]
          BY <3>8
        <5>2. ASSUME NEW j \in of PROVE j <= k + 1
          <6>1. j = 1 \/ j - 1 <= k
            BY <3>7, <4>3
          <6> QED
            BY <3>10, <6>1
        <5> QED
          BY <5>1, <5>2
      <4>4. {R[k] : k \in {k \in of : \A j \in of : j <= k}}
              = {queue[k] : k \in {k \in ofQ : \A j \in ofQ : j <= k}}
        BY <4>2, <4>3
      <4> QED
        BY <3>5, <3>6, <3>12, <4>1, <4>4
    <3> QED
      BY <3>11, <3>12
  <2> QED
    BY <2>3, <2>4, <2>5, <2>6, <2>7 DEF Next, ControlThread, PoolThread
<1> QED
  BY <1>1, InputInvariance, PTL DEF Spec, FinalKept

(***************************************************************************)
(* Marked                                                                  *)
(***************************************************************************)

\* The function by which Marked is defined: what the first k elements give.
Upto(s, marks) ==
  CHOOSE M : M = [k \in 0 .. Len(s) |->
    IF k = 0 THEN << >>
    ELSE IF k \in marks THEN Append(M[k - 1], s[k]) ELSE M[k - 1]]

\* It exists, so the CHOOSE is such a function.
LEMMA UptoIs ==
  ASSUME NEW s, Len(s) \in Nat, NEW marks
  PROVE  /\ Marked(s, marks) = Upto(s, marks)[Len(s)]
         /\ Upto(s, marks)[0] = << >>
         /\ \A k \in 1 .. Len(s) :
              Upto(s, marks)[k] = IF k \in marks THEN Append(Upto(s, marks)[k - 1], s[k])
                                  ELSE Upto(s, marks)[k - 1]
<1> DEFINE n == Len(s)
           T == {s[k] : k \in 1 .. n}
           V == [k \in Nat |-> Seq(T)]
           step == [k \in 1 .. n |-> [v \in Seq(T) |-> IF k \in marks THEN Append(v, s[k]) ELSE v]]
           Body(M) == [k \in 0 .. n |-> IF k = 0 THEN << >>
             ELSE IF k \in marks THEN Append(M[k - 1], s[k]) ELSE M[k - 1]]
<1>1. n \in Nat /\ << >> \in Seq(T) /\ \A k \in 1 .. n : s[k] \in T
  OBVIOUS
<1>2. \A k \in Nat : V[k] = Seq(T)
  OBVIOUS
<1>3. \A k \in 1 .. n : step[k] \in [V[k - 1] -> V[k]]
  <2> TAKE k \in 1 .. n
  <2>1. V[k - 1] = Seq(T) /\ V[k] = Seq(T)
    <3> HIDE DEF V, T
    <3> QED
      BY <1>1, <1>2
  <2>2. \A v \in Seq(T) : (IF k \in marks THEN Append(v, s[k]) ELSE v) \in Seq(T)
    BY <1>1
  <2> HIDE DEF V, T
  <2> QED
    BY <2>1, <2>2
<1>4. PICK f : Recursive(f, n, << >>, step) /\ \A k \in 0 .. n : f[k] \in V[k]
  <2>1. << >> \in V[0]
    <3> HIDE DEF V, T
    <3> QED
      BY <1>1, <1>2
  <2> HIDE DEF step, V, n
  <2> QED
    BY <1>1, <1>3, <2>1, RecursionExists
<1>5. \A k \in 1 .. n : f[k] = step[k][f[k - 1]]
  BY <1>4, Zenon DEF Recursive
<1>6. \A k \in 0 .. n : f[k] = IF k = 0 THEN << >>
             ELSE IF k \in marks THEN Append(f[k - 1], s[k]) ELSE f[k - 1]
  <2> TAKE k \in 0 .. n
  <2>1. CASE k = 0
    BY <1>4, <2>1 DEF Recursive
  <2>2. CASE k # 0
    <3>1. k \in 1 .. n /\ k - 1 \in 0 .. n /\ k - 1 \in Nat
      BY <1>1, <2>2
    <3>2. f[k - 1] \in Seq(T)
      <4> HIDE DEF V, T
      <4> QED
        BY <1>2, <1>4, <3>1
    <3> HIDE DEF T
    <3>3. step[k][f[k - 1]] = IF k \in marks THEN Append(f[k - 1], s[k]) ELSE f[k - 1]
      BY <3>1, <3>2
    <3> HIDE DEF step, n
    <3> QED
      BY <1>5, <2>2, <3>1, <3>3
  <2> QED
    BY <2>1, <2>2
<1>7. f = Body(f)
  <2> HIDE DEF n, step
  <2>1. f = [k \in 0 .. n |-> f[k]]
    BY <1>4, Zenon DEF Recursive
  <2> QED
    BY <1>6, <2>1, Zenon
<1>8. Upto(s, marks) = Body(Upto(s, marks))
  BY <1>7, Zenon DEF Upto
<1> DEFINE u == Upto(s, marks)
<1>9. Marked(s, marks) = u[n]
  BY Zenon DEF Marked, Upto
<1>10. \A k \in 0 .. n : u[k] = IF k = 0 THEN << >>
             ELSE IF k \in marks THEN Append(u[k - 1], s[k]) ELSE u[k - 1]
  <2> HIDE DEF n, u
  <2>1. u = Body(u)
    BY <1>8 DEF u
  <2> QED
    BY <2>1, Zenon
<1>11. u[0] = << >>
  <2> HIDE DEF u
  <2> QED
  BY <1>1, <1>10
<1>12. ASSUME NEW k \in 1 .. n
       PROVE u[k] = IF k \in marks THEN Append(u[k - 1], s[k]) ELSE u[k - 1]
  <2>1. k \in 0 .. n /\ k # 0
    BY <1>1
  <2> HIDE DEF n, u
  <2> QED
    BY <1>10, <2>1
<1> HIDE DEF u
<1> QED
  BY <1>9, <1>11, <1>12 DEF u

\* One element more.
LEMMA UptoStep ==
  ASSUME NEW s, Len(s) \in Nat, NEW marks, NEW k \in Nat, k + 1 \in 1 .. Len(s)
  PROVE  Upto(s, marks)[k + 1] =
           IF k + 1 \in marks THEN Append(Upto(s, marks)[k], s[k + 1]) ELSE Upto(s, marks)[k]
<1>1. \A m \in 1 .. Len(s) : Upto(s, marks)[m] =
        IF m \in marks THEN Append(Upto(s, marks)[m - 1], s[m]) ELSE Upto(s, marks)[m - 1]
  BY UptoIs
<1>2. (k + 1) - 1 = k
  OBVIOUS
<1> QED
  BY <1>1, <1>2

\* It gives sequences of the elements of s.
LEMMA UptoSeq ==
  ASSUME NEW T, NEW s \in Seq(T), NEW marks
  PROVE  \A k \in 0 .. Len(s) : Upto(s, marks)[k] \in Seq(T)
<1> DEFINE u == Upto(s, marks)
           S == {k \in Nat : k \in 0 .. Len(s) => u[k] \in Seq(T)}
<1>1. Len(s) \in Nat
  OBVIOUS
<1>2. u[0] = << >>
  BY <1>1, UptoIs
<1>3. 0 \in S
  <2>1. << >> \in Seq(T)
    OBVIOUS
  <2> HIDE DEF u
  <2> QED
    BY <1>2, <2>1
<1>4. ASSUME NEW k \in Nat, k \in S PROVE k + 1 \in S
  <2> SUFFICES ASSUME k + 1 \in 0 .. Len(s) PROVE u[k + 1] \in Seq(T)
    OBVIOUS
  <2>1. k \in 0 .. Len(s) /\ k + 1 \in 1 .. Len(s)
    BY <1>1
  <2>2. u[k] \in Seq(T) /\ s[k + 1] \in T
    BY <1>4, <2>1
  <2>3. u[k + 1] = IF k + 1 \in marks THEN Append(u[k], s[k + 1]) ELSE u[k]
    BY <1>1, <2>1, UptoStep
  <2> HIDE DEF u
  <2> QED
    BY <2>2, <2>3
<1> HIDE DEF S, u
<1>5. Nat \subseteq S
  BY <1>3, <1>4, SetInduction
<1> QED
  BY <1>1, <1>5 DEF S, u

\* Sequences that begin alike, marked alike, give the same.
LEMMA SameUpto ==
  ASSUME NEW a, NEW b, Len(a) \in Nat, Len(b) \in Nat, NEW ma, NEW mb, NEW n \in Nat,
         n <= Len(a), n <= Len(b),
         \A k \in 1 .. n : a[k] = b[k] /\ (k \in ma <=> k \in mb)
  PROVE  \A k \in 0 .. n : Upto(a, ma)[k] = Upto(b, mb)[k]
<1> DEFINE S == {k \in Nat : k \in 0 .. n => Upto(a, ma)[k] = Upto(b, mb)[k]}
<1>1. Len(a) \in Nat /\ Len(b) \in Nat
  OBVIOUS
<1>2. 0 \in S
  BY <1>1, UptoIs
<1>3. ASSUME NEW k \in Nat, k \in S PROVE k + 1 \in S
  <2> SUFFICES ASSUME k + 1 \in 0 .. n PROVE Upto(a, ma)[k + 1] = Upto(b, mb)[k + 1]
    OBVIOUS
  <2>1. /\ k \in 0 .. n /\ k + 1 \in 1 .. n /\ k + 1 \in 1 .. Len(a) /\ k + 1 \in 1 .. Len(b)
        /\ (k + 1) - 1 = k
    BY <1>1
  <2>2. Upto(a, ma)[k] = Upto(b, mb)[k]
    BY <1>3, <2>1
  <2>3. Upto(a, ma)[k + 1] = IF k + 1 \in ma THEN Append(Upto(a, ma)[k], a[k + 1]) ELSE Upto(a, ma)[k]
    BY <1>1, <2>1, UptoStep
  <2>4. Upto(b, mb)[k + 1] = IF k + 1 \in mb THEN Append(Upto(b, mb)[k], b[k + 1]) ELSE Upto(b, mb)[k]
    BY <1>1, <2>1, UptoStep
  <2>5. a[k + 1] = b[k + 1] /\ (k + 1 \in ma <=> k + 1 \in mb)
    BY <2>1
  <2> QED
    BY <2>2, <2>3, <2>4, <2>5, Zenon
<1> HIDE DEF S
<1>4. Nat \subseteq S
  BY <1>2, <1>3, SetInduction
<1> QED
  BY <1>4 DEF S

\* One more element, at the end.
LEMMA MarkedAppend ==
  ASSUME NEW a, NEW b, Len(a) \in Nat, NEW ma, NEW mb, Len(b) = Len(a) + 1,
         \A k \in 1 .. Len(a) : a[k] = b[k] /\ (k \in ma <=> k \in mb)
  PROVE  \/ Marked(b, mb) = Marked(a, ma)
         \/ Marked(b, mb) = Append(Marked(a, ma), b[Len(b)])
<1> DEFINE n == Len(a)
<1>1. n \in Nat /\ n <= Len(b) /\ n \in 0 .. n /\ n + 1 \in 1 .. Len(b) /\ (n + 1) - 1 = n
  OBVIOUS
<1>2. Upto(a, ma)[n] = Upto(b, mb)[n]
  <2> HIDE DEF n
  <2>1. \A k \in 0 .. n : Upto(a, ma)[k] = Upto(b, mb)[k]
    BY <1>1, SameUpto DEF n
  <2> QED
    BY <1>1, <2>1
<1>3. Upto(b, mb)[n + 1] = IF n + 1 \in mb THEN Append(Upto(b, mb)[n], b[n + 1]) ELSE Upto(b, mb)[n]
  BY <1>1, UptoStep
<1>4. Marked(a, ma) = Upto(a, ma)[n] /\ Marked(b, mb) = Upto(b, mb)[n + 1]
  BY <1>1, UptoIs
<1> QED
  BY <1>2, <1>3, <1>4

\* b is a without its element j, marked alike.
Drops(a, ma, b, mb, j) ==
  /\ j \in 1 .. Len(a) /\ Len(b) = Len(a) - 1
  /\ \A k \in 1 .. j - 1 : a[k] = b[k] /\ (k \in ma <=> k \in mb)
  /\ \A k \in j .. Len(b) : a[k + 1] = b[k] /\ (k + 1 \in ma <=> k \in mb)

\* An element less, that was not marked.
LEMMA MarkedWithout ==
  ASSUME NEW a, NEW b, Len(a) \in Nat, NEW ma, NEW mb, NEW j,
         Drops(a, ma, b, mb, j), j \notin ma
  PROVE  Marked(b, mb) = Marked(a, ma)
<1> DEFINE S == {k \in Nat : k \in j - 1 .. Len(b) => Upto(a, ma)[k + 1] = Upto(b, mb)[k]}
<1>1. /\ Len(a) \in Nat /\ Len(b) \in Nat /\ j \in Nat /\ j - 1 \in Nat /\ j - 1 <= Len(b)
      /\ j - 1 <= Len(a) /\ j - 1 \in 0 .. j - 1 /\ j - 1 \in 0 .. Len(b) /\ Len(b) \in j - 1 .. Len(b)
      /\ Len(b) + 1 = Len(a) /\ j \in 1 .. Len(a)
  BY DEF Drops
<1>2. Upto(a, ma)[j] = Upto(b, mb)[j - 1]
  <2>0. \A k \in 1 .. j - 1 : a[k] = b[k] /\ (k \in ma <=> k \in mb)
    BY DEF Drops
  <2>1. \A k \in 0 .. j - 1 : Upto(a, ma)[k] = Upto(b, mb)[k]
    BY <1>1, <2>0, SameUpto
  <2>2. Upto(a, ma)[j] = Upto(a, ma)[j - 1]
    BY <1>1, UptoIs
  <2> QED
    BY <1>1, <2>1, <2>2
<1>3. 0 \in S
  <2> SUFFICES ASSUME 0 \in j - 1 .. Len(b) PROVE Upto(a, ma)[0 + 1] = Upto(b, mb)[0]
    OBVIOUS
  <2>1. j = 1
    BY <1>1
  <2> QED
    BY <1>2, <2>1
<1>4. ASSUME NEW k \in Nat, k \in S PROVE k + 1 \in S
  <2> SUFFICES ASSUME k + 1 \in j - 1 .. Len(b) PROVE Upto(a, ma)[(k + 1) + 1] = Upto(b, mb)[k + 1]
    OBVIOUS
  <2>1. CASE k + 1 = j - 1
    <3>1. (k + 1) + 1 = j
      BY <1>1, <2>1
    <3> QED
      BY <1>2, <2>1, <3>1
  <2>2. CASE k + 1 # j - 1
    <3>1. /\ k \in j - 1 .. Len(b) /\ k + 1 \in j .. Len(b) /\ (k + 1) + 1 \in 1 .. Len(a)
          /\ k + 1 \in 1 .. Len(b) /\ (k + 1) - 1 = k /\ ((k + 1) + 1) - 1 = k + 1
      BY <1>1, <2>2
    <3>2. Upto(a, ma)[k + 1] = Upto(b, mb)[k]
      BY <1>4, <3>1
    <3>3. Upto(a, ma)[(k + 1) + 1] = IF (k + 1) + 1 \in ma
            THEN Append(Upto(a, ma)[k + 1], a[(k + 1) + 1]) ELSE Upto(a, ma)[k + 1]
      BY <1>1, <3>1, UptoStep
    <3>4. Upto(b, mb)[k + 1] = IF k + 1 \in mb
            THEN Append(Upto(b, mb)[k], b[k + 1]) ELSE Upto(b, mb)[k]
      BY <1>1, <3>1, UptoStep
    <3>5. a[(k + 1) + 1] = b[k + 1] /\ ((k + 1) + 1 \in ma <=> k + 1 \in mb)
      BY <3>1 DEF Drops
    <3> QED
      BY <3>2, <3>3, <3>4, <3>5, Zenon
  <2> QED
    BY <2>1, <2>2
<1> HIDE DEF S
<1>5. Len(b) \in S
  <2>1. Nat \subseteq S
    BY <1>3, <1>4, SetInduction
  <2> QED
    BY <1>1, <2>1
<1>6. Upto(a, ma)[Len(b) + 1] = Upto(b, mb)[Len(b)]
  BY <1>1, <1>5 DEF S
<1>7. Marked(a, ma) = Upto(a, ma)[Len(a)] /\ Marked(b, mb) = Upto(b, mb)[Len(b)]
  BY <1>1, UptoIs
<1> QED
  BY <1>1, <1>6, <1>7

\* The first element less, that was marked.
IsTail(next, now) == now # << >> /\ next = Tail(now)

\* Without its first element, a sequence has lost what that one gave, if it was marked.
LEMMA MarkedTail ==
  ASSUME NEW T, NEW a \in Seq(T), NEW b \in Seq(T), NEW ma, NEW mb,
         Drops(a, ma, b, mb, 1), 1 \in ma
  PROVE  IsTail(Marked(b, mb), Marked(a, ma))
<1>a. /\ 1 \in 1 .. Len(a) /\ Len(b) = Len(a) - 1
      /\ \A k \in 1 .. Len(b) : a[k + 1] = b[k] /\ (k + 1 \in ma <=> k \in mb)
  BY DEF Drops
<1> DEFINE Is(k) == Upto(a, ma)[k + 1] # << >> /\ Tail(Upto(a, ma)[k + 1]) = Upto(b, mb)[k]
           S == {k \in Nat : k \in 0 .. Len(b) => Is(k)}
<1>1. /\ Len(a) \in Nat /\ Len(b) \in Nat /\ Len(b) \in 0 .. Len(b) /\ Len(b) + 1 = Len(a)
      /\ 1 \in 1 .. Len(a) /\ a[1] \in T
  BY <1>a
<1>2. Is(0)
  <2>1. Upto(a, ma)[1] = Append(Upto(a, ma)[1 - 1], a[1]) /\ Upto(a, ma)[0] = << >>
    <3>1. \A k \in 1 .. Len(a) : Upto(a, ma)[k] =
            IF k \in ma THEN Append(Upto(a, ma)[k - 1], a[k]) ELSE Upto(a, ma)[k - 1]
      BY <1>1, UptoIs
    <3>2. Upto(a, ma)[0] = << >>
      BY <1>1, UptoIs
    <3>3. Upto(a, ma)[1] = IF 1 \in ma THEN Append(Upto(a, ma)[1 - 1], a[1]) ELSE Upto(a, ma)[1 - 1]
      BY <1>1, <3>1, Zenon
    <3> QED
      BY <3>2, <3>3, Zenon
  <2>2. Upto(b, mb)[0] = << >>
    BY <1>1, UptoIs
  <2>3. Append(<< >>, a[1]) = <<a[1]>> /\ Tail(<<a[1]>>) = << >> /\ <<a[1]>> # << >>
    OBVIOUS
  <2>4. 0 + 1 = 1 /\ 1 - 1 = 0
    OBVIOUS
  <2> QED
    BY <2>1, <2>2, <2>3, <2>4, Zenon
<1>3. ASSUME NEW k \in Nat, k + 1 \in 0 .. Len(b), Is(k) PROVE Is(k + 1)
  <2>1. /\ k \in 0 .. Len(b) /\ k + 1 \in 1 .. Len(b) /\ (k + 1) + 1 \in 1 .. Len(a)
        /\ (k + 1) - 1 = k /\ ((k + 1) + 1) - 1 = k + 1 /\ k + 1 \in 0 .. Len(a)
        /\ k \in 0 .. Len(b)
    BY <1>1, <1>3
  <2>3. Upto(a, ma)[(k + 1) + 1] = IF (k + 1) + 1 \in ma
          THEN Append(Upto(a, ma)[k + 1], a[(k + 1) + 1]) ELSE Upto(a, ma)[k + 1]
    BY <1>1, <2>1, UptoStep
  <2>4. Upto(b, mb)[k + 1] = IF k + 1 \in mb THEN Append(Upto(b, mb)[k], b[k + 1]) ELSE Upto(b, mb)[k]
    BY <1>1, <2>1, UptoStep
  <2>5. a[(k + 1) + 1] = b[k + 1] /\ ((k + 1) + 1 \in ma <=> k + 1 \in mb) /\ b[k + 1] \in T
    BY <1>a, <2>1
  <2>6. Upto(a, ma)[k + 1] \in Seq(T)
    BY <2>1, UptoSeq
  <2>7. Upto(a, ma)[k + 1] # << >> /\ Tail(Upto(a, ma)[k + 1]) = Upto(b, mb)[k]
    BY <1>3
  <2>8. CASE k + 1 \in mb
    <3>1. /\ Upto(a, ma)[(k + 1) + 1] = Append(Upto(a, ma)[k + 1], b[k + 1])
          /\ Upto(b, mb)[k + 1] = Append(Upto(b, mb)[k], b[k + 1])
      BY <2>3, <2>4, <2>5, <2>8, Zenon
    <3> DEFINE v == Upto(a, ma)[k + 1]
               x == b[k + 1]
    <3> HIDE DEF v, x
    <3>2. v \in Seq(T) /\ x \in T /\ v # << >>
      BY <2>5, <2>6, <2>7 DEF v, x
    <3>3. Append(v, x) # << >> /\ Tail(Append(v, x)) = Append(Tail(v), x)
      BY <3>2, AppendProperties, HeadTailAppend
    <3> QED
      BY <2>7, <3>1, <3>3 DEF v, x
  <2>9. CASE k + 1 \notin mb
    BY <2>3, <2>4, <2>5, <2>7, <2>9, Zenon
  <2> QED
    BY <2>8, <2>9
<1>4. Is(Len(b))
  <2> HIDE DEF Is
  <2>1. 0 \in S
    BY <1>2
  <2>2. ASSUME NEW k \in Nat, k \in S PROVE k + 1 \in S
    <3>1. k + 1 \in 0 .. Len(b) => k \in 0 .. Len(b)
      BY <1>1
    <3> QED
      BY <1>3, <2>2, <3>1
  <2> HIDE DEF S
  <2>3. Nat \subseteq S
    BY <2>1, <2>2, SetInduction
  <2> QED
    BY <1>1, <2>3 DEF S
<1>5. Marked(a, ma) = Upto(a, ma)[Len(a)] /\ Marked(b, mb) = Upto(b, mb)[Len(b)]
  BY <1>1, UptoIs
<1> QED
  BY <1>1, <1>4, <1>5 DEF IsTail

(***************************************************************************)
(* What a merge does to states, runs and changes.                          *)
(***************************************************************************)
\* Packets that are merged put the device in the same state.
LEMMA BatchedState ==
  ASSUME NEW p, NEW q, p.kind \in Kinds, Batch(p, q) = "batched"
  PROVE  StateOf(p) = StateOf(q) /\ Run(p) = Run(q) /\ ~Discrete(p) /\ ~Discrete(q)
<1>1. p.kind = q.kind
  BY DEF Batch
<1>2. CASE p.kind \in Relative
  BY <1>1, <1>2 DEF StateOf, Run, Discrete, Relative
<1>3. CASE p.kind = "mouse_abs"
  BY <1>1, <1>3 DEF StateOf, Run, Discrete, Batch, BatchAbs, Relative
<1>4. CASE p.kind = "controller"
  BY <1>1, <1>4 DEF StateOf, Run, Discrete, Batch, BatchController, Relative
<1>5. CASE p.kind = "touch"
  BY <1>1, <1>5 DEF StateOf, Run, Discrete, Batch, BatchTouch, Relative
<1>6. CASE p.kind = "controller_touch"
  BY <1>1, <1>6 DEF StateOf, Run, Discrete, Batch, BatchControllerTouch, BatchTouch, Relative
<1>7. CASE p.kind = "motion"
  BY <1>1, <1>7 DEF StateOf, Run, Discrete, Relative
<1>8. CASE p.kind = "pen"
  BY <1>1, <1>8 DEF StateOf, Run, Discrete, Batch, BatchPen, Relative
<1>9. CASE p.kind \in {"mouse_button", "key", "battery", "arrival"}
  BY <1>1, <1>9 DEF Batch, Relative
<1> QED
  BY <1>2, <1>3, <1>4, <1>5, <1>6, <1>7, <1>8, <1>9 DEF Kinds

\* So does the merged packet.
LEMMA MergedState ==
  ASSUME NEW p, NEW q, p.kind \in Kinds, Batch(p, q) = "batched"
  PROVE  /\ StateOf(Merged(p, q)) = StateOf(q) /\ Run(Merged(p, q)) = Run(q)
         /\ ~Discrete(Merged(p, q)) /\ Merged(p, q).kind \in Kinds
<1>1. p.kind = q.kind
  BY DEF Batch
<1>2. CASE p.kind \in Relative
  <2>1. Merged(p, q).kind = p.kind
    BY <1>2 DEF Merged
  <2>2. \A r : r.kind \in Relative => StateOf(r) = << >> /\ Run(r) = <<r.kind>> /\ ~Discrete(r)
    BY DEF StateOf, Run, Discrete, Relative
  <2> QED
    BY <1>1, <1>2, <2>1, <2>2
<1>3. CASE p.kind \notin Relative
  BY <1>1, <1>3, BatchedState DEF Merged
<1> QED
  BY <1>2, <1>3

\* What the loop passes is of the run of the packet it works on.
LEMMA SkippedRun ==
  ASSUME NEW p, NEW q, p.kind \in Kinds, Batch(p, q) = "skip"
  PROVE  Run(q) = Run(p)
<1>1. p.kind = q.kind
  BY DEF Batch
<1>2. p.kind \in {"controller", "touch", "controller_touch", "motion"}
  BY SkippedOtherDevice
<1>3. CASE p.kind = "controller"
  BY <1>1, <1>3 DEF Run, Batch, BatchController, Relative
<1>4. CASE p.kind = "touch"
  BY <1>1, <1>4 DEF Run, Batch, BatchTouch, Relative
<1>5. CASE p.kind \in {"controller_touch", "motion"}
  BY <1>1, <1>5 DEF Run
<1> QED
  BY <1>2, <1>3, <1>4, <1>5

(***************************************************************************)
(* Before, without its CHOOSE: the packet is the first of its device, or   *)
(* there is one before it and none in between.                             *)
(***************************************************************************)
First(s, k) == \A j \in 1 .. k - 1 : Dev(s[j]) # Dev(s[k])
Follows(s, m, k) ==
  m \in 1 .. k - 1 /\ Dev(s[m]) = Dev(s[k]) /\ \A j \in m + 1 .. k - 1 : Dev(s[j]) # Dev(s[k])

\* Before the first packet of its device there is what the system has seen of it.
LEMMA BeforeFirst ==
  ASSUME NEW seen, NEW s, NEW k, First(s, k)
  PROVE  Before(seen, s, k) = seen[Dev(s[k])]
BY DEF First, Before

\* Before any other there is the one it follows.
LEMMA BeforeFollows ==
  ASSUME NEW seen, NEW s, NEW k \in Nat, NEW m, Follows(s, m, k)
  PROVE  Before(seen, s, k) = s[m]
<1> DEFINE same == {j \in 1 .. k - 1 : Dev(s[j]) = Dev(s[k])}
<1>1. m \in same /\ \A j \in same : j <= m
  BY DEF Follows
<1>2. \A x \in same : (\A j \in same : j <= x) => x = m
  BY <1>1
<1>3. (CHOOSE x \in same : \A j \in same : j <= x) = m
  <2> HIDE DEF same
  <2> QED
    BY <1>1, <1>2, Zenon
<1> QED
  BY <1>1, <1>3, Zenon DEF Before

\* Every packet is one or the other.
LEMMA FirstOrFollows ==
  ASSUME NEW s, NEW k \in Nat
  PROVE  First(s, k) \/ \E m \in 1 .. k - 1 : Follows(s, m, k)
<1> DEFINE Of(j) == Dev(s[j]) = Dev(s[k])
           Found(n) == \/ \A j \in 1 .. n : ~Of(j)
                       \/ \E m \in 1 .. n : Of(m) /\ \A j \in m + 1 .. n : ~Of(j)
           S == {n \in Nat : Found(n)}
<1>1. 0 \in S
  BY SMT
<1>2. ASSUME NEW n \in Nat, n \in S PROVE n + 1 \in S
  <2> HIDE DEF Of
  <2>1. CASE Of(n + 1)
    <3>1. n + 1 \in 1 .. n + 1 /\ \A j \in (n + 1) + 1 .. n + 1 : ~Of(j)
      OBVIOUS
    <3>2. Found(n + 1)
      BY <2>1, <3>1
    <3> QED
      BY <3>2
  <2>2. CASE ~Of(n + 1)
    <3>1. CASE \A j \in 1 .. n : ~Of(j)
      <4>1. \A j \in 1 .. n + 1 : ~Of(j)
        BY <2>2, <3>1
      <4>2. Found(n + 1)
        BY <4>1
      <4> QED
        BY <4>2
    <3>2. CASE \E m \in 1 .. n : Of(m) /\ \A j \in m + 1 .. n : ~Of(j)
      <4>1. PICK m \in 1 .. n : Of(m) /\ \A j \in m + 1 .. n : ~Of(j)
        BY <3>2
      <4>2. m \in 1 .. n + 1 /\ \A j \in m + 1 .. n + 1 : ~Of(j)
        BY <2>2, <4>1
      <4>3. Found(n + 1)
        BY <4>1, <4>2
      <4> QED
        BY <4>3
    <3> QED
      BY <1>2, <3>1, <3>2
  <2> QED
    BY <2>1, <2>2
<1>3. CASE k = 0
  BY <1>3 DEF First
<1>4. CASE k # 0
  <2> HIDE DEF S
  <2>1. k - 1 \in S
    BY <1>1, <1>2, <1>4, SetInduction
  <2>2. Found(k - 1)
    BY <2>1 DEF S
  <2> QED
    BY <2>2 DEF First, Follows
<1> QED
  BY <1>3, <1>4

(***************************************************************************)
(* What the steps do to ChangesOf.                                         *)
(***************************************************************************)
Label(p) == <<Dev(p), StateOf(p)>>
Labels(s) == [k \in 1 .. Len(s) |-> Label(s[k])]
Marks(seen, run, s) == {k \in 1 .. Len(s) : IsChange(seen, run, s, k)}

\* The changes are the labels of the marked packets.
LEMMA ChangesAre ==
  ASSUME NEW s, NEW seen, NEW run
  PROVE  ChangesOf(seen, run, s) = Marked(Labels(s), Marks(seen, run, s))
BY Zenon DEF ChangesOf, Labels, Label, Marks

\* There is a label for every packet.
LEMMA LabelsAre ==
  ASSUME NEW T, NEW s \in Seq(T)
  PROVE  /\ Labels(s) \in Seq({Label(p) : p \in T}) /\ Len(Labels(s)) = Len(s)
         /\ \A k \in 1 .. Len(s) : Labels(s)[k] = Label(s[k])
<1> DEFINE n == Len(s)
<1>1. n \in Nat /\ \A k \in 1 .. n : s[k] \in T
  OBVIOUS
<1>2. Labels(s) = [k \in 1 .. n |-> Label(s[k])]
  BY DEF Labels
<1> HIDE DEF n
<1>3. Labels(s) \in [1 .. n -> {Label(p) : p \in T}]
  BY <1>1, <1>2
<1>4. Labels(s) \in Seq({Label(p) : p \in T}) /\ Len(Labels(s)) = n
  BY <1>1, <1>3, IsASeq, LenProperties
<1> QED
  BY <1>2, <1>4 DEF n

\* Whether packet k is a change depends on the packets up to k.
LEMMA ChangeOfPrefix ==
  ASSUME NEW s, NEW b, NEW k \in Nat \ {0}, NEW seen, NEW run, \A j \in 1 .. k : s[j] = b[j]
  PROVE  IsChange(seen, run, s, k) <=> IsChange(seen, run, b, k)
<1>1. s[k] = b[k] /\ (k # 1 => s[k - 1] = b[k - 1])
  OBVIOUS
<1>2. Before(seen, s, k) = Before(seen, b, k)
  <2>1. CASE First(s, k)
    <3>1. First(b, k)
      BY <2>1, <1>1 DEF First
    <3> QED
      BY <1>1, <2>1, <3>1, BeforeFirst
  <2>2. ASSUME NEW m \in 1 .. k - 1, Follows(s, m, k)
        PROVE  Before(seen, s, k) = Before(seen, b, k)
    <3>1. Follows(b, m, k)
      BY <2>2, <1>1 DEF Follows
    <3>2. s[m] = b[m]
      OBVIOUS
    <3> QED
      BY <2>2, <3>1, <3>2, BeforeFollows
  <2> QED
    BY <2>1, <2>2, FirstOrFollows
<1> QED
  BY <1>1, <1>2, Zenon DEF IsChange

\* A packet that is received adds its change at the end, or none.
LEMMA ChangesReceived ==
  ASSUME NEW T, NEW s \in Seq(T), NEW p \in T, NEW seen, NEW run
  PROVE  \/ ChangesOf(seen, run, Append(s, p)) = ChangesOf(seen, run, s)
         \/ ChangesOf(seen, run, Append(s, p)) = Append(ChangesOf(seen, run, s), Label(p))
<1> DEFINE b == Append(s, p)
           n == Len(s)
<1>1. /\ n \in Nat /\ b \in Seq(T) /\ Len(b) = n + 1 /\ b[n + 1] = p
      /\ \A k \in 1 .. n : b[k] = s[k]
  OBVIOUS
<1> HIDE DEF b
<1>2. \A k \in 1 .. n : k \in Marks(seen, run, s) <=> k \in Marks(seen, run, b)
  <2> TAKE k \in 1 .. n
  <2>1. k \in Nat \ {0} /\ k \in 1 .. Len(b) /\ \A j \in 1 .. k : s[j] = b[j]
    BY <1>1
  <2> QED
    BY <2>1, ChangeOfPrefix DEF Marks
<1> DEFINE L == {Label(q) : q \in T}
<1>3. /\ Labels(s) \in Seq(L) /\ Len(Labels(s)) = n
      /\ \A k \in 1 .. n : Labels(s)[k] = Label(s[k])
  BY LabelsAre
<1>4. /\ Labels(b) \in Seq(L) /\ Len(Labels(b)) = n + 1
      /\ \A k \in 1 .. n + 1 : Labels(b)[k] = Label(b[k])
  <2>1. /\ Labels(b) \in Seq(L) /\ Len(Labels(b)) = Len(b)
        /\ \A k \in 1 .. Len(b) : Labels(b)[k] = Label(b[k])
    BY <1>1, LabelsAre
  <2> QED
    BY <1>1, <2>1
<1> HIDE DEF L
<1>5. /\ Len(Labels(b)) = Len(Labels(s)) + 1 /\ Labels(b)[Len(Labels(b))] = Label(p)
      /\ \A k \in 1 .. Len(Labels(s)) : Labels(s)[k] = Labels(b)[k]
  BY <1>1, <1>3, <1>4
<1>6. \/ Marked(Labels(b), Marks(seen, run, b)) = Marked(Labels(s), Marks(seen, run, s))
      \/ Marked(Labels(b), Marks(seen, run, b)) = Append(Marked(Labels(s), Marks(seen, run, s)), Label(p))
  BY <1>2, <1>3, <1>4, <1>5, MarkedAppend
<1> QED
  BY <1>1, <1>6, ChangesAre DEF b

\* A packet that is sent takes its change from the front, or none.
LEMMA ChangesSent ==
  ASSUME NEW T, NEW s \in Seq(T), s # << >>, s[1] # None, NEW seen, NEW run,
         \A k \in 1 .. Len(s) : Dev(s[k]) \in DOMAIN seen
  PROVE  LET now == ChangesOf(seen, run, s)
             next == ChangesOf([seen EXCEPT ![Dev(s[1])] = s[1]], Run(s[1]), Tail(s))
         IN  next = now \/ (now # << >> /\ next = Tail(now))
<1> DEFINE e == s[1]
           t == Tail(s)
           saw == [seen EXCEPT ![Dev(e)] = e]
           n == Len(t)
<1>1. /\ n \in Nat /\ t \in Seq(T) /\ Len(s) = n + 1 /\ \A k \in 1 .. n : t[k] = s[k + 1]
      /\ \A k \in 2 .. n + 1 : t[k - 1] = s[k]
  OBVIOUS
<1> HIDE DEF t
<1>2. /\ Dev(e) \in DOMAIN seen /\ saw[Dev(e)] = e
      /\ \A d \in DOMAIN seen : d # Dev(e) => saw[d] = seen[d]
  <2>1. 1 \in 1 .. Len(s)
    BY <1>1
  <2> QED
    BY <2>1
<1> HIDE DEF saw
<1>3. ASSUME NEW k \in 1 .. n
      PROVE  IsChange(seen, run, s, k + 1) <=> IsChange(saw, Run(e), t, k)
  <2>1. /\ k \in Nat /\ k + 1 \in Nat /\ k + 1 # 1 /\ (k + 1) - 1 = k /\ k + 1 \in 1 .. Len(s)
        /\ t[k] = s[k + 1] /\ (k # 1 => t[k - 1] = s[k])
    BY <1>1
  <2>2. Before(seen, s, k + 1) = Before(saw, t, k)
    <3>1. CASE First(s, k + 1)
      <4>1. ASSUME NEW j \in 1 .. k - 1 PROVE Dev(t[j]) # Dev(t[k])
        <5>1. j + 1 \in 1 .. (k + 1) - 1 /\ t[j] = s[j + 1]
          BY <1>1
        <5> QED
          BY <2>1, <3>1, <5>1 DEF First
      <4>2. 1 \in 1 .. (k + 1) - 1
        OBVIOUS
      <4>3. Dev(s[k + 1]) # Dev(e) /\ Dev(s[k + 1]) \in DOMAIN seen
        BY <2>1, <3>1, <4>2 DEF First
      <4>4. saw[Dev(s[k + 1])] = seen[Dev(s[k + 1])]
        BY <1>2, <4>3
      <4>5. First(t, k)
        BY <4>1 DEF First
      <4> QED
        BY <2>1, <3>1, <4>4, <4>5, BeforeFirst
    <3>2. ASSUME NEW m \in 1 .. (k + 1) - 1, Follows(s, m, k + 1), m = 1
          PROVE  Before(seen, s, k + 1) = Before(saw, t, k)
      <4>1. ASSUME NEW j \in 1 .. k - 1 PROVE Dev(t[j]) # Dev(t[k])
        <5>1. j + 1 \in m + 1 .. (k + 1) - 1 /\ t[j] = s[j + 1]
          BY <1>1, <3>2
        <5> QED
          BY <2>1, <3>2, <5>1 DEF Follows
      <4>2. First(t, k)
        BY <4>1 DEF First
      <4>3. Dev(t[k]) = Dev(e)
        BY <2>1, <3>2 DEF Follows
      <4>4. Before(saw, t, k) = e
        BY <1>2, <4>2, <4>3, BeforeFirst
      <4>5. Before(seen, s, k + 1) = s[m]
        BY <2>1, <3>2, BeforeFollows
      <4> QED
        BY <3>2, <4>4, <4>5
    <3>3. ASSUME NEW m \in 1 .. (k + 1) - 1, Follows(s, m, k + 1), m # 1
          PROVE  Before(seen, s, k + 1) = Before(saw, t, k)
      <4>1. m - 1 \in 1 .. k - 1 /\ t[m - 1] = s[m]
        BY <1>1, <3>3
      <4>2. ASSUME NEW j \in (m - 1) + 1 .. k - 1 PROVE Dev(t[j]) # Dev(t[k])
        <5>1. j + 1 \in m + 1 .. (k + 1) - 1 /\ t[j] = s[j + 1]
          BY <1>1, <3>3
        <5> QED
          BY <2>1, <3>3, <5>1 DEF Follows
      <4>3. Dev(t[m - 1]) = Dev(t[k])
        BY <2>1, <3>3, <4>1 DEF Follows
      <4>4. Follows(t, m - 1, k)
        BY <4>1, <4>2, <4>3 DEF Follows
      <4>5. Before(saw, t, k) = t[m - 1]
        BY <2>1, <4>4, BeforeFollows
      <4>6. Before(seen, s, k + 1) = s[m]
        BY <2>1, <3>3, BeforeFollows
      <4> QED
        BY <4>1, <4>5, <4>6
    <3> QED
      BY <2>1, <3>1, <3>2, <3>3, FirstOrFollows
  <2>3. Run(s[(k + 1) - 1]) = IF k = 1 THEN Run(e) ELSE Run(t[k - 1])
    BY <2>1
  <2> QED
    BY <2>1, <2>2, <2>3 DEF IsChange
<1> DEFINE ma == Marks(seen, run, s)
           mb == Marks(saw, Run(e), t)
<1>4. \A k \in 1 .. n : k + 1 \in ma <=> k \in mb
  BY <1>1, <1>3 DEF Marks
<1> DEFINE L == {Label(q) : q \in T}
           a == Labels(s)
           b == Labels(t)
<1>5. /\ a \in Seq(L) /\ b \in Seq(L) /\ Len(a) = n + 1 /\ Len(b) = n
      /\ \A k \in 1 .. n : a[k + 1] = b[k]
  <2>1. a \in Seq(L) /\ Len(a) = Len(s) /\ \A k \in 1 .. Len(s) : a[k] = Label(s[k])
    BY LabelsAre
  <2>2. b \in Seq(L) /\ Len(b) = Len(t) /\ \A k \in 1 .. Len(t) : b[k] = Label(t[k])
    BY <1>1, LabelsAre
  <2> HIDE DEF a, b, L
  <2>3. ASSUME NEW k \in 1 .. n PROVE a[k + 1] = b[k]
    <3>1. k \in 1 .. Len(t) /\ k + 1 \in 1 .. Len(s) /\ t[k] = s[k + 1]
      BY <1>1
    <3> QED
      BY <2>1, <2>2, <3>1
  <2> QED
    BY <1>1, <2>1, <2>2, <2>3
<1>6. ChangesOf(seen, run, s) = Marked(a, ma) /\ ChangesOf(saw, Run(e), t) = Marked(b, mb)
  BY <1>1, ChangesAre
<1> HIDE DEF L, ma, mb, a, b, n
<1>7. 1 \in 1 .. Len(a) /\ a # << >> /\ Len(b) = Len(a) - 1
  BY <1>1, <1>5
<1>8. Drops(a, ma, b, mb, 1)
  BY <1>4, <1>5, <1>7 DEF Drops
<1>9. CASE 1 \in ma
  <2>1. IsTail(Marked(b, mb), Marked(a, ma))
    BY <1>5, <1>8, <1>9, MarkedTail, Zenon
  <2> QED
    BY <1>6, <2>1 DEF saw, e, t, IsTail
<1>10. CASE 1 \notin ma
  <2>1. Marked(b, mb) = Marked(a, ma)
    BY <1>5, <1>8, <1>10, MarkedWithout
  <2> QED
    BY <1>6, <2>1 DEF saw, e, t
<1> QED
  BY <1>9, <1>10

\* q is r with the packet in front and packet x + 1 merged: both, and the packet they
\* become, are of one device, state and run, and what lies between is of the same run.
Merges(r, q, x) ==
  /\ x \in 1 .. Len(r) - 1 /\ Len(q) = Len(r) - 1
  /\ \A p \in {r[1], r[x + 1], q[1]} :
       /\ Dev(p) = Dev(r[1]) /\ StateOf(p) = StateOf(r[1]) /\ Run(p) = Run(r[1])
       /\ ~Discrete(p) /\ p # None
  /\ \A k \in 2 .. x : q[k] = r[k] /\ Dev(r[k]) # Dev(r[1]) /\ Run(r[k]) = Run(r[1])
  /\ \A k \in x + 1 .. Len(q) : q[k] = r[k + 1]

\* A merge changes nothing: the packet taken out of the queue was no change, and
\* the packet in front stands for it.
LEMMA ChangesMerged ==
  ASSUME NEW T, NEW r \in Seq(T), NEW q \in Seq(T), NEW x, Merges(r, q, x), NEW seen, NEW run
  PROVE  ChangesOf(seen, run, q) = ChangesOf(seen, run, r)
<1> DEFINE n == Len(q)
           d == Dev(r[1])
<1>1. /\ n \in Nat /\ Len(r) = n + 1 /\ x \in 1 .. n /\ x + 1 \in 2 .. n + 1
      /\ \A k \in x + 2 .. n + 1 : r[k] = q[k - 1]
  <2>1. n \in Nat /\ Len(r) = n + 1 /\ x \in 1 .. n /\ x + 1 \in 2 .. n + 1
    BY DEF Merges
  <2>2. ASSUME NEW k \in x + 2 .. n + 1 PROVE r[k] = q[k - 1]
    <3>1. k - 1 \in x + 1 .. n /\ (k - 1) + 1 = k
      BY <2>1
    <3>2. q[k - 1] = r[(k - 1) + 1]
      BY <3>1 DEF Merges
    <3> QED
      BY <3>1, <3>2
  <2> QED
    BY <2>1, <2>2
<1>2. \A p \in {r[1], r[x + 1], q[1]} :
        Dev(p) = d /\ StateOf(p) = StateOf(r[1]) /\ Run(p) = Run(r[1]) /\ ~Discrete(p) /\ p # None
  BY DEF Merges
<1>3. \A k \in 2 .. x : q[k] = r[k] /\ Dev(r[k]) # d /\ Run(r[k]) = Run(r[1])
  BY DEF Merges
<1>4. \A k \in x + 1 .. n : q[k] = r[k + 1]
  BY DEF Merges
<1> HIDE DEF n, d
<1>5. \A k \in 1 .. x : Dev(q[k]) = Dev(r[k]) /\ Run(q[k]) = Run(r[1]) /\ Run(r[k]) = Run(r[1])
  <2> TAKE k \in 1 .. x
  <2>1. CASE k = 1
    BY <1>2, <2>1
  <2>2. CASE k # 1
    BY <1>3, <2>2
  <2> QED
    BY <2>1, <2>2
<1>6. ~IsChange(seen, run, r, x + 1)
  <2>1. Follows(r, 1, x + 1)
    BY <1>1, <1>2, <1>3 DEF Follows
  <2>2. Before(seen, r, x + 1) = r[1]
    BY <1>1, <2>1, BeforeFollows
  <2>3. x + 1 # 1 /\ (x + 1) - 1 = x /\ x \in 1 .. x
    BY <1>1
  <2> QED
    BY <1>2, <1>5, <2>2, <2>3 DEF IsChange
<1>7. ASSUME NEW k \in 1 .. x
      PROVE  IsChange(seen, run, r, k) <=> IsChange(seen, run, q, k)
  <2>1. CASE k = 1
    <3>1. First(r, 1) /\ First(q, 1)
      BY DEF First
    <3>2. Before(seen, r, 1) = seen[d] /\ Before(seen, q, 1) = seen[d]
      BY <1>2, <3>1, BeforeFirst
    <3> QED
      BY <1>2, <2>1, <3>2 DEF IsChange
  <2>2. CASE k # 1
    <3>1. k \in 2 .. x /\ k - 1 \in 1 .. x /\ q[k] = r[k] /\ Dev(r[k]) # d
      BY <1>1, <1>3, <2>2
    <3>2. Before(seen, r, k) = Before(seen, q, k)
      <4>1. CASE First(r, k)
        <5>1. First(q, k)
          <6> SUFFICES ASSUME NEW j \in 1 .. k - 1 PROVE Dev(q[j]) # Dev(q[k])
            BY DEF First
          <6>1. j \in 1 .. x
            BY <1>1, <3>1
          <6> QED
            BY <1>5, <3>1, <4>1, <6>1 DEF First
        <5> QED
          BY <3>1, <4>1, <5>1, BeforeFirst
      <4>2. ASSUME NEW m \in 1 .. k - 1, Follows(r, m, k)
            PROVE  Before(seen, r, k) = Before(seen, q, k)
        <5>1. m # 1
          BY <1>2, <3>1, <4>2 DEF Follows
        <5>2. m \in 2 .. x /\ q[m] = r[m]
          BY <1>1, <1>3, <3>1, <5>1
        <5>3. Follows(q, m, k)
          BY <1>1, <1>5, <3>1, <4>2 DEF Follows
        <5> QED
          BY <3>1, <4>2, <5>2, <5>3, BeforeFollows
      <4> QED
        BY <3>1, <4>1, <4>2, FirstOrFollows
    <3>3. Run(r[k - 1]) = Run(q[k - 1])
      BY <1>5, <3>1
    <3> QED
      BY <2>2, <3>1, <3>2, <3>3 DEF IsChange
  <2> QED
    BY <2>1, <2>2
<1>8. ASSUME NEW k \in x + 1 .. n
      PROVE  IsChange(seen, run, r, k + 1) <=> IsChange(seen, run, q, k)
  <2>1. /\ k \in Nat /\ k + 1 \in Nat /\ k # 1 /\ k + 1 # 1 /\ (k + 1) - 1 = k
        /\ q[k] = r[k + 1]
    <3>1. k \in Nat /\ k >= 2
      BY <1>1
    <3> QED
      BY <1>4, <3>1
  <2>2. Run(r[k]) = Run(q[k - 1])
    <3>1. CASE k = x + 1
      <4>1. k - 1 \in 1 .. x /\ k - 1 = x
        BY <1>1, <3>1
      <4> QED
        BY <1>2, <1>5, <3>1, <4>1
    <3>2. CASE k # x + 1
      <4>1. k \in x + 2 .. n + 1
        BY <1>1, <3>2
      <4> QED
        BY <1>1, <4>1
    <3> QED
      BY <3>1, <3>2
  <2>3. ASSUME NEW j \in 1 .. k - 1
        PROVE  Dev(q[j]) = IF j <= x THEN Dev(r[j]) ELSE Dev(r[j + 1])
    BY <1>1, <1>4, <1>5
  <2>4. CASE First(r, k + 1)
    <3>1. First(q, k)
      <4>1. ASSUME NEW j \in 1 .. k - 1 PROVE Dev(q[j]) # Dev(q[k])
        <5>1. j \in 1 .. (k + 1) - 1 /\ j + 1 \in 1 .. (k + 1) - 1
          OBVIOUS
        <5> QED
          BY <2>1, <2>3, <2>4, <5>1 DEF First
      <4> QED
        BY <4>1 DEF First
    <3>2. Before(seen, r, k + 1) = Before(seen, q, k)
      BY <2>1, <2>4, <3>1, BeforeFirst
    <3>3. Run(r[(k + 1) - 1]) = Run(q[k - 1])
      BY <2>1, <2>2
    <3> QED
      BY <2>1, <3>2, <3>3, Zenon DEF IsChange
  <2>5. ASSUME NEW m \in 1 .. (k + 1) - 1, Follows(r, m, k + 1)
        PROVE  IsChange(seen, run, r, k + 1) <=> IsChange(seen, run, q, k)
    <3>a. Before(seen, r, k + 1) = r[m]
      BY <2>1, <2>5, BeforeFollows
    <3>1. Before(seen, r, k + 1) = r[m] /\ m \in 1 .. k /\ Dev(r[m]) = Dev(q[k])
      BY <2>1, <2>5, <3>a DEF Follows
    <3>2. ASSUME NEW j \in m + 1 .. k PROVE Dev(r[j]) # Dev(q[k])
      BY <2>1, <2>5 DEF Follows
    <3>3. CASE m = x + 1
      <4>1. Dev(q[k]) = d /\ Dev(q[1]) = d
        BY <1>2, <3>1, <3>3
      <4>2. ASSUME NEW j \in 1 + 1 .. k - 1 PROVE Dev(q[j]) # Dev(q[k])
        <5>1. CASE j <= x
          <6>1. j \in 2 .. x
            BY <1>1, <5>1
          <6> QED
            BY <1>3, <4>1, <6>1
        <5>2. CASE ~(j <= x)
          <6>1. j \in 1 .. k - 1 /\ j + 1 \in m + 1 .. k
            BY <1>1, <3>3, <5>2
          <6> QED
            BY <2>3, <3>2, <5>2, <6>1
        <5> QED
          BY <5>1, <5>2
      <4>3. Follows(q, 1, k)
        BY <1>1, <4>1, <4>2 DEF Follows
      <4>4. Before(seen, q, k) = q[1]
        BY <2>1, <4>3, BeforeFollows
      <4>5. q[1] # None /\ r[m] # None /\ StateOf(q[1]) = StateOf(r[m])
        BY <1>2, <3>3
      <4> QED
        BY <2>1, <2>2, <3>1, <4>4, <4>5 DEF IsChange
    <3>4. CASE m > x + 1
      <4>1. m - 1 \in 1 .. k - 1 /\ m - 1 \in x + 1 .. n /\ q[m - 1] = r[m]
        BY <1>1, <1>4, <3>1, <3>4
      <4>2. ASSUME NEW j \in (m - 1) + 1 .. k - 1 PROVE Dev(q[j]) # Dev(q[k])
        <5>1. j \in 1 .. k - 1 /\ j + 1 \in m + 1 .. k /\ ~(j <= x)
          BY <1>1, <3>4
        <5> QED
          BY <2>3, <3>2, <5>1
      <4>3. Follows(q, m - 1, k)
        BY <3>1, <4>1, <4>2 DEF Follows
      <4>4. Before(seen, q, k) = r[m]
        BY <2>1, <4>1, <4>3, BeforeFollows
      <4> QED
        BY <2>1, <2>2, <3>1, <4>4 DEF IsChange
    <3>5. CASE m <= x
      <4>1. Dev(q[k]) # d
        <5>1. x + 1 \in m + 1 .. k
          BY <1>1, <3>1, <3>5
        <5> QED
          BY <1>2, <3>2, <5>1
      <4>2. m # 1 /\ m \in 2 .. x
        BY <1>1, <1>2, <3>1, <3>5, <4>1
      <4>3. q[m] = r[m] /\ m \in 1 .. k - 1
        BY <1>1, <1>3, <4>2
      <4>4. ASSUME NEW j \in m + 1 .. k - 1 PROVE Dev(q[j]) # Dev(q[k])
        <5>1. j \in 1 .. k - 1 /\ j \in m + 1 .. k /\ j + 1 \in m + 1 .. k
          BY <3>1
        <5> QED
          BY <2>3, <3>2, <5>1
      <4>5. Follows(q, m, k)
        BY <3>1, <4>3, <4>4 DEF Follows
      <4>6. Before(seen, q, k) = r[m]
        BY <2>1, <4>3, <4>5, BeforeFollows
      <4> QED
        BY <2>1, <2>2, <3>1, <4>6 DEF IsChange
    <3> QED
      BY <1>1, <3>1, <3>3, <3>4, <3>5
  <2> QED
    BY <2>1, <2>4, <2>5, FirstOrFollows
<1> DEFINE L == {Label(p) : p \in T}
           a == Labels(r)
           b == Labels(q)
           ma == Marks(seen, run, r)
           mb == Marks(seen, run, q)
<1>9. a \in Seq(L) /\ Len(a) = Len(r) /\ \A k \in 1 .. Len(r) : a[k] = Label(r[k])
  BY LabelsAre
<1>10. b \in Seq(L) /\ Len(b) = n /\ \A k \in 1 .. n : b[k] = Label(q[k])
  BY LabelsAre DEF n
<1>11. \A k \in 1 .. n + 1 : k \in ma <=> IsChange(seen, run, r, k)
  BY <1>1 DEF Marks
<1>12. \A k \in 1 .. n : k \in mb <=> IsChange(seen, run, q, k)
  BY DEF Marks, n
<1>13. ChangesOf(seen, run, r) = Marked(a, ma) /\ ChangesOf(seen, run, q) = Marked(b, mb)
  BY ChangesAre
<1> HIDE DEF L, a, b, ma, mb
<1>14. ASSUME NEW k \in 1 .. (x + 1) - 1 PROVE a[k] = b[k] /\ (k \in ma <=> k \in mb)
  <2>1. k \in 1 .. x /\ k \in 1 .. n /\ k \in 1 .. n + 1 /\ k \in 1 .. Len(r)
    BY <1>1
  <2>2. Label(r[k]) = Label(q[k])
    <3>1. CASE k = 1
      BY <1>2, <3>1 DEF Label
    <3>2. CASE k # 1
      BY <1>3, <2>1, <3>2
    <3> QED
      BY <3>1, <3>2
  <2> QED
    BY <1>7, <1>9, <1>10, <1>11, <1>12, <2>1, <2>2
<1>15. ASSUME NEW k \in x + 1 .. Len(b) PROVE a[k + 1] = b[k] /\ (k + 1 \in ma <=> k \in mb)
  <2>1. k \in x + 1 .. n /\ k \in 1 .. n /\ k + 1 \in 1 .. n + 1 /\ k + 1 \in 1 .. Len(r)
    BY <1>1, <1>10
  <2>2. q[k] = r[k + 1]
    BY <1>4, <2>1
  <2> QED
    BY <1>8, <1>9, <1>10, <1>11, <1>12, <2>1, <2>2
<1>16. x + 1 \in 1 .. Len(a) /\ Len(b) = Len(a) - 1 /\ x + 1 \notin ma
  BY <1>1, <1>6, <1>9, <1>10, <1>11
<1>17. a \in Seq(L) /\ b \in Seq(L)
  BY <1>9, <1>10
<1>18. Drops(a, ma, b, mb, x + 1)
  BY <1>14, <1>15, <1>16 DEF Drops
<1>19. Marked(b, mb) = Marked(a, ma)
  BY <1>16, <1>17, <1>18, MarkedWithout
<1> QED
  BY <1>13, <1>19

(***************************************************************************)
(* The steps of the two threads.                                           *)
(***************************************************************************)
\* The packet in work is of a device that the system knows.
EntryKnown == wpc # "idle" => Dev(entry) \in Devices

\* The packets of the queue are packets of the client, of devices the system knows.
LEMMA QueueKnown ==
  ASSUME InputInv
  PROVE  /\ queue \in Seq(client) /\ Len(queue) \in Nat
         /\ \A p \in client : p.kind \in Kinds /\ Dev(p) \in Devices /\ p \in Packets
         /\ \A k \in 1 .. Len(queue) : queue[k] \in client
<1>1. queue \in Seq(client) /\ client \in Clients
  BY DEF InputInv, TypeOK
<1>2. \A p \in client : p \in Packets
  BY <1>1 DEF Packets
<1>3. \A p \in client : p.kind \in Kinds /\ Dev(p) \in Devices
  BY <1>2, InputBatchAssumption DEF Devices
<1>4. Len(queue) \in Nat /\ \A k \in 1 .. Len(queue) : queue[k] \in client
  BY <1>1
<1> QED
  BY <1>1, <1>2, <1>3, <1>4

\* A packet is not the absence of one.
LEMMA KindIsNotNone == \A p : p.kind \in Kinds => p # None
BY DEF Kinds, Relative, None

\* It was taken from the queue, or merged with one of the same device.
LEMMA EntryKnownStep == InputInv /\ EntryKnown /\ [Next]_vars => EntryKnown'
<1> SUFFICES ASSUME InputInv, EntryKnown, [Next]_vars PROVE EntryKnown'
  OBVIOUS
<1> USE DEF EntryKnown
<1>1. ASSUME NEW p \in Packets, Receive(p) PROVE EntryKnown'
  BY <1>1 DEF Receive
<1>2. CASE Push
  BY <1>2 DEF Push
<1>3. CASE Pop
  <2>1. CASE queue = << >>
    BY <1>3, <2>1 DEF Pop
  <2>2. CASE queue # << >>
    <3>1. 1 \in 1 .. Len(queue) /\ Head(queue) = queue[1]
      BY <2>2, QueueKnown
    <3> QED
      BY <1>3, <2>2, <3>1, QueueKnown DEF Pop
  <2> QED
    BY <2>1, <2>2
<1>4. CASE BatchNext
  <2>1. CASE i \in DOMAIN queue /\ Batch(entry, queue[i]) = "batched" /\ entry' = Merged(entry, queue[i])
    <3>1. entry.kind \in Kinds
      BY <1>4, EntryKind DEF BatchNext
    <3>2. Dev(entry') = Dev(queue[i])
      BY <2>1, <3>1, MergedIs
    <3>3. queue[i] \in client
      BY <2>1, QueueKnown
    <3> QED
      BY <3>2, <3>3, QueueKnown
  <2>2. CASE UNCHANGED entry
    BY <1>4, <2>2 DEF BatchNext
  <2> QED
    BY <1>4, <2>1, <2>2 DEF BatchNext
<1>5. CASE Send
  BY <1>5 DEF Send
<1>6. CASE UNCHANGED vars
  BY <1>6 DEF vars
<1> QED
  BY <1>1, <1>2, <1>3, <1>4, <1>5, <1>6 DEF Next, ControlThread, PoolThread

\* A packet is appended.
LEMMA ReceiveInOrder ==
  ASSUME InputInv, NEW p \in client, Receive(p)
  PROVE  \/ Changes' = Changes
         \/ Changes' = Append(Changes, Label(p))
<1> DEFINE T == client \cup {entry}
           front == IF wpc = "idle" THEN << >> ELSE <<entry>>
<1>1. queue \in Seq(T) /\ front \in Seq(T) /\ p \in T /\ <<p>> \in Seq(T)
  <2>1. << >> \in Seq(T) /\ <<entry>> \in Seq(T) /\ <<p>> \in Seq(T) /\ queue \in Seq(T)
    BY QueueKnown
  <2> QED
    BY <2>1
<1>2. queue' = Append(queue, p) /\ wpc' = wpc /\ entry' = entry /\ os' = os /\ last' = last
  BY DEF Receive
<1>3. Remaining = front \o queue /\ Remaining' = front \o Append(queue, p)
  BY <1>2 DEF Remaining
<1> HIDE DEF T, front
<1>4. front \o Append(queue, p) = Append(front \o queue, p) /\ front \o queue \in Seq(T)
  <2>1. Append(queue, p) = queue \o <<p>>
    BY <1>1, AppendIsConcat
  <2>2. front \o queue \in Seq(T)
    BY <1>1
  <2>3. Append(front \o queue, p) = (front \o queue) \o <<p>>
    BY <1>1, <2>2, AppendIsConcat
  <2>4. (front \o queue) \o <<p>> = front \o (queue \o <<p>>)
    BY <1>1, ConcatAssociative
  <2> QED
    BY <2>1, <2>2, <2>3, <2>4
<1>5. Changes = ChangesOf(os, last, front \o queue)
  BY <1>3 DEF Changes
<1>6. Changes' = ChangesOf(os, last, Append(front \o queue, p))
  BY <1>2, <1>3, <1>4 DEF Changes
<1> QED
  BY <1>1, <1>4, <1>5, <1>6, ChangesReceived

\* The packet in front is sent.
LEMMA SendInOrder ==
  ASSUME InputInv, EntryKnown, Send
  PROVE  Changes' = Changes \/ (Changes # << >> /\ Changes' = Tail(Changes))
<1> DEFINE T == client \cup {entry}
           s == <<entry>> \o queue
<1>1. /\ wpc = "send" /\ wpc' = "idle" /\ queue' = queue
      /\ os' = [os EXCEPT ![Dev(entry)] = entry] /\ last' = Run(entry)
  BY DEF Send
<1>2. queue \in Seq(T) /\ <<entry>> \in Seq(T) /\ << >> \o queue = queue
  BY QueueKnown
<1>3. /\ s \in Seq(T) /\ s # << >> /\ s[1] = entry /\ Len(s) = Len(queue) + 1
      /\ \A k \in 1 .. Len(queue) : s[k + 1] = queue[k]
  BY <1>2, FrontIs
<1>4. Remaining = s /\ Remaining' = queue
  BY <1>1, <1>2 DEF Remaining
<1> HIDE DEF s, T
<1>5. Tail(s) = queue
  <2>1. Tail(s) \in Seq(T) /\ Len(Tail(s)) = Len(queue) /\ \A k \in 1 .. Len(queue) : Tail(s)[k] = s[k + 1]
    BY <1>2, <1>3
  <2> QED
    BY <1>2, <1>3, <2>1, SeqEqual
<1>6. \A k \in 1 .. Len(s) : Dev(s[k]) \in DOMAIN os
  <2> TAKE k \in 1 .. Len(s)
  <2>1. DOMAIN os = Devices
    BY DEF InputInv, TypeOK
  <2>2. CASE k = 1
    BY <1>1, <1>3, <2>1, <2>2 DEF EntryKnown
  <2>3. CASE k # 1
    <3>1. k - 1 \in 1 .. Len(queue) /\ (k - 1) + 1 = k
      BY <1>3, <2>3, QueueKnown
    <3>2. s[k] = queue[k - 1] /\ queue[k - 1] \in client
      BY <1>3, <3>1, QueueKnown
    <3> QED
      BY <2>1, <3>2, QueueKnown
  <2> QED
    BY <2>2, <2>3
<1>7. s[1] # None
  BY <1>1, <1>3, EntryKind, KindIsNotNone
<1>8. Changes = ChangesOf(os, last, s)
  BY <1>4 DEF Changes
<1>9. Changes' = ChangesOf([os EXCEPT ![Dev(s[1])] = s[1]], Run(s[1]), Tail(s))
  BY <1>1, <1>3, <1>4, <1>5 DEF Changes
<1> QED
  BY <1>3, <1>6, <1>7, <1>8, <1>9, ChangesSent

\* A packet of the queue is merged into the packet in front.
LEMMA MergeInOrder ==
  ASSUME InputInv, wpc = "batch", i \in DOMAIN queue, Batch(entry, queue[i]) = "batched",
         entry' = Merged(entry, queue[i]), queue' = Without(queue, i),
         wpc' = wpc, os' = os, last' = last
  PROVE  Changes' = Changes
<1> DEFINE T == client \cup {entry, entry'}
           r == <<entry>> \o queue
           q == <<entry'>> \o queue'
           n == Len(queue)
<1>1. queue \in Seq(client) /\ i \in 1 .. n /\ n \in Nat /\ entry.kind \in Kinds
  BY EntryKind, QueueKnown
<1>2. /\ queue' \in Seq(client) /\ Len(queue') = n - 1
      /\ \A j \in 1 .. n - 1 : queue'[j] = IF j < i THEN queue[j] ELSE queue[j + 1]
  BY <1>1, WithoutIs
<1>3. /\ queue \in Seq(T) /\ queue' \in Seq(T) /\ <<entry>> \in Seq(T) /\ <<entry'>> \in Seq(T)
  BY <1>1, <1>2
<1>4. /\ r \in Seq(T) /\ Len(r) = n + 1 /\ r[1] = entry /\ \A k \in 1 .. n : r[k + 1] = queue[k]
  BY <1>1, <1>3, FrontIs
<1>5. /\ q \in Seq(T) /\ Len(q) = n /\ q[1] = entry' /\ \A k \in 1 .. n - 1 : q[k + 1] = queue'[k]
  <2>1. Len(queue') + 1 = n
    BY <1>1, <1>2
  <2> QED
    BY <1>1, <1>2, <1>3, <2>1, FrontIs
<1>6. Remaining = r /\ Remaining' = q
  BY DEF Remaining
<1> HIDE DEF r, q, n, T
<1>7. \A k \in 2 .. n + 1 : r[k] = queue[k - 1]
  <2> TAKE k \in 2 .. n + 1
  <2>1. k - 1 \in 1 .. n /\ (k - 1) + 1 = k
    BY <1>1
  <2> QED
    BY <1>4, <2>1
<1>8. \A k \in 2 .. n : q[k] = IF k <= i THEN r[k] ELSE r[k + 1]
  <2> TAKE k \in 2 .. n
  <2>1. k - 1 \in 1 .. n - 1 /\ (k - 1) + 1 = k
    BY <1>1
  <2>2. q[k] = IF k - 1 < i THEN queue[k - 1] ELSE queue[(k - 1) + 1]
    BY <1>2, <1>5, <2>1
  <2>3. r[k] = queue[k - 1] /\ r[k + 1] = queue[(k - 1) + 1]
    BY <1>1, <1>7, <2>1
  <2> QED
    BY <1>1, <2>2, <2>3
<1>9. r[i + 1] = queue[i] /\ queue[i].kind \in Kinds
  BY <1>1, <1>4, QueueKnown DEF n
<1>10. \A p \in {r[1], r[i + 1], q[1]} :
         /\ Dev(p) = Dev(r[1]) /\ StateOf(p) = StateOf(r[1]) /\ Run(p) = Run(r[1])
         /\ ~Discrete(p) /\ p # None
  <2>1. /\ Dev(entry') = Dev(queue[i]) /\ Dev(entry) = Dev(queue[i])
        /\ StateOf(entry') = StateOf(queue[i]) /\ StateOf(entry) = StateOf(queue[i])
        /\ Run(entry') = Run(queue[i]) /\ Run(entry) = Run(queue[i])
        /\ ~Discrete(entry) /\ ~Discrete(queue[i]) /\ ~Discrete(entry')
        /\ entry'.kind \in Kinds
    BY <1>1, MergedIs, BatchedState, MergedState
  <2>2. entry # None /\ queue[i] # None /\ entry' # None
    BY <1>1, <1>9, <2>1, KindIsNotNone
  <2> QED
    BY <1>4, <1>5, <1>9, <2>1, <2>2
<1>11. \A k \in 2 .. i : q[k] = r[k] /\ Dev(r[k]) # Dev(r[1]) /\ Run(r[k]) = Run(r[1])
  <2> TAKE k \in 2 .. i
  <2>1. k - 1 \in 1 .. i - 1 /\ k \in 2 .. n + 1 /\ k \in 2 .. n
    BY <1>1
  <2>2. Batch(entry, queue[k - 1]) = "skip"
    BY <2>1 DEF InputInv, Passed
  <2>3. Dev(entry) # Dev(queue[k - 1]) /\ Run(queue[k - 1]) = Run(entry)
    BY <1>1, <2>2, SkippedOtherDevice, SkippedRun
  <2>4. k <= i
    BY <1>1
  <2> QED
    BY <1>4, <1>7, <1>8, <2>1, <2>3, <2>4
<1>12. \A k \in i + 1 .. Len(q) : q[k] = r[k + 1]
  BY <1>1, <1>5, <1>8
<1>13. i \in 1 .. Len(r) - 1 /\ Len(q) = Len(r) - 1
  BY <1>1, <1>4, <1>5
<1>14. ChangesOf(os, last, q) = ChangesOf(os, last, r)
  <2>1. Merges(r, q, i)
    BY <1>10, <1>11, <1>12, <1>13 DEF Merges
  <2> QED
    BY <1>4, <1>5, <2>1, ChangesMerged
<1> QED
  BY <1>6, <1>14 DEF Changes

\* Merging neither loses, adds nor reorders a change, whatever the clients send and
\* however long the queue is.
THEOREM OrderKept == Spec => ChangesInOrder
<1> DEFINE Step == \/ Changes' = Changes
                   \/ Changes # << >> /\ Changes' = Tail(Changes)
                   \/ \E p \in client : Changes' = Append(Changes, Label(p))
<1>1. InputInv /\ EntryKnown /\ [Next]_vars => [Step]_vars
  <2> SUFFICES ASSUME InputInv, EntryKnown, Next PROVE Step
    BY DEF vars
  <2>1. ASSUME Remaining' = Remaining, os' = os, last' = last PROVE Step
    BY <2>1 DEF Changes
  <2>2. ASSUME NEW p \in Packets, Receive(p) PROVE Step
    <3>1. p \in client
      BY <2>2 DEF Receive
    <3> QED
      BY <2>2, <3>1, ReceiveInOrder
  <2>3. CASE Push
    BY <2>1, <2>3 DEF Push, Remaining
  <2>4. CASE Pop
    <3>1. CASE queue = << >>
      BY <2>1, <2>4, <3>1 DEF Pop, Remaining
    <3>2. CASE queue # << >>
      <4>1. Remaining = << >> \o queue /\ Remaining' = <<Head(queue)>> \o Tail(queue)
        BY <2>4, <3>2 DEF Pop, Remaining
      <4>2. << >> \o queue = queue /\ <<Head(queue)>> \o Tail(queue) = queue
        BY <3>2, QueueKnown
      <4> QED
        BY <2>1, <2>4, <4>1, <4>2 DEF Pop
    <3> QED
      BY <3>1, <3>2
  <2>5. CASE BatchNext
    <3>1. CASE /\ i \in DOMAIN queue /\ Batch(entry, queue[i]) = "batched"
               /\ entry' = Merged(entry, queue[i]) /\ queue' = Without(queue, i)
               /\ UNCHANGED <<wpc, i>>
      BY <2>5, <3>1, MergeInOrder DEF BatchNext
    <3>2. CASE UNCHANGED <<queue, entry>> /\ wpc' \in {wpc, "send"}
      BY <2>1, <2>5, <3>2 DEF BatchNext, Remaining
    <3> QED
      BY <2>5, <3>1, <3>2 DEF BatchNext
  <2>6. CASE Send
    BY <2>6, SendInOrder
  <2> QED
    BY <2>2, <2>3, <2>4, <2>5, <2>6 DEF Next, ControlThread, PoolThread
<1>2. Init => EntryKnown
  BY DEF Init, EntryKnown
<1>3. Spec => [](InputInv /\ EntryKnown)
  BY <1>2, InputInvariance, EntryKnownStep, PTL DEF Spec
<1>4. [][Step]_vars => ChangesInOrder
  BY DEF ChangesInOrder, Label
<1> QED
  BY <1>1, <1>3, <1>4, PTL DEF Spec
=============================================================================
