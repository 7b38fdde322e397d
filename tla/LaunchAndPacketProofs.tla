----------------------- MODULE LaunchAndPacketProofs -----------------------
(***************************************************************************)
(* What is proved about the two ends of a stream: the pending launch it    *)
(* begins with (LaunchEvent), and the queue and the frames its packets     *)
(* come from (PacketSender).                                               *)
(*                                                                         *)
(* LaunchInv is inductive: for any launches and any connections a pending  *)
(* launch is never overwritten and always has somebody who will take it.   *)
(* RaiseIsSafe is the strengthening that matters: only the HTTPS thread    *)
(* raises, so what session_raise checked still holds when it raises.       *)
(*                                                                         *)
(* QueueInv is inductive: for any sessions and any capacity the handles of *)
(* a queue are those of the threads between a lookup and its end, so the   *)
(* queue that end_broadcast has stopped is gone when it has joined the     *)
(* sender.                                                                 *)
(***************************************************************************)
EXTENDS LaunchEvent, PacketSender, Recursion, SequenceTheorems, TLAPS

(***************************************************************************)
(* The pending launch.                                                     *)
(***************************************************************************)

\* The initial state satisfies the invariant.
LEMMA LaunchInvInitially ==
  LaunchInit => LaunchInv
  BY LaunchAssumption DEF LaunchInit, LaunchInv, LaunchTypeOK, RaiseIsSafe, PendingIsBounded

\* The steps of the HTTPS thread keep the invariant.
LEMMA HttpsStep ==
  ASSUME LaunchInv, Https
  PROVE  LaunchInv'
<1> USE LaunchAssumption DEF LaunchInv, LaunchTypeOK, RaiseIsSafe, PendingIsBounded
<1>1. ASSUME NEW l \in Launches, RaiseCheck(l) PROVE LaunchInv'
  BY <1>1 DEF RaiseCheck, MayRaise
<1>2. CASE Raise
  BY <1>2 DEF Raise
<1>3. CASE RaiseArm
  BY <1>3 DEF RaiseArm, ArmTimer
<1> QED
  BY <1>1, <1>2, <1>3 DEF Https

\* The handlers of the RTSP thread keep the invariant.
LEMMA RtspStep ==
  ASSUME LaunchInv, Rtsp
  PROVE  LaunchInv'
<1> USE LaunchAssumption DEF LaunchInv, LaunchTypeOK, RaiseIsSafe, PendingIsBounded
<1>1. CASE Expire
  BY <1>1 DEF Expire
<1>2. CASE Discard
  BY <1>2 DEF Discard, TakePending
<1>3. ASSUME NEW c \in Conns, Accept(c) PROVE LaunchInv'
  BY <1>3 DEF Accept
<1>4. ASSUME NEW c \in Conns, Refuse(c) PROVE LaunchInv'
  BY <1>4 DEF Refuse
<1>5. ASSUME NEW c \in Conns, Announce(c) PROVE LaunchInv'
  BY <1>5 DEF Announce
<1>6. ASSUME NEW c \in Conns, Push(c) PROVE LaunchInv'
  BY <1>6 DEF Push
<1> QED
  BY <1>1, <1>2, <1>3, <1>4, <1>5, <1>6 DEF Rtsp

\* The steps of the control thread keep the invariant.
LEMMA ControlStep ==
  ASSUME LaunchInv, Control
  PROVE  LaunchInv'
<1> USE LaunchAssumption DEF LaunchInv, LaunchTypeOK, RaiseIsSafe, PendingIsBounded
<1>1. ASSUME NEW c \in Conns, ClearView(c) PROVE LaunchInv'
  BY <1>1 DEF ClearView
<1>2. ASSUME NEW c \in Conns, StreamTimeout(c) PROVE LaunchInv'
  BY <1>2 DEF StreamTimeout
<1>3. CASE ClearCancel
  BY <1>3 DEF ClearCancel
<1>4. CASE ClearPop
  BY <1>4 DEF ClearPop
<1> QED
  BY <1>1, <1>2, <1>3, <1>4 DEF Control

\* Every step keeps the invariant.
LEMMA NextKeepsLaunch ==
  LaunchInv /\ [LaunchNext]_launchVars => LaunchInv'
<1>1. LaunchInv /\ UNCHANGED launchVars => LaunchInv'
  BY DEF LaunchInv, LaunchTypeOK, RaiseIsSafe, PendingIsBounded, launchVars
<1> QED
  BY <1>1, HttpsStep, RtspStep, ControlStep DEF LaunchNext

\* The types, RaiseIsSafe and PendingIsBounded hold always.
THEOREM LaunchInvariance ==
  LaunchSpec => []LaunchInv
  BY LaunchInvInitially, NextKeepsLaunch, PTL DEF LaunchSpec

\* A pending launch always has its timer, session_raise or session_clear.
THEOREM PendingBounded ==
  LaunchSpec => []PendingIsBounded
<1>1. LaunchInv => PendingIsBounded
  BY DEF LaunchInv
<1> QED
  BY <1>1, LaunchInvariance, PTL

\* What session_raise has checked is still true when it raises: no step puts a
\* launch in the place of another one.
THEOREM Overwritten ==
  LaunchSpec => NeverOverwritten
<1> DEFINE Kept == launch # NoLaunch => launch' \in {launch, NoLaunch}
<1>1. LaunchInv /\ [LaunchNext]_launchVars => [Kept]_launchVars
  <2> SUFFICES ASSUME LaunchInv, LaunchNext PROVE Kept
    BY DEF launchVars
  <2> USE DEF LaunchInv, RaiseIsSafe
  <2>1. CASE Https
    BY <2>1 DEF Https, RaiseCheck, Raise, RaiseArm
  <2>2. CASE Rtsp
    BY <2>2 DEF Rtsp, Expire, Discard, TakePending, Accept, Refuse, Announce, Push
  <2>3. CASE Control
    BY <2>3 DEF Control, ClearView, StreamTimeout, ClearCancel, ClearPop
  <2> QED
    BY <2>1, <2>2, <2>3 DEF LaunchNext
<1> QED
  BY <1>1, LaunchInvariance, PTL DEF LaunchSpec, NeverOverwritten

(***************************************************************************)
(* The blocks of a frame.                                                  *)
(***************************************************************************)

\* A block of one packet is larger than the number of blocks (its header alone has 32
\* bytes), and a client asks for at most three parity shards; Moonlight asks for two.
UsualSizes == BlockSize > MAX_FEC_BLOCKS /\ Minimums \subseteq 0..3

\* Division rounds down.
LEMMA DivFacts ==
  ASSUME NEW n \in Nat, NEW d \in Nat \ {0}
  PROVE  n \div d \in Nat /\ (n \div d) * d <= n /\ n <= (n \div d) * d + (d - 1)
<1>1. n \div d \in Int /\ n \div d >= 0
  BY Z3
<1>2. (n \div d) * d <= n
  BY Z3
<1>3. n <= (n \div d) * d + (d - 1)
  BY Z3
<1>4. QED
  BY <1>1, <1>2, <1>3

\* A product grows with its factor.
LEMMA TimesMonotone ==
  ASSUME NEW a \in Int, NEW b \in Int, NEW d \in Nat, a <= b
  PROVE  a * d <= b * d
<1>1. (b - a) * d >= 0
  OBVIOUS
<1>2. QED
  BY <1>1

\* UpTo(n, d) pieces of size d hold n, and one less does not.
LEMMA UpToFacts ==
  ASSUME NEW n \in Nat, NEW d \in Nat \ {0}
  PROVE  /\ UpTo(n, d) \in Nat
         /\ n <= UpTo(n, d) * d /\ UpTo(n, d) * d < n + d
         /\ n > 0 => UpTo(n, d) > 0
<1> DEFINE k == (n + (d - 1)) \div d
<1>1. n + (d - 1) \in Nat
  OBVIOUS
<1>2. k \in Nat /\ k * d <= n + (d - 1) /\ n + (d - 1) <= k * d + (d - 1)
  BY <1>1, DivFacts
<1>3. k = 0 => k * d = 0
  BY <1>2
<1>4. UpTo(n, d) = k
  BY DEF UpTo
<1> HIDE DEF k
<1>5. QED
  BY <1>2, <1>3, <1>4

\* What fits m pieces needs no more than m.
LEMMA UpToBound ==
  ASSUME NEW n \in Nat, NEW d \in Nat \ {0}, NEW m \in Nat, n <= m * d
  PROVE  UpTo(n, d) <= m
<1> DEFINE k == UpTo(n, d)
<1>1. k \in Nat /\ k * d < n + d
  BY UpToFacts
<1> HIDE DEF k
<1>2. ASSUME m + 1 <= k PROVE FALSE
  <2>1. (m + 1) * d <= k * d
    BY <1>1, <1>2, TimesMonotone
  <2>2. (m + 1) * d = m * d + d
    OBVIOUS
  <2>3. QED
    BY <1>1, <2>1, <2>2
<1>3. k <= m
  BY <1>1, <1>2
<1>4. QED
  BY <1>3 DEF k

\* The data shards of a block: D * (100 + F) <= 255 * 100, and never fewer than 71.
LEMMA MaxDataFacts ==
  ASSUME NEW p \in 1..255
  PROVE  /\ MaxDataShards(p) \in Nat /\ MaxDataShards(p) >= 71 /\ MaxDataShards(p) <= 252
         /\ MaxDataShards(p) * (100 + p) <= 25500
<1> DEFINE n == DATA_SHARDS_MAX * 100
           d == 100 + p
           m == n \div d
<1>0. n \in Nat /\ d \in Nat \ {0}
  BY DEF DATA_SHARDS_MAX
<1>1. n = 25500 /\ d = 100 + p
  BY DEF DATA_SHARDS_MAX
<1>2. MaxDataShards(p) = m
  BY DEF MaxDataShards
<1> HIDE DEF n, d
<1>3. m \in Nat /\ m * d <= n /\ n <= m * d + (d - 1)
  BY <1>0, DivFacts
<1> HIDE DEF m
<1>4. m * 101 <= m * d /\ m * d <= m * 355
  <2>1. m * d - m * 101 = m * (p - 1) /\ m * 355 - m * d = m * (255 - p)
    BY <1>1, <1>3
  <2>2. p - 1 \in Nat /\ 255 - p \in Nat
    OBVIOUS
  <2>3. 0 * (p - 1) <= m * (p - 1) /\ 0 * (255 - p) <= m * (255 - p)
    BY <1>3, <2>2, TimesMonotone
  <2>4. QED
    BY <1>0, <1>1, <1>3, <2>1, <2>2, <2>3
<1>5. m >= 71 /\ m <= 252
  BY <1>1, <1>3, <1>4
<1>6. QED
  BY <1>1, <1>2, <1>3, <1>5

\* With its parity shards a block stays within what Reed-Solomon can do.
LEMMA EncodeFits ==
  ASSUME UsualSizes, BlockSize \in Nat \ {0}, NEW p \in 1..255, NEW minimum \in Minimums,
         NEW size \in Nat \ {0}, size <= MaxDataShards(p) * BlockSize
  PROVE  LET fec == EncodeFec(size, p, minimum)
         IN  fec.data + fec.parity <= DATA_SHARDS_MAX
<1> DEFINE data == UpTo(size, BlockSize)
           part == data * p + 99
           whole == 100
           parity == part \div whole
<1>1. /\ MaxDataShards(p) \in Nat /\ MaxDataShards(p) <= 252
      /\ MaxDataShards(p) * (100 + p) <= 25500
  BY MaxDataFacts
<1>2. data \in Nat /\ data <= MaxDataShards(p)
  <2>1. MaxDataShards(p) \in Nat
    BY <1>1
  <2>2. UpTo(size, BlockSize) <= MaxDataShards(p)
    BY <2>1, UpToBound
  <2>3. UpTo(size, BlockSize) \in Nat
    BY UpToFacts
  <2>4. QED
    BY <2>2, <2>3
<1>3. minimum \in 0..3
  BY DEF UsualSizes
<1>4. EncodeFec(size, p, minimum).data = data
      /\ EncodeFec(size, p, minimum).parity = IF parity < minimum THEN minimum ELSE parity
  BY DEF EncodeFec, ParityShards
<1> HIDE DEF data
<1>5. data * (100 + p) <= 25500
  <2>1. data * (100 + p) <= MaxDataShards(p) * (100 + p)
    BY <1>1, <1>2, TimesMonotone
  <2>2. QED
    BY <1>1, <1>2, <2>1
<1>6. data * (100 + p) = 100 * data + data * p /\ data * p \in Nat
  BY <1>2
<1>7. parity \in Nat /\ parity * 100 <= data * p + 99
  <2>1. part \in Nat /\ whole \in Nat \ {0} /\ whole = 100 /\ part = data * p + 99
    BY <1>6
  <2> HIDE DEF part, whole
  <2>2. QED
    BY <2>1, DivFacts
<1> HIDE DEF parity
<1>8. data + parity <= 255
  BY <1>2, <1>5, <1>6, <1>7
<1>9. QED
  BY <1>1, <1>2, <1>3, <1>4, <1>8 DEF DATA_SHARDS_MAX

\* The arithmetic of the split, with the size a of a block, the bytes l that a block may
\* have and the number b of blocks: all blocks but the last are full, and the last has
\* what is left of them.
LEMMA SplitSizes ==
  ASSUME NEW size \in Nat, NEW q \in Nat, NEW a \in Nat, NEW l \in Nat, NEW b \in 1..4, NEW bs \in Nat,
         bs > 4, 71 * bs <= l, b * q <= size, size <= b * q + (b - 1),
         q <= a, a < q + bs, (b - 1) * l < size
  PROVE  /\ (size > 0 => a > 0) /\ \A x \in 0..(b - 1) : x * a < size
         /\ size <= b * l => q <= l
         /\ size <= b * l /\ (a = q => a = l \/ a + bs <= l) => size - (b - 1) * a <= l
<1>1. CASE b = 1
  BY <1>1
<1>2. CASE b = 2
  BY <1>2
<1>3. CASE b = 3
  BY <1>3
<1>4. CASE b = 4
  BY <1>4
<1>5. QED
  BY <1>1, <1>2, <1>3, <1>4

\* A multiple leaves nothing over.
LEMMA ModFacts ==
  ASSUME NEW k \in Nat, NEW d \in Nat \ {0}
  PROVE  (k * d) % d = 0
  BY Z3

\* The smaller of two numbers.
LEMMA MinFacts ==
  ASSUME NEW a \in Int, NEW b \in Int
  PROVE  Min({a, b}) = IF a <= b THEN a ELSE b
<1>1. \E x \in {a, b} : \A y \in {a, b} : x <= y
  <2>1. CASE a <= b
    BY <2>1
  <2>2. CASE ~(a <= b)
    BY <2>2
  <2>3. QED
    BY <2>1, <2>2
<1>2. Min({a, b}) \in {a, b} /\ \A y \in {a, b} : Min({a, b}) <= y
  BY <1>1, Zenon DEF Min
<1>3. QED
  BY <1>2

\* Every frame is split into blocks that are not empty and, unless FEC is off, have no
\* more data shards than their parity shards leave room for.
LEMMA SplitFits ==
  ASSUME BlockSize \in Nat, BlockSize > MAX_FEC_BLOCKS, NEW p \in 1..255, NEW size \in Nat \ {0}
  PROVE  LET split == Split(size, p)
         IN  /\ split.blocks \in 1..MAX_FEC_BLOCKS /\ split.aligned % BlockSize = 0
             /\ split.percentage \in {0, p}
             /\ \A x \in 0..(split.blocks - 1) :
                  /\ Block(size, split, x) \in Nat \ {0}
                  /\ split.percentage # 0 => Block(size, split, x) <= MaxDataShards(p) * BlockSize
<1> DEFINE m == MaxDataShards(p)
           l == m * BlockSize
           needed == UpTo(size, l)
           b == Split(size, p).blocks
           q == size \div b
           k == UpTo(q, BlockSize)
           a == k * BlockSize
<1>1. BlockSize \in Nat \ {0} /\ BlockSize > 4
  BY DEF MAX_FEC_BLOCKS
<1>2. /\ b = IF needed > 4 THEN 4 ELSE needed
      /\ Split(size, p).percentage = IF needed > 4 THEN 0 ELSE p
      /\ Split(size, p).aligned = a
  <2> DEFINE blocks == IF needed > 4 THEN 4 ELSE needed
  <2>1. Split(size, p) = [blocks |-> blocks, percentage |-> IF needed > 4 THEN 0 ELSE p,
                          aligned |-> UpTo(size \div blocks, BlockSize) * BlockSize]
    BY Zenon DEF Split, MAX_FEC_BLOCKS
  <2> HIDE DEF needed
  <2>2. b = blocks
    BY <2>1
  <2>3. QED
    BY <2>1, <2>2
<1>3. m \in Nat /\ m >= 71
  BY MaxDataFacts
<1> HIDE DEF m
<1>4. 71 * BlockSize <= l /\ l \in Nat \ {0}
  BY <1>1, <1>3, TimesMonotone
<1> HIDE DEF l
<1>5. needed \in Nat \ {0} /\ size <= needed * l /\ needed * l < size + l
  BY <1>4, UpToFacts
<1> HIDE DEF needed, b
<1>6. b \in 1..4
  BY <1>2, <1>5
<1>7. (b - 1) * l < size /\ (needed <= 4 => size <= b * l)
  <2>1. (needed - 1) * l = needed * l - l
    BY <1>4, <1>5
  <2>2. (b - 1) * l <= (needed - 1) * l
    BY <1>2, <1>4, <1>5, <1>6, TimesMonotone
  <2>3. needed * l \in Nat /\ (b - 1) * l \in Int
    BY <1>4, <1>5, <1>6
  <2>4. QED
    BY <1>2, <1>4, <1>5, <2>1, <2>2, <2>3
<1>8. q \in Nat /\ q * b <= size /\ size <= q * b + (b - 1)
  <2>1. b \in Nat \ {0} /\ size \in Nat
    BY <1>6
  <2>2. QED
    BY ONLY <2>1, DivFacts
<1>9. q * b = b * q
  BY <1>6, <1>8
<1> HIDE DEF q
<1>10. k \in Nat /\ q <= a /\ a < q + BlockSize
  BY <1>1, <1>8, UpToFacts
<1>11. a \in Nat
  BY <1>1, <1>10
<1>12. l \in Nat
  BY <1>4
<1>13. a = q /\ q <= l => a = l \/ a + BlockSize <= l
  <2>1. CASE k + 1 <= m
    <3>1. (k + 1) * BlockSize <= l
      BY <1>1, <1>3, <1>10, <2>1, TimesMonotone DEF l
    <3>2. (k + 1) * BlockSize = a + BlockSize
      BY <1>1, <1>10
    <3>3. QED
      BY <3>1, <3>2
  <2>2. CASE m <= k
    <3>1. l <= a
      BY <1>1, <1>3, <1>10, <2>2, TimesMonotone DEF l
    <3>2. QED
      BY <1>8, <1>11, <1>12, <3>1
  <2>3. QED
    BY <1>3, <1>10, <2>1, <2>2
<1>14. ASSUME needed <= 4 PROVE a <= l
  <2>1. q <= m * BlockSize
    BY <1>1, <1>4, <1>6, <1>7, <1>8, <1>9, <1>10, <1>11, <1>12, <1>14, SplitSizes DEF l
  <2>2. k <= m
    BY <1>1, <1>3, <1>8, <2>1, UpToBound
  <2>3. QED
    BY <1>1, <1>3, <1>10, <2>2, TimesMonotone DEF l
<1> HIDE DEF k, a
<1>15. /\ a > 0 /\ \A x \in 0..(b - 1) : x * a < size
       /\ needed <= 4 => q <= l /\ size - (b - 1) * a <= l
  <2>1. /\ (size > 0 => a > 0) /\ \A x \in 0..(b - 1) : x * a < size
        /\ size <= b * l => q <= l
        /\ size <= b * l /\ (a = q => a = l \/ a + BlockSize <= l) => size - (b - 1) * a <= l
    BY <1>1, <1>4, <1>6, <1>7, <1>8, <1>9, <1>10, <1>11, <1>12, SplitSizes
  <2>2. QED
    BY <1>7, <1>13, <2>1
<1>16. ASSUME NEW x \in 0..(b - 1)
       PROVE  /\ Block(size, Split(size, p), x) \in Nat \ {0}
              /\ needed <= 4 => Block(size, Split(size, p), x) <= l
  <2>1. x * a \in Nat /\ x * a < size
    BY <1>6, <1>11, <1>15
  <2>2. CASE x = b - 1
    <3>1. Block(size, Split(size, p), x) = size - x * a
      BY <1>2, <2>2 DEF Block, b
    <3>2. QED
      BY <1>6, <1>11, <1>12, <1>15, <2>1, <2>2, <3>1
  <2>3. CASE x # b - 1
    <3>1. Block(size, Split(size, p), x) = Min({a, size - x * a})
      BY <1>2, <2>3 DEF Block, b
    <3>2. Block(size, Split(size, p), x) = IF a <= size - x * a THEN a ELSE size - x * a
      BY <1>11, <2>1, <3>1, MinFacts
    <3>3. QED
      BY <1>11, <1>12, <1>14, <1>15, <2>1, <3>2
  <2>4. QED
    BY <2>2, <2>3
<1>17. a % BlockSize = 0
  BY <1>1, <1>10, ModFacts DEF a
<1>18. QED
  BY <1>2, <1>5, <1>6, <1>16, <1>17 DEF b, l, m, MAX_FEC_BLOCKS

\* Frames of every size, with every percentage, fall into blocks that Reed-Solomon and
\* the header can number.
THEOREM EveryFrameFits ==
  ASSUME UsualSizes
  PROVE  BlocksFit
<1>1. BlockSize \in Nat \ {0} /\ BlockSize > MAX_FEC_BLOCKS
  BY VideoFramesAssumption DEF UsualSizes, VideoFramesAssumption, MAX_FEC_BLOCKS
<1>2. SUFFICES ASSUME NEW size \in 1..MaxFrame, NEW percentage \in Percentages
               PROVE  LET split == Split(size, percentage)
                      IN  /\ split.blocks \in 1..MAX_FEC_BLOCKS
                          /\ split.aligned % BlockSize = 0
                          /\ \A x \in 0..(split.blocks - 1) :
                               /\ Block(size, split, x) > 0
                               /\ split.percentage # 0 => \A minimum \in Minimums :
                                    LET fec == EncodeFec(Block(size, split, x), split.percentage, minimum)
                                    IN  fec.data + fec.parity <= DATA_SHARDS_MAX
  BY DEF BlocksFit
<1>3. size \in Nat \ {0} /\ percentage \in 1..255
  BY VideoFramesAssumption DEF VideoFramesAssumption
<1> DEFINE split == Split(size, percentage)
<1>4. /\ split.blocks \in 1..MAX_FEC_BLOCKS /\ split.aligned % BlockSize = 0
      /\ split.percentage \in {0, percentage}
      /\ \A x \in 0..(split.blocks - 1) :
           /\ Block(size, split, x) \in Nat \ {0}
           /\ split.percentage # 0 => Block(size, split, x) <= MaxDataShards(percentage) * BlockSize
  BY <1>1, <1>3, SplitFits, Zenon
<1> HIDE DEF split
<1>5. ASSUME NEW x \in 0..(split.blocks - 1), split.percentage # 0, NEW minimum \in Minimums
      PROVE  LET fec == EncodeFec(Block(size, split, x), split.percentage, minimum)
             IN  fec.data + fec.parity <= DATA_SHARDS_MAX
  <2>1. split.percentage = percentage /\ Block(size, split, x) \in Nat \ {0}
        /\ Block(size, split, x) <= MaxDataShards(percentage) * BlockSize
    BY <1>4, <1>5
  <2>2. QED
    BY <1>1, <1>3, <2>1, EncodeFits
<1>6. ASSUME NEW x \in 0..(split.blocks - 1) PROVE Block(size, split, x) > 0
  BY <1>4
<1>7. QED
  BY <1>4, <1>5, <1>6 DEF split

\* So does every frame the sender takes, whatever else happens.
THEOREM FramesAlwaysFit ==
  ASSUME UsualSizes
  PROVE  Spec => []FramesFit
<1>1. FramesFit
  BY EveryFrameFits DEF FramesFit
<1>2. QED
  BY <1>1, PTL

(***************************************************************************)
(* The headers of the shards.                                              *)
(***************************************************************************)

\* A number has twice its half, and one more if it is odd.
LEMMA HalfFacts ==
  ASSUME NEW n \in Nat
  PROVE  n \div 2 \in Nat /\ n = 2 * (n \div 2) + (IF n % 2 = 1 THEN 1 ELSE 0)
  BY Z3

\* Halving once more divides by twice as much.
LEMMA HalfAgain ==
  ASSUME NEW n \in Nat
  PROVE  /\ n \div 1 = n /\ (n \div 2) \div 2 = n \div 4 /\ (n \div 4) \div 2 = n \div 8
         /\ (n \div 8) \div 2 = n \div 16 /\ (n \div 16) \div 2 = n \div 32
         /\ (n \div 32) \div 2 = n \div 64 /\ (n \div 64) \div 2 = n \div 128
         /\ (n \div 128) \div 2 = n \div 256 /\ (n \div 256) \div 2 = n \div 512
         /\ n < 1024 => n \div 512 \in {0, 1}
<1>1. n \div 1 = n /\ (n \div 2) \div 2 = n \div 4 /\ (n \div 4) \div 2 = n \div 8
  BY Z3
<1>2. (n \div 8) \div 2 = n \div 16 /\ (n \div 16) \div 2 = n \div 32
  BY Z3
<1>3. (n \div 32) \div 2 = n \div 64 /\ (n \div 64) \div 2 = n \div 128
  BY Z3
<1>4. (n \div 128) \div 2 = n \div 256 /\ (n \div 256) \div 2 = n \div 512
  BY Z3
<1>5. n < 1024 => n \div 512 \in {0, 1}
  BY Z3
<1> QED
  BY <1>1, <1>2, <1>3, <1>4, <1>5

\* Or finds all ten bits.
LEMMA OrZero ==
  ASSUME NEW a \in 0..1023
  PROVE  Or(a, 0) = a
<1> DEFINE d(w) == a \div w
           c(w) == IF d(w) % 2 = 1 THEN 1 ELSE 0
<1>1. \A w \in {1, 2, 4, 8, 16, 32, 64, 128, 256, 512} : (0 \div w) % 2 # 1
  BY Z3
<1>2. Or(a, 0) = 1 * c(1) + 2 * c(2) + 4 * c(4) + 8 * c(8) + 16 * c(16) + 32 * c(32)
                   + 64 * c(64) + 128 * c(128) + 256 * c(256) + 512 * c(512)
  <2>1. \A w \in {1, 2, 4, 8, 16, 32, 64, 128, 256, 512} : w * c(w) = IF d(w) % 2 = 1 THEN w ELSE 0
    OBVIOUS
  <2> HIDE DEF c
  <2> QED
    BY <1>1, <2>1 DEF Or
<1>3. d(1) = a /\ d(512) \in {0, 1}
  BY HalfAgain
<1>4. c(512) = d(512) /\ \A w \in {1, 2, 4, 8, 16, 32, 64, 128, 256, 512} : c(w) \in {0, 1}
  BY <1>3
<1>5. d(1) \in Nat
  BY <1>3
<1>6. d(2) \in Nat /\ d(1) = 2 * d(2) + c(1)
  <2>1. d(2) = d(1) \div 2
    BY HalfAgain
  <2> HIDE DEF d
  <2> QED
    BY <1>5, <2>1, HalfFacts
<1>7. d(4) \in Nat /\ d(2) = 2 * d(4) + c(2)
  <2>1. d(4) = d(2) \div 2
    BY HalfAgain
  <2> HIDE DEF d
  <2> QED
    BY <1>6, <2>1, HalfFacts
<1>8. d(8) \in Nat /\ d(4) = 2 * d(8) + c(4)
  <2>1. d(8) = d(4) \div 2
    BY HalfAgain
  <2> HIDE DEF d
  <2> QED
    BY <1>7, <2>1, HalfFacts
<1>9. d(16) \in Nat /\ d(8) = 2 * d(16) + c(8)
  <2>1. d(16) = d(8) \div 2
    BY HalfAgain
  <2> HIDE DEF d
  <2> QED
    BY <1>8, <2>1, HalfFacts
<1>10. d(32) \in Nat /\ d(16) = 2 * d(32) + c(16)
  <2>1. d(32) = d(16) \div 2
    BY HalfAgain
  <2> HIDE DEF d
  <2> QED
    BY <1>9, <2>1, HalfFacts
<1>11. d(64) \in Nat /\ d(32) = 2 * d(64) + c(32)
  <2>1. d(64) = d(32) \div 2
    BY HalfAgain
  <2> HIDE DEF d
  <2> QED
    BY <1>10, <2>1, HalfFacts
<1>12. d(128) \in Nat /\ d(64) = 2 * d(128) + c(64)
  <2>1. d(128) = d(64) \div 2
    BY HalfAgain
  <2> HIDE DEF d
  <2> QED
    BY <1>11, <2>1, HalfFacts
<1>13. d(256) \in Nat /\ d(128) = 2 * d(256) + c(128)
  <2>1. d(256) = d(128) \div 2
    BY HalfAgain
  <2> HIDE DEF d
  <2> QED
    BY <1>12, <2>1, HalfFacts
<1>14. d(512) \in Nat /\ d(256) = 2 * d(512) + c(256)
  <2>1. d(512) = d(256) \div 2
    BY HalfAgain
  <2> HIDE DEF d
  <2> QED
    BY <1>13, <2>1, HalfFacts
<1> HIDE DEF c, d
<1>15. /\ c(1) \in Int /\ c(2) \in Int /\ c(4) \in Int /\ c(8) \in Int /\ c(16) \in Int
       /\ c(32) \in Int /\ c(64) \in Int /\ c(128) \in Int /\ c(256) \in Int /\ c(512) \in Int
  BY <1>4
<1>16. d(1) = c(1) + 2 * c(2) + 4 * c(4) + 8 * c(8) + 16 * d(16)
  BY <1>5, <1>6, <1>7, <1>8, <1>9, <1>15
<1>17. d(16) = c(16) + 2 * c(32) + 4 * c(64) + 8 * c(128) + 16 * d(256)
  BY <1>9, <1>10, <1>11, <1>12, <1>13, <1>15
<1>18. d(256) = c(256) + 2 * c(512)
  BY <1>4, <1>14, <1>15
<1> QED
  BY <1>2, <1>3, <1>13, <1>15, <1>16, <1>17, <1>18

\* Whole packets need as many shards.
LEMMA UpToWhole ==
  ASSUME NEW k \in Nat, NEW d \in Nat \ {0}
  PROVE  UpTo(k * d, d) = k
<1> DEFINE u == UpTo(k * d, d)
<1>1. k * d \in Nat
  OBVIOUS
<1>2. u \in Nat /\ k * d <= u * d /\ u * d < k * d + d
  BY <1>1, UpToFacts
<1> HIDE DEF u
<1>3. ASSUME u + 1 <= k PROVE FALSE
  <2>1. (u + 1) * d <= k * d
    BY <1>2, <1>3, TimesMonotone
  <2> QED
    BY <1>2, <2>1
<1>4. ASSUME k + 1 <= u PROVE FALSE
  <2>1. (k + 1) * d <= u * d
    BY <1>2, <1>4, TimesMonotone
  <2> QED
    BY <1>2, <2>1
<1>5. u = k
  BY <1>2, <1>3, <1>4
<1> QED
  BY <1>5 DEF u

\* Dividing gives q if what is divided is q times d and less than one d more.
LEMMA DivIs ==
  ASSUME NEW n \in Nat, NEW d \in Nat \ {0}, NEW q \in Nat, q * d <= n, n < q * d + d
  PROVE  n \div d = q
  BY Z3

\* Two parity shards are what the raised percentage asks for.
LEMMA RaisedDecodes ==
  ASSUME NEW data \in 1..100
  PROVE  (100 * 2) \div data \in 2..200 /\ ParityShards(data, (100 * 2) \div data) = 2
<1> DEFINE q == 200 \div data
<1>1. q \in Nat /\ q * data <= 200 /\ 200 <= q * data + (data - 1)
  BY DivFacts
<1> HIDE DEF q
<1>2. q >= 2 /\ q <= 200
  <2>1. ASSUME q <= 1 PROVE FALSE
    <3>1. q * data <= 1 * data
      BY <1>1, <2>1, TimesMonotone
    <3> QED
      BY <1>1, <3>1
  <2>2. q * 1 <= q * data
    <3>1. q * data - q * 1 = (data - 1) * q /\ 0 * q <= (data - 1) * q
      BY <1>1, TimesMonotone
    <3> QED
      BY <1>1, <3>1
  <2> QED
    BY <1>1, <2>1, <2>2
<1>3. data * q = q * data
  BY <1>1
<1>4. data * q + 99 \in Nat /\ 2 * 100 <= data * q + 99 /\ data * q + 99 < 2 * 100 + 100
  BY <1>1, <1>3
<1>5. (data * q + 99) \div 100 = 2
  <2> DEFINE n == data * q + 99
  <2>1. n \in Nat /\ 2 * 100 <= n /\ n < 2 * 100 + 100
    BY <1>4
  <2> HIDE DEF n
  <2>2. n \div 100 = 2
    BY <2>1, DivIs
  <2> QED
    BY <2>2 DEF n
<1>6. 100 * 2 = 200
  OBVIOUS
<1> QED
  BY <1>1, <1>2, <1>5, <1>6 DEF q, ParityShards

\* The parity shards of a block of so many data shards follow from the percentage.
Decodes(data, fec) ==
  /\ fec.data = data /\ fec.parity \in Nat \ {0} /\ fec.percentage \in 1..255
  /\ data + fec.parity <= 255
  /\ ParityShards(data, fec.percentage) = fec.parity

\* So it is in what fec::encode computes, with a minimum of at most two.
LEMMA EncodeDecodes ==
  ASSUME UsualSizes, BlockSize \in Nat \ {0}, NEW p \in 1..255,
         NEW minimum \in Minimums, minimum \in 0..2, NEW data \in 1..MaxDataShards(p)
  PROVE  Decodes(data, EncodeFec(data * BlockSize, p, minimum))
<1> DEFINE fec == EncodeFec(data * BlockSize, p, minimum)
           parity == ParityShards(data, p)
<1>1. MaxDataShards(p) \in Nat /\ data \in Nat \ {0} /\ data <= MaxDataShards(p)
  BY MaxDataFacts
<1>2. UpTo(data * BlockSize, BlockSize) = data
  BY <1>1, UpToWhole
<1>3. fec = IF parity < minimum
            THEN [data |-> data, parity |-> minimum, percentage |-> (100 * minimum) \div data]
            ELSE [data |-> data, parity |-> parity, percentage |-> p]
  BY <1>2 DEF EncodeFec
<1>4. data + fec.parity <= 255
  <2>1. data * BlockSize \in Nat \ {0} /\ data * BlockSize <= MaxDataShards(p) * BlockSize
    BY <1>1, TimesMonotone
  <2>2. fec.data + fec.parity <= DATA_SHARDS_MAX
    BY <2>1, EncodeFits
  <2>3. fec.data = data
    BY <1>3
  <2> QED
    BY <2>2, <2>3 DEF DATA_SHARDS_MAX
<1>5. parity \in Nat \ {0} /\ data * p <= parity * 100
  <2> DEFINE n == data * p + 99
  <2>1. data * p \in Nat /\ data * p >= 1
    <3>1. 1 * p <= data * p
      BY <1>1, TimesMonotone
    <3> QED
      BY <1>1, <3>1
  <2>2. n \in Nat /\ n >= 100
    BY <2>1
  <2> HIDE DEF n
  <2>3. n \div 100 \in Nat /\ (n \div 100) * 100 <= n /\ n <= (n \div 100) * 100 + 99
    BY <2>2, Z3
  <2>4. parity = n \div 100
    BY DEF ParityShards, n
  <2> HIDE DEF parity
  <2> QED
    BY <2>1, <2>2, <2>3, <2>4 DEF n
<1> HIDE DEF fec, parity
<1>6. CASE parity < minimum
  <2>1. parity = 1 /\ minimum = 2
    BY <1>5, <1>6
  <2>2. data \in 1..100
    <3>1. data * 1 <= data * p
      <4>1. data * p - data * 1 = (p - 1) * data /\ 0 * data <= (p - 1) * data
        BY <1>1, TimesMonotone
      <4> QED
        BY <1>1, <4>1
    <3> QED
      BY <1>1, <1>5, <2>1, <3>1
  <2>3. (100 * 2) \div data \in 2..200 /\ ParityShards(data, (100 * 2) \div data) = 2
    BY <2>2, RaisedDecodes
  <2>4. fec = [data |-> data, parity |-> 2, percentage |-> (100 * 2) \div data]
    BY <1>3, <1>6, <2>1
  <2>5. fec.parity = 2 /\ fec.percentage = (100 * 2) \div data
    BY <2>4
  <2> QED
    BY <1>4, <2>3, <2>4, <2>5 DEF Decodes, fec
<1>7. CASE ~(parity < minimum)
  <2>1. fec = [data |-> data, parity |-> parity, percentage |-> p]
    BY <1>3, <1>7
  <2>2. fec.parity = parity /\ fec.percentage = p
    BY <2>1
  <2>3. ParityShards(data, p) = parity
    BY DEF parity
  <2> QED
    BY <1>4, <1>5, <2>1, <2>2, <2>3 DEF Decodes, fec
<1> QED
  BY <1>6, <1>7

\* What fits into a field is not cut off and leaves the field to its left alone.
LEMMA FieldFits ==
  ASSUME NEW n \in Nat, NEW d \in Nat, n < d
  PROVE  n % d = n /\ n \div d = 0
  BY Z3

\* The header of a shard says what it shall, within its bits.
FieldsFit(x, fec) == x \in 0..1023 /\ fec.data \in 0..1023 /\ fec.percentage \in 0..255

LEMMA HeaderSays ==
  ASSUME NEW x, NEW fec, FieldsFit(x, fec)
  PROVE  FecInfo(x, fec) = [percentage |-> fec.percentage, index |-> x, data |-> fec.data]
<1> DEFINE data == fec.data
           percentage == fec.percentage
<1>0. x \in 0..1023 /\ data \in 0..1023 /\ percentage \in 0..255
  BY DEF FieldsFit
<1> HIDE DEF data, percentage
<1>1. /\ percentage % 256 = percentage /\ percentage \div 256 = 0 /\ 0 % 1024 = 0
      /\ x % 1024 = x /\ x \div 1024 = 0 /\ data % 1024 = data
  <2>1. /\ percentage \in Nat /\ percentage < 256 /\ 0 \in Nat /\ 0 < 1024
        /\ x \in Nat /\ x < 1024 /\ data \in Nat /\ data < 1024
    BY <1>0
  <2> QED
    BY <2>1, FieldFits
<1>2. Or(x, 0) = x /\ Or(data, 0) = data
  <2>1. x \in 0..1023
    BY <1>0
  <2>2. Or(x, 0) = x
    BY <2>1, OrZero
  <2>3. data \in 0..1023
    BY <1>0
  <2>4. Or(data, 0) = data
    BY <2>3, OrZero
  <2> QED
    BY <2>2, <2>4
<1> QED
  BY <1>1, <1>2 DEF FecInfo, data, percentage

\* The client asks for at most two parity shards, as Moonlight does.
FewParity == Minimums \subseteq 0..2

\* Whatever the block and the percentage, the client can tell data from parity.
THEOREM HeadersAlwaysDecode ==
  ASSUME UsualSizes, FewParity
  PROVE  HeadersDecode
<1>1. BlockSize \in Nat \ {0}
  BY VideoFramesAssumption DEF UsualSizes, VideoFramesAssumption, MAX_FEC_BLOCKS
<1>2. SUFFICES ASSUME NEW percentage \in 1..255, NEW minimum \in Minimums,
                      NEW data \in 1..MaxDataShards(percentage)
               PROVE  LET fec == EncodeFec(data * BlockSize, percentage, minimum)
                      IN  /\ \A x \in {0, data - 1, data + fec.parity - 1} :
                               FecInfo(x, fec) = [percentage |-> fec.percentage, index |-> x, data |-> data]
                          /\ ParityShards(data, fec.percentage) = fec.parity
  BY Zenon DEF HeadersDecode
<1> DEFINE fec == EncodeFec(data * BlockSize, percentage, minimum)
<1>3. minimum \in 0..2
  BY DEF FewParity
<1>4. Decodes(data, fec)
  BY <1>1, <1>3, EncodeDecodes
<1> HIDE DEF fec
<1>5. data \in Nat \ {0}
  BY MaxDataFacts
<1>6. ASSUME NEW x \in {0, data - 1, data + fec.parity - 1}
      PROVE  FecInfo(x, fec) = [percentage |-> fec.percentage, index |-> x, data |-> data]
  <2> DEFINE parity == fec.parity
             data2 == fec.data
             percentage2 == fec.percentage
  <2>1. /\ parity \in Nat \ {0} /\ data + parity <= 255 /\ x \in {0, data - 1, data + parity - 1}
        /\ percentage2 \in 1..255 /\ data2 = data
    BY <1>4, <1>6, Zenon DEF Decodes
  <2>2. FieldsFit(x, fec)
    <3>1. x \in 0..1023 /\ data2 \in 0..1023 /\ percentage2 \in 0..255
      <4> HIDE DEF parity, percentage2, data2
      <4> QED
        BY <1>5, <2>1
    <3> QED
      BY <3>1, Zenon DEF FieldsFit
  <2>3. FecInfo(x, fec) = [percentage |-> percentage2, index |-> x, data |-> data2]
    BY <2>2, HeaderSays
  <2> QED
    BY <2>1, <2>3, Zenon
<1> QED
  BY <1>4, <1>6, Zenon DEF Decodes, fec

(***************************************************************************)
(* The batches.                                                            *)
(***************************************************************************)

\* What the loop does with shard x.
BatchOf(s, x, shards) ==
  LET count == (x - 1) - s.next + 1
  IN  IF count >= SendBatchSize \/ x = shards
      THEN [next |-> x, sent |-> Append(s.sent, <<s.next, count>>)]
      ELSE s

\* Batches that follow each other from 0 up to some shard, none empty, none too large.
Chain(sent, from, size) ==
  /\ IF sent = << >> THEN from = 0 ELSE sent[1][1] = 0
  /\ \A k \in 1..Len(sent) :
       /\ sent[k][2] \in 1..size
       /\ sent[k][1] + sent[k][2] = IF k = Len(sent) THEN from ELSE sent[k + 1][1]

\* What is not sent yet is less than a batch, and nothing after the last shard.
BatchState == [next : Nat, sent : Seq(Nat \X Nat)]
BatchInv(s, x, shards) ==
  /\ s.next <= x /\ (IF x = shards THEN s.next = x ELSE x - s.next < SendBatchSize)
  /\ Chain(s.sent, s.next, SendBatchSize)

\* Appending a batch that begins where the last has ended.
LEMMA BatchSent ==
  ASSUME NEW sent \in Seq(Nat \X Nat), NEW from \in Nat, NEW n \in Nat, NEW size \in Nat, n \in 1..size,
         Chain(sent, from, size)
  PROVE  /\ Append(sent, <<from, n>>) \in Seq(Nat \X Nat) /\ Append(sent, <<from, n>>) # << >>
         /\ Chain(Append(sent, <<from, n>>), from + n, size)
<1>0. /\ IF sent = << >> THEN from = 0 ELSE sent[1][1] = 0
      /\ \A k \in 1..Len(sent) :
           /\ sent[k][2] \in 1..size
           /\ sent[k][1] + sent[k][2] = IF k = Len(sent) THEN from ELSE sent[k + 1][1]
  BY DEF Chain
<1> DEFINE l == Len(sent)
           new == Append(sent, <<from, n>>)
<1>1. l \in Nat /\ Len(new) = l + 1 /\ new \in Seq(Nat \X Nat) /\ new # << >>
      /\ new[l + 1] = <<from, n>> /\ \A k \in 1..l : new[k] = sent[k]
  <2> DEFINE e == <<from, n>>
  <2>1. e \in Nat \X Nat
    OBVIOUS
  <2> HIDE DEF e
  <2>2. /\ Append(sent, e) \in Seq(Nat \X Nat) /\ Len(Append(sent, e)) = l + 1 /\ l \in Nat
        /\ Append(sent, e)[l + 1] = e /\ \A k \in 1..l : Append(sent, e)[k] = sent[k]
    <3> DEFINE T == Nat \X Nat
    <3>1. e \in T /\ sent \in Seq(T)
      BY <2>1
    <3> HIDE DEF T
    <3>2. Append(sent, e) \in Seq(T) /\ Len(Append(sent, e)) = l + 1 /\ l \in Nat
      BY <3>1
    <3>3. Append(sent, e)[l + 1] = e
      BY <3>1
    <3>4. \A k \in 1..l : Append(sent, e)[k] = sent[k]
      BY <3>1
    <3> QED
      BY <3>2, <3>3, <3>4 DEF T
  <2>3. Append(sent, e) # << >>
    <3> DEFINE s == Append(sent, e)
    <3>1. Len(s) # 0
      BY <2>2
    <3> HIDE DEF s
    <3>2. \A v : v = << >> => Len(v) = 0
      OBVIOUS
    <3> QED
      BY <3>1, <3>2 DEF s
  <2>4. new = Append(sent, e)
    BY DEF e
  <2> HIDE DEF new, l
  <2> QED
    BY <2>2, <2>3, <2>4 DEF e
<1> HIDE DEF new
<1>2. new[1][1] = 0
  <2>1. CASE sent = << >>
    <3>1. l = 0 /\ from = 0
      BY <1>0, <2>1
    <3> QED
      BY <1>1, <3>1
  <2>2. CASE sent # << >>
    <3>1. 1 \in 1..l /\ sent[1][1] = 0
      BY <1>0, <2>2
    <3> QED
      BY <1>1, <3>1
  <2> QED
    BY <2>1, <2>2
<1> HIDE DEF l
<1>3. ASSUME NEW k \in 1..Len(new)
      PROVE  /\ new[k][2] \in 1..size
             /\ new[k][1] + new[k][2] = IF k = Len(new) THEN from + n ELSE new[k + 1][1]
  <2>1. CASE k = l + 1
    <3>1. new[k] = <<from, n>>
      BY <1>1, <2>1
    <3>2. new[k][1] = from /\ new[k][2] = n
      BY <3>1
    <3> QED
      BY <1>1, <2>1, <3>2
  <2>2. CASE k = l
    <3>1. /\ k \in 1..Len(sent) /\ k = Len(sent) /\ k # Len(new)
          /\ new[k] = sent[k] /\ new[k + 1] = <<from, n>>
      <4>1. k \in 1..l /\ k # l + 1
        BY <1>1, <2>2
      <4> QED
        BY <1>1, <2>2, <4>1, Zenon DEF l
    <3>2. new[k + 1][1] = from
      BY <3>1
    <3>3. sent[k][2] \in 1..size /\ sent[k][1] + sent[k][2] = from
      BY <1>0, <3>1
    <3> QED
      BY <3>1, <3>2, <3>3
  <2>3. CASE k < l
    <3>1. /\ k \in 1..Len(sent) /\ k # Len(sent) /\ k # Len(new)
          /\ new[k] = sent[k] /\ new[k + 1] = sent[k + 1]
      <4>1. l \in Nat /\ k \in 1..l /\ k + 1 \in 1..l /\ k # l + 1 /\ k # l
        BY <1>1, <2>3
      <4> QED
        BY <1>1, <4>1, Zenon DEF l
    <3>2. sent[k][2] \in 1..size /\ sent[k][1] + sent[k][2] = sent[k + 1][1]
      BY <1>0, <3>1
    <3> QED
      BY <3>1, <3>2
  <2>4. k \in Nat /\ (k = l + 1 \/ k = l \/ k < l)
    BY <1>1
  <2> QED
    BY <2>1, <2>2, <2>3, <2>4
<1> QED
  BY <1>1, <1>2, <1>3 DEF Chain, new

\* The loop keeps it so.
LEMMA BatchStep ==
  ASSUME SendBatchSize \in Nat \ {0}, NEW shards \in Nat, NEW x \in 1..shards,
         NEW s \in BatchState, BatchInv(s, x - 1, shards)
  PROVE  BatchOf(s, x, shards) \in BatchState /\ BatchInv(BatchOf(s, x, shards), x, shards)
<1> DEFINE count == (x - 1) - s.next + 1
           t == BatchOf(s, x, shards)
<1>1. s.next \in Nat /\ s.sent \in Seq(Nat \X Nat)
  BY DEF BatchState
<1>2. s.next <= x - 1 /\ (x - 1) - s.next < SendBatchSize
  BY DEF BatchInv
<1>3. count \in Nat /\ count \in 1..SendBatchSize /\ s.next + count = x
  BY <1>1, <1>2
<1>4. CASE count >= SendBatchSize \/ x = shards
  <2> DEFINE new == Append(s.sent, <<s.next, count>>)
  <2>1. t = [next |-> x, sent |-> new]
    BY <1>4 DEF BatchOf
  <2> HIDE DEF count
  <2>2. new \in Seq(Nat \X Nat) /\ new # << >> /\ Chain(new, s.next + count, SendBatchSize)
    <3>1. Chain(s.sent, s.next, SendBatchSize)
      BY DEF BatchInv
    <3> QED
      BY <1>1, <1>3, <3>1, BatchSent
  <2> HIDE DEF t, new
  <2>3. t.next = x /\ t.sent = new
    BY <2>1
  <2>4. t \in BatchState
    BY <2>1, <2>2 DEF BatchState
  <2>5. BatchInv(t, x, shards)
    <3>1. x <= x /\ x - x < SendBatchSize
      OBVIOUS
    <3> QED
      BY <1>3, <2>2, <2>3, <3>1 DEF BatchInv
  <2> QED
    BY <2>4, <2>5 DEF t
<1>5. CASE ~(count >= SendBatchSize \/ x = shards)
  <2>1. t = s
    BY <1>5 DEF BatchOf
  <2>2. s.next <= x /\ x # shards /\ x - s.next < SendBatchSize
    BY <1>1, <1>2, <1>3, <1>5
  <2>3. BatchInv(s, x, shards)
    BY <2>2 DEF BatchInv
  <2> QED
    BY <2>1, <2>3
<1> QED
  BY <1>4, <1>5

\* A packet is no larger than a batch may be, as one that fits into a datagram is.
Datagrams == BlockSize \in 1..(64 * 1024)

\* Then a batch holds at least one.
LEMMA BatchSizeFacts ==
  ASSUME Datagrams
  PROVE  SendBatchSize \in 1..64
<1> DEFINE whole == 64 * 1024
           n == whole \div BlockSize
<1>1. whole \in Nat /\ BlockSize \in Nat \ {0} /\ BlockSize <= whole
  <2>1. whole \in Nat
    OBVIOUS
  <2>2. BlockSize \in 1..whole
    BY Zenon DEF Datagrams
  <2> HIDE DEF whole
  <2> QED
    BY <2>1, <2>2
<1> HIDE DEF whole
<1>2. n \in Nat /\ whole <= n * BlockSize + (BlockSize - 1)
  BY <1>1, DivFacts
<1>3. n # 0
  <2>1. n = 0 => n * BlockSize = 0
    BY <1>1
  <2> HIDE DEF n
  <2> QED
    BY <1>1, <1>2, <2>1
<1> HIDE DEF n
<1>4. SendBatchSize = IF 64 <= n THEN 64 ELSE n
  <2>1. SendBatchSize = Min({64, n})
    BY DEF SendBatchSize, n, whole
  <2> QED
    BY <1>2, <2>1, MinFacts
<1> QED
  BY <1>2, <1>3, <1>4

\* The function by which Batches is defined.
Sending(shards) ==
  CHOOSE f : f = [x \in 0..shards |->
    IF x = 0 THEN [next |-> 0, sent |-> << >>] ELSE BatchOf(f[x - 1], x, shards)]

\* It exists, and every value of it is as it should be.
LEMMA SendingIs ==
  ASSUME SendBatchSize \in Nat \ {0}, NEW shards \in Nat \ {0}
  PROVE  /\ Batches(shards) = Sending(shards)[shards].sent
         /\ Sending(shards)[shards] \in BatchState
         /\ BatchInv(Sending(shards)[shards], shards, shards)
<1> DEFINE base == [next |-> 0, sent |-> << >>]
           V == [x \in Nat |-> {s \in BatchState : BatchInv(s, x, shards)}]
           step == [x \in 1..shards |-> [s \in V[x - 1] |-> BatchOf(s, x, shards)]]
           Body(f) == [x \in 0..shards |-> IF x = 0 THEN base ELSE BatchOf(f[x - 1], x, shards)]
           u == Sending(shards)
<1>1. \A x \in Nat : V[x] = {s \in BatchState : BatchInv(s, x, shards)}
  OBVIOUS
<1>2. base \in V[0]
  <2>1. base \in BatchState
    BY DEF BatchState
  <2>2. base.next = 0 /\ base.sent = << >> /\ Len(base.sent) = 0
    OBVIOUS
  <2> HIDE DEF base
  <2>3. BatchInv(base, 0, shards)
    BY <2>2 DEF BatchInv, Chain
  <2> QED
    BY <2>1, <2>3
<1>3. ASSUME NEW x \in 1..shards, NEW s \in V[x - 1] PROVE BatchOf(s, x, shards) \in V[x]
  <2>1. x - 1 \in Nat /\ x \in Nat
    OBVIOUS
  <2> HIDE DEF V
  <2>2. s \in BatchState /\ BatchInv(s, x - 1, shards)
    BY <1>1, <1>3, <2>1
  <2>3. BatchOf(s, x, shards) \in BatchState /\ BatchInv(BatchOf(s, x, shards), x, shards)
    BY <2>2, BatchStep
  <2> QED
    BY <1>1, <2>1, <2>3
<1> HIDE DEF V, base
<1>4. \A x \in 1..shards : step[x] \in [V[x - 1] -> V[x]]
  BY <1>3
<1>5. PICK f : Recursive(f, shards, base, step) /\ \A x \in 0..shards : f[x] \in V[x]
  <2> HIDE DEF step
  <2> QED
    BY <1>2, <1>4, RecursionExists
<1>6. f = Body(f)
  <2>1. f = [x \in 0..shards |-> f[x]] /\ f[0] = base /\ \A x \in 1..shards : f[x] = step[x][f[x - 1]]
    BY <1>5, Zenon DEF Recursive
  <2>2. ASSUME NEW x \in 0..shards PROVE f[x] = IF x = 0 THEN base ELSE BatchOf(f[x - 1], x, shards)
    <3>1. CASE x = 0
      BY <2>1, <3>1
    <3>2. CASE x # 0
      <4>1. x \in 1..shards /\ x - 1 \in 0..shards
        BY <3>2
      <4>2. f[x - 1] \in V[x - 1]
        BY <1>5, <4>1
      <4>3. step[x][f[x - 1]] = BatchOf(f[x - 1], x, shards)
        BY <4>1, <4>2
      <4> HIDE DEF step
      <4> QED
        BY <2>1, <3>2, <4>1, <4>3
    <3> QED
      BY <3>1, <3>2
  <2> HIDE DEF step
  <2> QED
    BY <2>1, <2>2, Zenon
<1>7. u = Body(u)
  BY <1>6, Zenon DEF Sending, base
<1>8. Batches(shards) = u[shards].sent
  BY Zenon DEF Batches, Sending, BatchOf
<1> HIDE DEF u
<1>9. \A x \in 0..shards : u[x] = IF x = 0 THEN base ELSE BatchOf(u[x - 1], x, shards)
  BY <1>7, Zenon
<1>10. 0..shards \subseteq {x \in 0..shards : u[x] \in V[x]}
  <2> DEFINE S == {x \in 0..shards : u[x] \in V[x]}
  <2>1. 0 \in S
    BY <1>2, <1>9
  <2>2. ASSUME NEW x \in 1..shards, x - 1 \in S PROVE x \in S
    <3>1. x \in 0..shards /\ x # 0 /\ u[x - 1] \in V[x - 1]
      BY <2>2
    <3>2. u[x] = BatchOf(u[x - 1], x, shards)
      BY <1>9, <3>1
    <3> QED
      BY <1>3, <3>1, <3>2
  <2> HIDE DEF S
  <2>3. 0..shards \subseteq S
    BY <2>1, <2>2, RangeInduction
  <2> QED
    BY <2>3 DEF S
<1>11. u[shards] \in V[shards]
  BY <1>10
<1> QED
  BY <1>1, <1>8, <1>11 DEF u

\* Whatever the number of shards, each is sent once.
LEMMA ShardsSent ==
  ASSUME Datagrams
  PROVE  BatchesSendAll
<1>1. SendBatchSize \in Nat \ {0}
  BY BatchSizeFacts
<1>2. ASSUME NEW shards \in 1..DATA_SHARDS_MAX
      PROVE  LET b == Batches(shards)
             IN  /\ b[1][1] = 0
                 /\ \A k \in 1..Len(b) :
                      /\ b[k][2] \in 1..SendBatchSize
                      /\ b[k][1] + b[k][2] = IF k = Len(b) THEN shards ELSE b[k + 1][1]
  <2> DEFINE s == Sending(shards)[shards]
  <2>1. shards \in Nat \ {0}
    BY DEF DATA_SHARDS_MAX
  <2>2. Batches(shards) = s.sent /\ s \in BatchState /\ BatchInv(s, shards, shards)
    BY <1>1, <2>1, SendingIs
  <2> HIDE DEF s
  <2>3. s.next = shards /\ Chain(s.sent, s.next, SendBatchSize)
    BY <2>2 DEF BatchInv
  <2>4. s.sent # << >>
    <3>1. shards # 0
      BY <2>1
    <3> QED
      BY <2>3, <3>1, Zenon DEF Chain
  <2>5. /\ s.sent[1][1] = 0
        /\ \A k \in 1..Len(s.sent) :
             /\ s.sent[k][2] \in 1..SendBatchSize
             /\ s.sent[k][1] + s.sent[k][2] = IF k = Len(s.sent) THEN shards ELSE s.sent[k + 1][1]
    BY <2>3, <2>4, Zenon DEF Chain
  <2> QED
    BY <2>2, <2>5, Zenon
<1> QED
  BY <1>2, Zenon DEF BatchesSendAll

(***************************************************************************)
(* The slices.                                                             *)
(***************************************************************************)

\* In terms of PrefixSize alone, so that a step says the same of any two parts.
SliceOf(s, x, data2, size, slice) ==
  LET elements == UpTo(size, slice)
      length == IF x = elements THEN size - (x - 1) * slice ELSE slice
      over == length - Len(s.left)
  IN  IF length > Len(s.left)
      THEN [out |-> s.out \o Gap \o s.left \o SubSeq(data2, 1, over),
            left |-> SubSeq(data2, over + 1, Len(data2))]
      ELSE [out |-> s.out \o Gap \o SubSeq(s.left, 1, length),
            left |-> SubSeq(s.left, length + 1, Len(s.left))]

\* Bytes that count up from where they begin.
Numbered(s, from) == \A j \in 1..Len(s) : s[j] = from + j

\* The first c bytes are in their places, behind the headers up to theirs.
Placed(out, c, slice) == \A i \in 1..c : out[i + PrefixSize * UpTo(i, slice)] = i

\* A byte of slice x is behind x headers.
LEMMA UpToIs ==
  ASSUME NEW d \in Nat \ {0}, NEW x \in Nat \ {0}, NEW i \in Nat, (x - 1) * d < i, i <= x * d
  PROVE  UpTo(i, d) = x
<1> DEFINE u == UpTo(i, d)
<1>1. u \in Nat /\ i <= u * d /\ u <= x
  BY UpToFacts, UpToBound
<1> HIDE DEF u
<1>2. ASSUME u <= x - 1 PROVE FALSE
  <2>1. u * d <= (x - 1) * d
    BY <1>1, <1>2, TimesMonotone
  <2>2. (x - 1) * d \in Nat /\ u * d \in Nat
    BY <1>1
  <2> QED
    BY <1>1, <2>1, <2>2
<1>3. u = x
  BY <1>1, <1>2
<1> QED
  BY <1>3 DEF u

\* new is out, the space for one header, and piece, which is slice x or what is left of it.
AddsSlice(new, out, piece, x, c, slice) ==
  /\ c = (x - 1) * slice /\ Len(out) = c + PrefixSize * (x - 1) /\ Placed(out, c, slice)
  /\ Len(piece) <= slice /\ Numbered(piece, c)
  /\ Len(new) = Len(out) + PrefixSize + Len(piece)
  /\ \A j \in 1..Len(out) : new[j] = out[j]
  /\ \A j \in 1..Len(piece) : new[Len(out) + PrefixSize + j] = piece[j]

\* Then one slice more is in place.
LEMMA SlicePlaced ==
  ASSUME PrefixSize \in Nat, NEW slice \in Nat \ {0}, NEW x \in Nat \ {0}, NEW c \in Nat,
         NEW out \in Seq(Nat), NEW piece \in Seq(Nat), NEW new \in Seq(Nat),
         AddsSlice(new, out, piece, x, c, slice)
  PROVE  /\ Len(new) = (c + Len(piece)) + PrefixSize * x
         /\ Placed(new, c + Len(piece), slice)
<1> DEFINE m == Len(piece)
           l == Len(out)
           q == x - 1
           h == PrefixSize * q
           hx == PrefixSize * x
           xs == x * slice
<1>1. m \in Nat /\ l \in Nat /\ m <= slice
  BY DEF AddsSlice
<1>2. q \in Nat /\ h \in Nat /\ hx = h + PrefixSize /\ q * slice = c /\ xs = c + slice
  <2>1. c = (x - 1) * slice
    BY DEF AddsSlice
  <2>2. q \in Nat /\ x = q + 1
    OBVIOUS
  <2>3. q * slice = c
    BY <2>1
  <2> HIDE DEF q
  <2>4. xs = c + slice
    BY <2>2, <2>3
  <2>5. h \in Nat /\ hx = h + PrefixSize
    BY <2>2
  <2> QED
    BY <2>2, <2>3, <2>4, <2>5
<1>3. l = c + h /\ Len(new) = l + PrefixSize + m
  BY Zenon DEF AddsSlice
<1>4. \A j \in 1..l : new[j] = out[j]
  BY Zenon DEF AddsSlice
<1>5. \A j \in 1..m : new[l + PrefixSize + j] = c + j
  BY Zenon DEF AddsSlice, Numbered
<1>0. Placed(out, c, slice)
  BY DEF AddsSlice
<1> HIDE DEF m, l, q, h, hx, xs
<1>6. ASSUME NEW i \in 1..(c + m) PROVE new[i + PrefixSize * UpTo(i, slice)] = i
  <2>1. CASE i <= c
    <3> DEFINE u == UpTo(i, slice)
               p == PrefixSize * u
    <3>1. u \in Nat /\ u <= q
      <4>1. i \in Nat /\ i <= q * slice
        BY <1>2, <2>1
      <4> QED
        BY <1>2, <4>1, UpToFacts, UpToBound
    <3> HIDE DEF u
    <3>2. p \in Nat /\ p <= h
      <4>1. u * PrefixSize <= q * PrefixSize
        BY <1>2, <3>1, TimesMonotone
      <4>2. p = u * PrefixSize /\ h = q * PrefixSize
        BY <1>2, <3>1 DEF h
      <4>3. p \in Nat
        BY <3>1
      <4> HIDE DEF p
      <4> QED
        BY <4>1, <4>2, <4>3
    <3> HIDE DEF p
    <3>3. i + p \in 1..l
      BY <1>2, <1>3, <2>1, <3>2
    <3>4. out[i + p] = i
      <4>1. i \in 1..c
        BY <2>1
      <4> QED
        BY <1>0, <4>1, Zenon DEF Placed, p, u
    <3> QED
      BY <1>4, <3>3, <3>4 DEF p, u
  <2>2. CASE c < i
    <3>1. i \in Nat /\ q * slice < i /\ i <= xs
      BY <1>1, <1>2, <2>2
    <3>2. UpTo(i, slice) = x
      BY <3>1, UpToIs DEF q, xs
    <3>3. i - c \in 1..m /\ i + hx = l + PrefixSize + (i - c) /\ c + (i - c) = i
      BY <1>1, <1>2, <1>3, <2>2
    <3>4. new[l + PrefixSize + (i - c)] = c + (i - c)
      BY <1>5, <3>3
    <3> QED
      BY <3>2, <3>3, <3>4 DEF hx
  <2> QED
    BY <1>1, <2>1, <2>2
<1>7. Len(new) = (c + m) + hx
  BY <1>1, <1>2, <1>3
<1> QED
  BY <1>6, <1>7, Zenon DEF Placed, m, hx

\* The bytes in place after x slices, and the length of slice x.
Reached(x, size, slice) == IF x = UpTo(size, slice) THEN size ELSE x * slice
Length(x, size, slice) == IF x = UpTo(size, slice) THEN size - (x - 1) * slice ELSE slice

\* Only the last slice may be shorter, and none is empty.
LEMMA ReachedFacts ==
  ASSUME NEW size \in Nat \ {0}, NEW slice \in Nat \ {0}, NEW x \in 1..UpTo(size, slice)
  PROVE  /\ Reached(x - 1, size, slice) \in Nat /\ Reached(x - 1, size, slice) = (x - 1) * slice
         /\ Length(x, size, slice) \in 1..slice
         /\ Reached(x, size, slice) = Reached(x - 1, size, slice) + Length(x, size, slice)
         /\ Reached(x, size, slice) <= size
<1> DEFINE n == UpTo(size, slice)
           q == x - 1
           c == q * slice
           ns == n * slice
           xs == x * slice
<1>1. n \in Nat /\ size <= ns /\ ns < size + slice
  BY UpToFacts
<1>2. x \in Nat \ {0} /\ x <= n /\ q \in Nat /\ x = q + 1 /\ q # n
  BY <1>1
<1> HIDE DEF n, q
<1>3. c \in Nat /\ xs = c + slice /\ ns \in Nat
  BY <1>1, <1>2
<1>4. xs <= ns
  BY <1>1, <1>2, TimesMonotone
<1>5. x # n => xs < size
  <2>1. SUFFICES ASSUME x # n PROVE xs < size
    OBVIOUS
  <2>2. x + 1 <= n
    BY <1>1, <1>2, <2>1
  <2>3. (x + 1) * slice <= ns
    BY <1>1, <1>2, <2>2, TimesMonotone
  <2>4. (x + 1) * slice = xs + slice
    BY <1>2
  <2> HIDE DEF ns, xs, c
  <2> QED
    BY <1>1, <1>3, <2>3, <2>4
<1>6. Reached(q, size, slice) = c
  BY <1>2 DEF Reached, n
<1>7. Length(x, size, slice) = (IF x = n THEN size - c ELSE slice)
      /\ Reached(x, size, slice) = (IF x = n THEN size ELSE xs)
  BY DEF Reached, Length, n, q
<1> HIDE DEF ns, xs, c
<1>8. (x = n => xs = ns) /\ size \in Nat /\ slice \in Nat /\ slice > 0
  BY <1>1 DEF xs, ns
<1>9. CASE x = n
  BY <1>1, <1>3, <1>6, <1>7, <1>8, <1>9 DEF q, c
<1>10. CASE x # n
  BY <1>3, <1>5, <1>6, <1>7, <1>8, <1>10 DEF q, c
<1> QED
  BY <1>9, <1>10

\* Two sequences in a row, and a part of one.
LEMMA InARow ==
  ASSUME NEW a \in Seq(Nat), NEW b \in Seq(Nat)
  PROVE  /\ a \o b \in Seq(Nat) /\ Len(a \o b) = Len(a) + Len(b)
         /\ \A j \in 1..Len(a) : (a \o b)[j] = a[j]
         /\ \A j \in 1..Len(b) : (a \o b)[Len(a) + j] = b[j]
  OBVIOUS

PartAt(a, from, n, i, j) ==
  a \in Seq(Nat) /\ from \in Nat /\ n \in Nat /\ from + n <= Len(a) /\ i = from + 1 /\ j = from + n

LEMMA Part ==
  ASSUME NEW a, NEW from, NEW n, NEW i, NEW j, PartAt(a, from, n, i, j)
  PROVE  /\ SubSeq(a, i, j) \in Seq(Nat) /\ Len(SubSeq(a, i, j)) = n
         /\ \A k \in 1..n : SubSeq(a, i, j)[k] = a[from + k]
  BY DEF PartAt

\* So a part of numbered bytes is numbered, and so are two in a row.
PartOf(a, c, from, n, i, j, d) ==
  /\ a \in Seq(Nat) /\ c \in Nat /\ Numbered(a, c)
  /\ from \in Nat /\ n \in Nat /\ from + n <= Len(a)
  /\ i = from + 1 /\ j = from + n /\ d = c + from

LEMMA NumberedPart ==
  ASSUME NEW a, NEW c, NEW from, NEW n, NEW i, NEW j, NEW d, PartOf(a, c, from, n, i, j, d)
  PROVE  /\ SubSeq(a, i, j) \in Seq(Nat) /\ Len(SubSeq(a, i, j)) = n
         /\ Numbered(SubSeq(a, i, j), d)
<1>0. /\ a \in Seq(Nat) /\ c \in Nat /\ Numbered(a, c)
      /\ from \in Nat /\ n \in Nat /\ from + n <= Len(a)
      /\ i = from + 1 /\ j = from + n /\ d = c + from
  BY Zenon DEF PartOf
<1>1. \A k \in 1..n : from + k \in 1..Len(a) /\ c + (from + k) = d + k
  BY <1>0
<1>2. \A k \in 1..n : a[from + k] = d + k
  BY <1>0, <1>1, Zenon DEF Numbered
<1>3. /\ SubSeq(a, i, j) \in Seq(Nat) /\ Len(SubSeq(a, i, j)) = n
      /\ \A k \in 1..n : SubSeq(a, i, j)[k] = a[from + k]
  <2>1. PartAt(a, from, n, i, j)
    BY <1>0, Zenon DEF PartAt
  <2> QED
    BY <2>1, Part
<1> QED
  BY <1>2, <1>3, Zenon DEF Numbered

LEMMA NumberedInARow ==
  ASSUME NEW a \in Seq(Nat), NEW b \in Seq(Nat), NEW c \in Nat, Numbered(a, c), Numbered(b, c + Len(a))
  PROVE  Numbered(a \o b, c)
<1> DEFINE l == Len(a)
           m == Len(b)
<1>1. /\ l \in Nat /\ m \in Nat /\ Len(a \o b) = l + m
      /\ \A j \in 1..l : (a \o b)[j] = c + j
      /\ \A j \in 1..m : (a \o b)[l + j] = (c + l) + j
  BY InARow DEF Numbered
<1> HIDE DEF l, m
<1>2. ASSUME NEW j \in 1..(l + m) PROVE (a \o b)[j] = c + j
  <2>1. CASE j <= l
    BY <1>1, <2>1
  <2>2. CASE l < j
    <3>1. j - l \in 1..m /\ l + (j - l) = j /\ (c + l) + (j - l) = c + j
      BY <1>1, <2>2
    <3> QED
      BY <1>1, <3>1
  <2> QED
    BY <1>1, <2>1, <2>2
<1> QED
  BY <1>1, <1>2 DEF Numbered

\* Three in a row, and a third that is made of two.
LEMMA ThreeInARow ==
  ASSUME NEW a \in Seq(Nat), NEW b \in Seq(Nat), NEW c \in Seq(Nat)
  PROVE  /\ a \o b \o c \in Seq(Nat) /\ Len(a \o b \o c) = Len(a) + Len(b) + Len(c)
         /\ \A j \in 1..Len(a) : (a \o b \o c)[j] = a[j]
         /\ \A j \in 1..Len(c) : (a \o b \o c)[Len(a) + Len(b) + j] = c[j]
<1> DEFINE ab == a \o b
<1>1. /\ ab \in Seq(Nat) /\ Len(ab) = Len(a) + Len(b) /\ Len(a) \in Nat /\ Len(b) \in Nat
      /\ \A j \in 1..Len(a) : ab[j] = a[j]
  BY InARow
<1> HIDE DEF ab
<1>2. /\ ab \o c \in Seq(Nat) /\ Len(ab \o c) = Len(ab) + Len(c)
      /\ \A j \in 1..Len(ab) : (ab \o c)[j] = ab[j]
      /\ \A j \in 1..Len(c) : (ab \o c)[Len(ab) + j] = c[j]
  BY <1>1, InARow
<1>3. \A j \in 1..Len(a) : (ab \o c)[j] = a[j]
  BY <1>1, <1>2
<1> QED
  BY <1>1, <1>2, <1>3 DEF ab

LEMMA InARowAgain ==
  ASSUME NEW a \in Seq(Nat), NEW b \in Seq(Nat), NEW c \in Seq(Nat)
  PROVE  (a \o b) \o c = a \o (b \o c)
  BY ConcatAssociative

\* The pieces of a slice that reaches over the end of what is left, and of one that does not.
Over(left, data2, c, length, over, piece2, rest) ==
  /\ left \in Seq(Nat) /\ data2 \in Seq(Nat) /\ c \in Nat /\ length \in Nat
  /\ Numbered(left, c) /\ Numbered(data2, c + Len(left))
  /\ Len(left) < length /\ length <= Len(left) + Len(data2)
  /\ over = length - Len(left) /\ piece2 = SubSeq(data2, 1, over) /\ rest = SubSeq(data2, over + 1, Len(data2))

LEMMA PieceOver ==
  ASSUME NEW left, NEW data2, NEW c, NEW length, NEW over, NEW piece2, NEW rest,
         Over(left, data2, c, length, over, piece2, rest)
  PROVE  /\ piece2 \in Seq(Nat) /\ left \o piece2 \in Seq(Nat)
         /\ Len(left \o piece2) = length /\ Numbered(left \o piece2, c)
         /\ rest \in Seq(Nat) /\ Numbered(rest, c + length)
         /\ (c + length) + Len(rest) = c + Len(left) + Len(data2)
<1> DEFINE r == Len(left)
           l2 == Len(data2)
           n == l2 - over
           l1 == c + r
           end == c + length
           piece == left \o piece2
<1>0. /\ left \in Seq(Nat) /\ data2 \in Seq(Nat) /\ c \in Nat /\ length \in Nat
      /\ Numbered(left, c) /\ Numbered(data2, l1) /\ r < length /\ length <= r + l2
      /\ over = length - r /\ piece2 = SubSeq(data2, 1, over) /\ rest = SubSeq(data2, over + 1, l2)
  BY Zenon DEF Over
<1>1. r \in Nat /\ l2 \in Nat
  <2>1. left \in Seq(Nat) /\ data2 \in Seq(Nat)
    BY <1>0
  <2> QED
    BY <2>1
<1>4. l1 = c + r /\ end = c + length
  OBVIOUS
<1> HIDE DEF r, l2, l1, end, piece
<1>5. n \in Nat /\ over \in Nat /\ over + n = l2 /\ r + over = length /\ l1 \in Nat /\ end = l1 + over
  <2>1. c \in Nat /\ length \in Nat /\ r < length /\ length <= r + l2 /\ over = length - r
    BY <1>0
  <2> QED
    BY <1>1, <1>4, <2>1
<1> HIDE DEF n
<1>6. PartOf(data2, l1, 0, over, 1, over, l1)
  <2>1. 0 \in Nat /\ 0 + over <= l2 /\ 1 = 0 + 1 /\ over = 0 + over /\ l1 = l1 + 0
    BY <1>1, <1>5
  <2> QED
    BY <1>0, <1>5, <2>1, Zenon DEF PartOf, l2
<1>7. PartOf(data2, l1, over, n, over + 1, l2, end)
  <2>1. over + n <= l2
    BY <1>1, <1>5
  <2> QED
    BY <1>0, <1>5, <2>1, Zenon DEF PartOf, l2
<1>8. piece2 \in Seq(Nat) /\ Len(piece2) = over /\ Numbered(piece2, l1)
  <2>1. /\ SubSeq(data2, 1, over) \in Seq(Nat) /\ Len(SubSeq(data2, 1, over)) = over
        /\ Numbered(SubSeq(data2, 1, over), l1)
    BY <1>6, NumberedPart
  <2> QED
    BY <1>0, <2>1, Zenon
<1>9. rest \in Seq(Nat) /\ Len(rest) = n /\ Numbered(rest, end)
  <2>1. /\ SubSeq(data2, over + 1, l2) \in Seq(Nat) /\ Len(SubSeq(data2, over + 1, l2)) = n
        /\ Numbered(SubSeq(data2, over + 1, l2), end)
    BY <1>7, NumberedPart
  <2> QED
    BY <1>0, <2>1, Zenon
<1>10. piece \in Seq(Nat) /\ Len(piece) = r + over
  <2>1. left \in Seq(Nat)
    BY <1>0
  <2> QED
    BY <1>8, <2>1, InARow DEF r, piece
<1>11. Numbered(piece, c)
  <2>1. Numbered(piece2, c + Len(left))
    BY <1>4, <1>8 DEF r
  <2>2. left \in Seq(Nat) /\ c \in Nat /\ Numbered(left, c)
    BY <1>0
  <2> QED
    BY <1>8, <2>1, <2>2, NumberedInARow DEF piece
<1>12. end + n = c + r + l2
  <2>1. c \in Nat
    BY <1>0
  <2> QED
    BY <1>1, <1>4, <1>5, <2>1
<1> QED
  BY <1>5, <1>8, <1>9, <1>10, <1>11, <1>12, Zenon DEF piece, end, r, l2

Within(left, c, length, piece, rest) ==
  /\ left \in Seq(Nat) /\ c \in Nat /\ length \in Nat /\ Numbered(left, c) /\ length <= Len(left)
  /\ piece = SubSeq(left, 1, length) /\ rest = SubSeq(left, length + 1, Len(left))

LEMMA PieceWithin ==
  ASSUME NEW left, NEW c, NEW length, NEW piece, NEW rest, Within(left, c, length, piece, rest)
  PROVE  /\ piece \in Seq(Nat) /\ Len(piece) = length /\ Numbered(piece, c)
         /\ rest \in Seq(Nat) /\ Numbered(rest, c + length)
         /\ (c + length) + Len(rest) = c + Len(left)
<1> DEFINE r == Len(left)
           n == r - length
           end == c + length
<1>0. /\ left \in Seq(Nat) /\ c \in Nat /\ length \in Nat /\ Numbered(left, c) /\ length <= r
      /\ piece = SubSeq(left, 1, length) /\ rest = SubSeq(left, length + 1, r)
  BY Zenon DEF Within
<1>1. r \in Nat /\ end = c + length
  <2>1. left \in Seq(Nat)
    BY <1>0
  <2> QED
    BY <2>1
<1>2. n \in Nat /\ length + n = r /\ c \in Nat
  <2>1. length \in Nat /\ length <= r /\ c \in Nat
    BY <1>0
  <2> QED
    BY <1>1, <2>1
<1> HIDE DEF r, n, end
<1>3. PartOf(left, c, 0, length, 1, length, c)
  <2>1. 0 \in Nat /\ 0 + length <= r /\ 1 = 0 + 1 /\ length = 0 + length /\ c = c + 0
    <3>1. length \in Nat /\ length <= r
      BY <1>0
    <3> QED
      BY <1>1, <1>2, <3>1
  <2> QED
    BY <1>0, <2>1, Zenon DEF PartOf, r
<1>4. PartOf(left, c, length, n, length + 1, r, end)
  <2>1. length + n <= r
    BY <1>1, <1>2
  <2> QED
    BY <1>0, <1>1, <1>2, <2>1, Zenon DEF PartOf, r
<1>5. piece \in Seq(Nat) /\ Len(piece) = length /\ Numbered(piece, c)
  <2>1. /\ SubSeq(left, 1, length) \in Seq(Nat) /\ Len(SubSeq(left, 1, length)) = length
        /\ Numbered(SubSeq(left, 1, length), c)
    BY <1>3, NumberedPart
  <2> QED
    BY <1>0, <2>1, Zenon
<1>6. rest \in Seq(Nat) /\ Len(rest) = n /\ Numbered(rest, end)
  <2>1. /\ SubSeq(left, length + 1, r) \in Seq(Nat) /\ Len(SubSeq(left, length + 1, r)) = n
        /\ Numbered(SubSeq(left, length + 1, r), end)
    BY <1>4, NumberedPart
  <2> QED
    BY <1>0, <2>1, Zenon
<1>7. end + n = c + r
  <2>1. length \in Nat
    BY <1>0
  <2> QED
    BY <1>1, <1>2, <2>1
<1> QED
  BY <1>5, <1>6, <1>7, Zenon DEF end, r

\* A piece behind the space of its header is in its place.
Ready(new, out, piece, x, c, slice) ==
  /\ out \in Seq(Nat) /\ piece \in Seq(Nat) /\ x \in Nat \ {0} /\ c \in Nat /\ slice \in Nat \ {0}
  /\ c = (x - 1) * slice /\ Len(out) = c + PrefixSize * (x - 1) /\ Placed(out, c, slice)
  /\ Len(piece) <= slice /\ Numbered(piece, c) /\ new = out \o Gap \o piece

LEMMA PieceAdded ==
  ASSUME PrefixSize \in Nat, NEW slice, NEW x, NEW c, NEW out, NEW piece, NEW new,
         Ready(new, out, piece, x, c, slice)
  PROVE  /\ new \in Seq(Nat) /\ Len(new) = (c + Len(piece)) + PrefixSize * x
         /\ Placed(new, c + Len(piece), slice)
<1>1. /\ out \in Seq(Nat) /\ piece \in Seq(Nat) /\ x \in Nat \ {0} /\ c \in Nat /\ slice \in Nat \ {0}
      /\ c = (x - 1) * slice /\ Len(out) = c + PrefixSize * (x - 1) /\ Placed(out, c, slice)
      /\ Len(piece) <= slice /\ Numbered(piece, c) /\ new = out \o Gap \o piece
  BY Zenon DEF Ready
<1>2. Gap \in Seq(Nat) /\ Len(Gap) = PrefixSize
  BY DEF Gap
<1>3. /\ new \in Seq(Nat) /\ Len(new) = Len(out) + Len(Gap) + Len(piece)
      /\ \A j \in 1..Len(out) : new[j] = out[j]
      /\ \A j \in 1..Len(piece) : new[Len(out) + Len(Gap) + j] = piece[j]
  <2> DEFINE row == out \o Gap \o piece
  <2>1. out \in Seq(Nat) /\ piece \in Seq(Nat) /\ new = row
    BY <1>1
  <2>2. /\ row \in Seq(Nat) /\ Len(row) = Len(out) + Len(Gap) + Len(piece)
        /\ \A j \in 1..Len(out) : row[j] = out[j]
        /\ \A j \in 1..Len(piece) : row[Len(out) + Len(Gap) + j] = piece[j]
    BY <1>2, <2>1, ThreeInARow
  <2> HIDE DEF row
  <2> QED
    BY <2>1, <2>2
<1>4. AddsSlice(new, out, piece, x, c, slice)
  BY <1>1, <1>2, <1>3, Zenon DEF AddsSlice
<1> QED
  <2>1. /\ slice \in Nat \ {0} /\ x \in Nat \ {0} /\ c \in Nat
        /\ out \in Seq(Nat) /\ piece \in Seq(Nat) /\ new \in Seq(Nat)
    BY <1>1, <1>3
  <2> QED
    BY <1>4, <2>1, SlicePlaced

\* What is left goes on where the slices end, up to the end of data1 or of data2.
SliceState == [out : Seq(Nat), left : Seq(Nat)]
SliceInv(s, x, data1, data2, slice) ==
  LET size == Len(data1) + Len(data2)
      c == Reached(x, size, slice)
  IN  /\ Len(s.out) = c + PrefixSize * x /\ Placed(s.out, c, slice)
      /\ Numbered(s.left, c) /\ c + Len(s.left) \in {Len(data1), size}

Slicing(data1, data2, size, slice) ==
  /\ slice \in Nat \ {0} /\ data1 \in Seq(Nat) /\ data2 \in Seq(Nat)
  /\ size = Len(data1) + Len(data2) /\ size # 0 /\ Numbered(data2, Len(data1))

\* The loop keeps it so.
LEMMA SliceStep ==
  ASSUME PrefixSize \in Nat, NEW slice, NEW data1, NEW data2, NEW size, Slicing(data1, data2, size, slice),
         NEW x \in 1..UpTo(size, slice), NEW s \in SliceState, SliceInv(s, x - 1, data1, data2, slice)
  PROVE  /\ SliceOf(s, x, data2, size, slice) \in SliceState
         /\ SliceInv(SliceOf(s, x, data2, size, slice), x, data1, data2, slice)
<1> DEFINE c == Reached(x - 1, size, slice)
           length == Length(x, size, slice)
           l1 == Len(data1)
           l2 == Len(data2)
           left == s.left
           out == s.out
           r == Len(left)
           over == length - r
           within == SubSeq(left, 1, length)
           piece2 == SubSeq(data2, 1, over)
           rest1 == SubSeq(left, length + 1, r)
           rest2 == SubSeq(data2, over + 1, l2)
           t == SliceOf(s, x, data2, size, slice)
<1>0. /\ slice \in Nat \ {0} /\ data1 \in Seq(Nat) /\ data2 \in Seq(Nat)
      /\ size = l1 + l2 /\ size # 0 /\ Numbered(data2, l1)
  BY Zenon DEF Slicing
<1>1. l1 \in Nat /\ l2 \in Nat /\ size \in Nat \ {0}
  <2>1. l1 \in Nat /\ l2 \in Nat
    BY <1>0, LenProperties, Zenon
  <2>2. size = l1 + l2 /\ size # 0
    BY <1>0, Zenon
  <2> HIDE DEF l1, l2
  <2> QED
    BY <2>1, <2>2
<1>2. /\ c \in Nat /\ c = (x - 1) * slice /\ length \in 1..slice
      /\ Reached(x, size, slice) = c + length /\ c + length <= size
  <2>1. slice \in Nat \ {0}
    BY <1>0, Zenon
  <2> HIDE DEF l1, l2
  <2> QED
    BY <1>1, <2>1, ReachedFacts
<1>3. left \in Seq(Nat) /\ out \in Seq(Nat) /\ r \in Nat
  BY DEF SliceState
<1>4. /\ Len(out) = c + PrefixSize * (x - 1) /\ Placed(out, c, slice)
      /\ Numbered(left, c) /\ (c + r = l1 \/ c + r = size)
  BY <1>0 DEF SliceInv
<1>5. t = IF length > r THEN [out |-> out \o Gap \o left \o piece2, left |-> rest2]
                       ELSE [out |-> out \o Gap \o within, left |-> rest1]
  BY Zenon DEF SliceOf, Length
<1>6. x \in Nat \ {0}
  OBVIOUS
<1>7. length \in Nat /\ length <= slice
  BY <1>0, <1>2
<1>8. /\ over = length - r /\ within = SubSeq(left, 1, length) /\ piece2 = SubSeq(data2, 1, over)
      /\ rest1 = SubSeq(left, length + 1, r) /\ rest2 = SubSeq(data2, over + 1, l2)
  BY Zenon
<1> HIDE DEF c, length, l1, l2, left, out, r, over, within, piece2, rest1, rest2, t
<1>9. ASSUME NEW piece, NEW rest, piece \in Seq(Nat), Len(piece) = length, Numbered(piece, c),
             rest \in Seq(Nat), Numbered(rest, c + length),
             (c + length) + Len(rest) = l1 \/ (c + length) + Len(rest) = size,
             t = [out |-> out \o Gap \o piece, left |-> rest]
      PROVE  t \in SliceState /\ SliceInv(t, x, data1, data2, slice)
  <2> DEFINE new == out \o Gap \o piece
  <2>1. Ready(new, out, piece, x, c, slice)
    BY <1>0, <1>2, <1>3, <1>4, <1>6, <1>7, <1>9, Zenon DEF Ready, new
  <2>3. t = [out |-> new, left |-> rest]
    BY <1>9
  <2> HIDE DEF new
  <2>2. new \in Seq(Nat) /\ Len(new) = (c + length) + PrefixSize * x /\ Placed(new, c + length, slice)
    <3>1. /\ new \in Seq(Nat) /\ Len(new) = (c + Len(piece)) + PrefixSize * x
          /\ Placed(new, c + Len(piece), slice)
      BY <2>1, PieceAdded
    <3>2. Len(piece) = length
      BY <1>9
    <3> QED
      BY <3>1, <3>2, Zenon
  <2>4. t.out = new /\ t.left = rest
    BY <2>3
  <2>5. t \in SliceState
    <3>1. rest \in Seq(Nat)
      BY <1>9
    <3>2. [out |-> new, left |-> rest] \in SliceState
      BY <2>2, <3>1, Zenon DEF SliceState
    <3> QED
      BY <2>3, <3>2
  <2>6. SliceInv(t, x, data1, data2, slice)
    BY <1>0, <1>2, <1>9, <2>2, <2>4 DEF SliceInv, l1, l2
  <2> QED
    BY <2>5, <2>6
<1>10. CASE length > r
  <2> DEFINE piece == left \o piece2
  <2>1. c + r = l1 /\ r < length /\ length <= r + l2
    BY <1>0, <1>1, <1>2, <1>3, <1>4, <1>7, <1>10
  <2>2. Over(left, data2, c, length, over, piece2, rest2)
    BY <1>0, <1>2, <1>3, <1>4, <1>7, <1>8, <2>1, Zenon DEF Over, r, l2
  <2>3. /\ piece2 \in Seq(Nat) /\ piece \in Seq(Nat) /\ Len(piece) = length /\ Numbered(piece, c)
        /\ rest2 \in Seq(Nat) /\ Numbered(rest2, c + length)
        /\ (c + length) + Len(rest2) = c + Len(left) + Len(data2)
    BY <2>2, PieceOver
  <2>4. (c + length) + Len(rest2) = size
    <3>1. c + Len(left) + Len(data2) = size
      BY <1>0, <2>1 DEF r, l2
    <3> QED
      BY <2>3, <3>1
  <2>5. (out \o Gap) \o left \o piece2 = (out \o Gap) \o piece
    <3> DEFINE row == out \o Gap
    <3>1. Gap \in Seq(Nat)
      BY DEF Gap
    <3>2. row \in Seq(Nat)
      BY <1>3, <3>1, InARow
    <3> HIDE DEF row
    <3>3. left \in Seq(Nat) /\ piece2 \in Seq(Nat)
      BY <1>3, <2>3
    <3>4. (row \o left) \o piece2 = row \o (left \o piece2)
      BY <3>2, <3>3, InARowAgain
    <3> QED
      BY <3>4, Zenon DEF row
  <2> HIDE DEF piece
  <2>6. t = [out |-> out \o Gap \o piece, left |-> rest2]
    BY <1>5, <1>10, <2>5, Zenon
  <2> QED
    BY <1>9, <2>3, <2>4, <2>6, Zenon DEF t
<1>11. CASE ~(length > r)
  <2>1. length <= r
    BY <1>3, <1>7, <1>11
  <2>2. Within(left, c, length, within, rest1)
    BY <1>2, <1>3, <1>4, <1>7, <1>8, <2>1, Zenon DEF Within, r
  <2>3. /\ within \in Seq(Nat) /\ Len(within) = length /\ Numbered(within, c)
        /\ rest1 \in Seq(Nat) /\ Numbered(rest1, c + length) /\ (c + length) + Len(rest1) = c + Len(left)
    BY <2>2, PieceWithin
  <2>4. t = [out |-> out \o Gap \o within, left |-> rest1]
    BY <1>5, <1>11, Zenon
  <2>5. (c + length) + Len(rest1) = l1 \/ (c + length) + Len(rest1) = size
    BY <1>4, <2>3 DEF r
  <2> QED
    BY <1>9, <2>3, <2>4, <2>5, Zenon DEF t
<1> QED
  BY <1>10, <1>11 DEF t

\* The function by which Insert is defined.
Slices(data1, data2, slice) ==
  LET size == Len(data1) + Len(data2)
  IN  CHOOSE f : f = [x \in 0..UpTo(size, slice) |->
        IF x = 0 THEN [out |-> << >>, left |-> data1] ELSE SliceOf(f[x - 1], x, data2, size, slice)]

\* It exists, and every value of it is as it should be.
LEMMA SlicesAre ==
  ASSUME PrefixSize \in Nat, NEW slice, NEW data1, NEW data2, NEW size, Slicing(data1, data2, size, slice),
         Numbered(data1, 0), NEW u, u = Slices(data1, data2, slice)
  PROVE  /\ Insert(data1, data2, slice) = u[UpTo(size, slice)].out
         /\ u[UpTo(size, slice)] \in SliceState
         /\ SliceInv(u[UpTo(size, slice)], UpTo(size, slice), data1, data2, slice)
<1> DEFINE n == UpTo(size, slice)
           base == [out |-> << >>, left |-> data1]
           V == [x \in Nat |-> {s \in SliceState : SliceInv(s, x, data1, data2, slice)}]
           step == [x \in 1..n |-> [s \in V[x - 1] |-> SliceOf(s, x, data2, size, slice)]]
           Body(f) == [x \in 0..n |-> IF x = 0 THEN base ELSE SliceOf(f[x - 1], x, data2, size, slice)]
<1>0. /\ slice \in Nat \ {0} /\ data1 \in Seq(Nat) /\ data2 \in Seq(Nat)
      /\ size = Len(data1) + Len(data2) /\ size \in Nat \ {0} /\ Len(data1) \in Nat
  <2>1. /\ slice \in Nat \ {0} /\ data1 \in Seq(Nat) /\ data2 \in Seq(Nat)
        /\ size = Len(data1) + Len(data2) /\ size # 0
    BY Zenon DEF Slicing
  <2>2. Len(data1) \in Nat /\ Len(data2) \in Nat
    BY <2>1
  <2> QED
    BY <2>1, <2>2
<1>00. n \in Nat /\ n # 0
  <2>1. n \in Nat /\ size <= n * slice
    BY <1>0, UpToFacts
  <2>2. n = 0 => n * slice = 0
    BY <1>0
  <2> HIDE DEF n
  <2> QED
    BY <1>0, <2>1, <2>2
<1>1. \A x \in Nat : V[x] = {s \in SliceState : SliceInv(s, x, data1, data2, slice)}
  OBVIOUS
<1>2. base \in V[0]
  <2>1. base \in SliceState
    BY <1>0 DEF SliceState
  <2>2. base.out = << >> /\ base.left = data1 /\ Len(base.out) = 0
    OBVIOUS
  <2>3. Reached(0, size, slice) = 0 /\ PrefixSize * 0 = 0
    BY <1>0, <1>00 DEF Reached
  <2> HIDE DEF base
  <2>4. Placed(base.out, 0, slice)
    BY DEF Placed
  <2>5. Len(base.out) = 0 + PrefixSize * 0 /\ 0 + Len(base.left) = Len(data1)
    BY <1>0, <2>2, <2>3
  <2>6. SliceInv(base, 0, data1, data2, slice)
    BY <1>0, <2>2, <2>3, <2>4, <2>5, Zenon DEF SliceInv
  <2> QED
    BY <1>1, <2>1, <2>6
<1> HIDE DEF V, base
<1>3. ASSUME NEW x \in 1..n, NEW s \in V[x - 1] PROVE SliceOf(s, x, data2, size, slice) \in V[x]
  <2>1. x - 1 \in Nat /\ x \in Nat
    BY <1>00
  <2>2. s \in SliceState /\ SliceInv(s, x - 1, data1, data2, slice)
    BY <1>1, <1>3, <2>1
  <2>3. /\ SliceOf(s, x, data2, size, slice) \in SliceState
        /\ SliceInv(SliceOf(s, x, data2, size, slice), x, data1, data2, slice)
    BY <2>2, SliceStep
  <2> QED
    BY <1>1, <2>1, <2>3
<1> HIDE DEF n
<1>4. \A x \in 1..n : step[x] \in [V[x - 1] -> V[x]]
  BY <1>3
<1>5. PICK f : Recursive(f, n, base, step) /\ \A x \in 0..n : f[x] \in V[x]
  <2> HIDE DEF step
  <2> QED
    BY <1>00, <1>2, <1>4, RecursionExists
<1>6. f = Body(f)
  <2>1. f = [x \in 0..n |-> f[x]] /\ f[0] = base /\ \A x \in 1..n : f[x] = step[x][f[x - 1]]
    BY <1>5, Zenon DEF Recursive
  <2>2. ASSUME NEW x \in 0..n PROVE f[x] = IF x = 0 THEN base ELSE SliceOf(f[x - 1], x, data2, size, slice)
    <3>1. CASE x = 0
      BY <2>1, <3>1
    <3>2. CASE x # 0
      <4>1. x \in 1..n /\ x - 1 \in 0..n
        BY <1>00, <3>2
      <4>2. f[x - 1] \in V[x - 1]
        BY <1>5, <4>1
      <4>3. step[x][f[x - 1]] = SliceOf(f[x - 1], x, data2, size, slice)
        BY <4>1, <4>2
      <4> HIDE DEF step
      <4> QED
        BY <2>1, <3>2, <4>1, <4>3
    <3> QED
      BY <3>1, <3>2
  <2> HIDE DEF step
  <2> QED
    BY <2>1, <2>2, Zenon
<1>7. u = Body(u)
  <2>1. u = CHOOSE g : g = Body(g)
    BY <1>0, Zenon DEF Slices, base, n
  <2> QED
    BY <1>6, <2>1, Zenon
<1>8. Insert(data1, data2, slice) = u[n].out
  <2>1. Insert(data1, data2, slice) = Slices(data1, data2, slice)[n].out
    BY <1>0, Zenon DEF Insert, Slices, SliceOf, n
  <2> QED
    BY <2>1
<1>9. \A x \in 0..n : u[x] = IF x = 0 THEN base ELSE SliceOf(u[x - 1], x, data2, size, slice)
  BY <1>7, Zenon
<1>10. 0..n \subseteq {x \in 0..n : u[x] \in V[x]}
  <2> DEFINE S == {x \in 0..n : u[x] \in V[x]}
  <2>1. 0 \in S
    BY <1>00, <1>2, <1>9
  <2>2. ASSUME NEW x \in 1..n, x - 1 \in S PROVE x \in S
    <3>1. x \in 0..n /\ x # 0 /\ u[x - 1] \in V[x - 1]
      BY <1>00, <2>2
    <3>2. u[x] = SliceOf(u[x - 1], x, data2, size, slice)
      BY <1>9, <3>1
    <3> QED
      BY <1>3, <3>1, <3>2
  <2> HIDE DEF S
  <2>3. 0..n \subseteq S
    BY <1>00, <2>1, <2>2, RangeInduction
  <2> QED
    BY <2>3 DEF S
<1>11. u[n] \in SliceState /\ SliceInv(u[n], n, data1, data2, slice)
  BY <1>00, <1>1, <1>10
<1> QED
  BY <1>8, <1>11 DEF n

\* What remains of a number after the last whole multiple.
LEMMA RestIs ==
  ASSUME NEW q \in Nat, NEW d \in Nat \ {0}, NEW r \in 0..(d - 1), NEW n, n = q * d + r
  PROVE  n % d = r
<1>1. n \div d = q
  <2>1. n \in Nat /\ q * d <= n /\ n < q * d + d
    <3> DEFINE qd == q * d
    <3>1. qd \in Nat /\ n = qd + r
      OBVIOUS
    <3> HIDE DEF qd
    <3>2. n \in Nat /\ qd <= n /\ n < qd + d
      BY <3>1
    <3> QED
      BY <3>2 DEF qd
  <2> QED
    BY <2>1, DivIs
<1>2. n % d = n - (n \div d) * d
  <2>1. n \in Nat
    OBVIOUS
  <2>2. \A k \in Nat : k % d = k - (k \div d) * d
    BY Z3
  <2> QED
    BY <2>1, <2>2
<1> QED
  BY <1>1, <1>2

\* The payload of the last packet: what is left of n behind k - 1 full ones.
LEMMA LastPayload ==
  ASSUME NEW n \in Nat \ {0}, NEW d \in Nat \ {0}
  PROVE  (IF n % d = 0 THEN d ELSE n % d) = n - (UpTo(n, d) - 1) * d
<1> DEFINE k == UpTo(n, d)
           q == k - 1
           qd == q * d
           r == n - qd
<1>1. k \in Nat /\ n <= k * d /\ k * d < n + d /\ k > 0
  BY UpToFacts
<1> HIDE DEF k
<1>2. q \in Nat /\ k = q + 1
  BY <1>1
<1> HIDE DEF q
<1>3. qd \in Nat /\ k * d = qd + d
  BY <1>2
<1> HIDE DEF qd
<1>4. r \in 1..d /\ n = qd + r
  BY <1>1, <1>3
<1> HIDE DEF r
<1>5. CASE r = d
  <2>1. k \in Nat /\ n = k * d + 0
    BY <1>1, <1>3, <1>4, <1>5
  <2>2. n % d = 0
    BY <2>1, RestIs
  <2>3. n - qd = d
    BY <1>3, <1>4, <1>5
  <2> QED
    BY <2>2, <2>3 DEF qd, q, k
<1>6. CASE r # d
  <2>1. r \in 0..(d - 1) /\ r # 0 /\ n - qd = r
    BY <1>3, <1>4, <1>6
  <2>2. n % d = r
    BY <1>2, <1>4, <2>1, RestIs DEF qd
  <2> QED
    BY <2>1, <2>2 DEF qd, q, k
<1> QED
  BY <1>5, <1>6

\* A frame of numbered bytes in its two parts.
Bytes(n) == [i \in 1..n |-> i]

LEMMA FrameParts ==
  ASSUME NEW head \in Nat \ {0}, NEW size \in Nat \ {0}, NEW slice \in Nat \ {0}, NEW all, all = head + size,
         NEW data1, data1 = SubSeq(Bytes(all), 1, head),
         NEW data2, data2 = SubSeq(Bytes(all), head + 1, all)
  PROVE  Slicing(data1, data2, all, slice) /\ Numbered(data1, 0)
<1> DEFINE b == Bytes(all)
<1>1. all \in Nat /\ all # 0 /\ 0 + head <= all /\ head + size <= all
      /\ 1 = 0 + 1 /\ head = 0 + head /\ 0 = 0 + 0 /\ all = head + size /\ 0 \in Nat
  OBVIOUS
<1>2. b \in Seq(Nat) /\ Len(b) = all /\ Numbered(b, 0)
  BY <1>1 DEF Bytes, Numbered
<1> HIDE DEF b
<1>3. PartOf(b, 0, 0, head, 1, head, 0)
  BY <1>1, <1>2, Zenon DEF PartOf
<1>4. PartOf(b, 0, head, size, head + 1, all, head)
  BY <1>1, <1>2, Zenon DEF PartOf
<1>5. /\ SubSeq(b, 1, head) \in Seq(Nat) /\ Len(SubSeq(b, 1, head)) = head
      /\ Numbered(SubSeq(b, 1, head), 0)
  BY <1>3, NumberedPart
<1>6. /\ SubSeq(b, head + 1, all) \in Seq(Nat) /\ Len(SubSeq(b, head + 1, all)) = size
      /\ Numbered(SubSeq(b, head + 1, all), head)
  BY <1>4, NumberedPart
<1>7. data1 = SubSeq(b, 1, head) /\ data2 = SubSeq(b, head + 1, all)
  BY DEF b
<1> QED
  BY <1>1, <1>5, <1>6, <1>7, Zenon DEF Slicing

\* The length behind the headers of all packets but the last, and its own.
LEMMA LastLength ==
  ASSUME NEW all \in Int, NEW n \in Nat, NEW block \in Int, NEW prefix \in Int
  PROVE  (all + n * prefix) - (n - 1) * block - prefix = all - (n - 1) * (block - prefix)
<1> DEFINE q == n - 1
<1>1. q \in Int /\ n = q + 1
  OBVIOUS
<1> HIDE DEF q
<1>2. n * prefix = q * prefix + prefix /\ q * (block - prefix) = q * block - q * prefix
  BY <1>1
<1>3. q * prefix \in Int /\ q * block \in Int
  BY <1>1
<1>4. (all + n * prefix) - q * block - prefix = all - q * (block - prefix)
  BY <1>2, <1>3
<1> QED
  BY <1>4 DEF q

\* Whatever the size of the frame, each byte is where the packet of its slice has it.
LEMMA FramesIntact ==
  SlicesIntact
<1>1. /\ BlockSize \in Nat /\ PrefixSize \in Nat /\ PayloadBlockSize \in Nat \ {0}
      /\ PayloadBlockSize = BlockSize - PrefixSize /\ FrameHeader \in Nat \ {0}
  BY VideoFramesAssumption DEF VideoFramesAssumption, PayloadBlockSize
<1>2. ASSUME NEW size \in 1..(5 * PayloadBlockSize)
      PROVE  LET all == FrameHeader + size
                 data == [i \in 1..all |-> i]
                 out == Insert(SubSeq(data, 1, FrameHeader), SubSeq(data, FrameHeader + 1, all), PayloadBlockSize)
                 packets == UpTo(all, PayloadBlockSize)
             IN  /\ Len(out) = all + packets * PrefixSize
                 /\ \A i \in 1..all : out[i + PrefixSize * UpTo(i, PayloadBlockSize)] = i
                 /\ LastPayloadLen(size) = Len(out) - (packets - 1) * BlockSize - PrefixSize
  <2> DEFINE all == FrameHeader + size
             slice == PayloadBlockSize
             data1 == SubSeq(Bytes(all), 1, FrameHeader)
             data2 == SubSeq(Bytes(all), FrameHeader + 1, all)
             out == Insert(data1, data2, slice)
             n == UpTo(all, slice)
             u == Slices(data1, data2, slice)
  <2>1. size \in Nat \ {0} /\ all \in Nat \ {0} /\ slice \in Nat \ {0}
    BY <1>1
  <2>2. Slicing(data1, data2, all, slice) /\ Numbered(data1, 0)
    BY <1>1, <2>1, FrameParts
  <2>3. all = Len(data1) + Len(data2)
    BY <2>2, Zenon DEF Slicing
  <2> HIDE DEF data1, data2, all, slice
  <2>4. out = u[n].out /\ SliceInv(u[n], n, data1, data2, slice)
    BY <1>1, <2>2, SlicesAre
  <2>5. n \in Nat
    BY <2>1, UpToFacts
  <2>6. Len(out) = all + PrefixSize * n /\ Placed(out, all, slice)
    BY <2>3, <2>4, Zenon DEF SliceInv, Reached, n
  <2> HIDE DEF out, n
  <2>7. Len(out) = all + n * PrefixSize
    BY <1>1, <2>5, <2>6
  <2>8. LastPayloadLen(size) = all - (n - 1) * slice
    <3>1. LastPayloadLen(size) = (IF all % slice = 0 THEN slice ELSE all % slice)
      <4>1. size + FrameHeader = all
        BY <1>1, <2>1 DEF all
      <4> QED
        BY <4>1, Zenon DEF LastPayloadLen, slice
    <3> QED
      BY <2>1, <3>1, LastPayload DEF n
  <2>9. LastPayloadLen(size) = Len(out) - (n - 1) * BlockSize - PrefixSize
    <3>1. (all + n * PrefixSize) - (n - 1) * BlockSize - PrefixSize = all - (n - 1) * (BlockSize - PrefixSize)
      BY <1>1, <2>1, <2>5, LastLength
    <3> QED
      BY <1>1, <2>7, <2>8, <3>1, Zenon DEF slice
  <2>10. \A i \in 1..all : out[i + PrefixSize * UpTo(i, slice)] = i
    BY <2>6, Zenon DEF Placed
  <2> QED
    BY <2>7, <2>9, <2>10, Zenon DEF out, n, data1, data2, all, slice, Bytes
<1> QED
  BY <1>2, Zenon DEF SlicesIntact

\* So it is with every frame the sender takes, whatever else happens: it is laid out
\* without loss, each shard of a block is sent once, and its header says what
\* fec::encode has done (stream.cpp:743, 1476-1638).
THEOREM ShardsAlwaysDecode ==
  ASSUME UsualSizes, FewParity, Datagrams
  PROVE  Spec => []ShardsDecode
<1>1. ShardsDecode
  BY FramesIntact, ShardsSent, HeadersAlwaysDecode DEF ShardsDecode
<1> QED
  BY <1>1, PTL

(***************************************************************************)
(* The packet queue.                                                       *)
(***************************************************************************)

\* What an encoder and a probe may do leaves the sender alone: no encoder stops the
\* queue, nobody probes beside a context. The sender may be late.
QueueIsTheirs == Environment \subseteq {"late"}

\* The threads are all different.
LEMMA DistinctThreads ==
  /\ Sender \notin Sessions /\ Ender \notin Sessions /\ Prober \notin Sessions
  /\ Sender # Ender /\ Sender # Prober /\ Ender # Prober
  /\ NoSession \notin Threads /\ NoSession \notin Sessions
  /\ Sender \in Threads /\ Ender \in Threads /\ Prober \in Threads
  /\ \A s \in Sessions : s \in Threads
  BY PacketQueueAssumption DEF PacketQueueAssumption, Threads

\* Every step of a thread.
QueueLabels == {"new", "ready", "encode", "cleanup", "erased", "freed", "gone", "idle", "created",
                "pop", "send", "leave", "drop", "over", "raise", "lookup", "stop", "reset", "join"}

\* A lookup gives a thread a handle; of a queue that is being destroyed it gives none,
\* and the host is gone.
LEMMA LookupStep ==
  ASSUME QueueInv, ~null, NEW t \in Threads, NEW l \in HoldingSteps, pc[t] \notin HoldingSteps \cup {"cleanup"},
         Lookup(t), pc' = [pc EXCEPT ![t] = l]
  PROVE  HandlesInv'
<1>1. \A u \in Threads : pc'[u] = IF u = t THEN l ELSE pc[u]
  BY DEF QueueInv, TypeOK
<1>2. "cleanup" \notin HoldingSteps
  BY DEF HoldingSteps
<1>3. CASE entry = "expired"
  BY <1>1, <1>2, <1>3 DEF Lookup, QueueInv, HandlesInv
<1>4. CASE entry # "expired"
  <2>1. entry' = "live" /\ holders' = holders \cup {t}
    BY <1>4 DEF Lookup, QueueInv, TypeOK
  <2>2. \A u \in Threads : pc[u] # "cleanup"
    BY <1>4 DEF QueueInv, HandlesInv
  <2>3. holders' = {u \in Threads : pc'[u] \in HoldingSteps}
    BY <1>1, <2>1 DEF QueueInv, HandlesInv
  <2>4. QED
    BY <1>1, <1>2, <2>1, <2>2, <2>3 DEF HandlesInv
<1>5. QED
  BY <1>3, <1>4

\* The end of a handle; the thread that had the last one removes the entry next.
LEMMA DropStep ==
  ASSUME QueueInv, ~null, NEW t \in Threads, NEW l \in QueueLabels \ (HoldingSteps \cup {"cleanup"}),
         pc[t] \in HoldingSteps, Drop(t, l)
  PROVE  /\ HandlesInv'
         /\ entry' = "live" => entry = "live"
<1>1. t \in holders /\ entry = "live" /\ \A u \in Threads : pc[u] # "cleanup"
  BY DEF QueueInv, HandlesInv
<1>2. "cleanup" \notin HoldingSteps
  BY DEF HoldingSteps
<1>3. \A u \in Threads : pc'[u] = IF u = t THEN IF holders = {t} THEN "cleanup" ELSE l ELSE pc[u]
  BY DEF Drop, Goto, QueueInv, TypeOK
<1>4. holders' = holders \ {t} /\ ~null' /\ entry' = IF holders = {t} THEN "expired" ELSE entry
  BY DEF Drop
<1>5. holders' = {u \in Threads : pc'[u] \in HoldingSteps}
  BY <1>2, <1>3, <1>4 DEF QueueInv, HandlesInv
<1>6. QED
  BY <1>1, <1>2, <1>3, <1>4, <1>5 DEF HandlesInv

\* mail_raw_t::cleanup()
LEMMA CleanupStep ==
  ASSUME QueueInv, NEW t \in Threads, NEW l \in QueueLabels \ (HoldingSteps \cup {"cleanup"}), Cleanup(t, l)
  PROVE  HandlesInv'
<1>1. entry = "expired" /\ holders = {} /\ \A u \in Threads : pc[u] = "cleanup" => u = t
  BY DEF Cleanup, QueueInv, HandlesInv
<1>2. \A u \in Threads : pc'[u] = IF u = t THEN l ELSE pc[u]
  BY DEF Cleanup, Goto, QueueInv, TypeOK
<1>3. entry' = "absent" /\ holders' = holders /\ null' = null
  BY DEF Cleanup
<1>4. "cleanup" \notin HoldingSteps
  BY DEF HoldingSteps
<1>5. ~null' => holders' = {u \in Threads : pc'[u] \in HoldingSteps}
  BY <1>2, <1>3, <1>4 DEF Cleanup, QueueInv, HandlesInv
<1>6. QED
  BY <1>1, <1>2, <1>3, <1>5 DEF HandlesInv

\* A step that neither makes nor ends a handle.
LEMMA HandlesFrame ==
  ASSUME QueueInv, ~null, UNCHANGED <<entry, holders>>,
         \A t \in Threads : /\ pc'[t] \in HoldingSteps <=> pc[t] \in HoldingSteps
                            /\ pc'[t] = "cleanup" <=> pc[t] = "cleanup"
  PROVE  HandlesInv'
<1>1. {t \in Threads : pc'[t] \in HoldingSteps} = {t \in Threads : pc[t] \in HoldingSteps}
  OBVIOUS
<1>2. QED
  BY <1>1 DEF QueueInv, HandlesInv

\* raise() keeps the queue within its bound.
LEMMA RaiseFacts ==
  ASSUME TypeOK, NEW S, items \in Seq(S), NEW s \in S, RaisePacket(s)
  PROVE  items' \in Seq(S) /\ Len(items') <= Capacity
  BY PacketQueueAssumption DEF PacketQueueAssumption, TypeOK, RaisePacket

\* What is left after a packet is taken.
LEMMA TailFacts ==
  ASSUME NEW S, items \in Seq(S), items # <<>>
  PROVE  Head(items) \in S /\ Tail(items) \in Seq(S) /\ (Len(items) <= Capacity => Len(Tail(items)) <= Capacity)
  BY PacketQueueAssumption DEF PacketQueueAssumption

\* What the destruction of a queue leaves.
LEMMA EmptyFacts ==
  ASSUME NEW S
  PROVE  <<>> \in Seq(S) /\ Len(<<>>) <= Capacity
  BY PacketQueueAssumption DEF PacketQueueAssumption

USE DistinctThreads

\* The steps of a session within a context.
LEMMA SessionStep ==
  ASSUME QueueInv, ~null, QueueIsTheirs, NEW s \in Sessions, Session(s)
  PROVE  QueueInv'
<1> USE DEF QueueInv
<1>1. CASE Start(s)
  <2>1. pc[s] = "new" /\ pc[Prober] = "idle" /\ pc[Ender] = "idle"
    BY <1>1 DEF Start, QueueIsTheirs
  <2>2. /\ pc'[s] = "ready" /\ pc'[Sender] = (IF Refs = {} THEN "created" ELSE pc[Sender])
        /\ \A t \in Threads \ {s, Sender} : pc'[t] = pc[t]
        /\ pc' \in [Threads -> QueueLabels]
    BY <1>1 DEF Start, TypeOK, QueueLabels
  <2>3. UNCHANGED <<queueVars, bshut, cur>>
    BY <1>1 DEF Start
  <2>4. TypeOK'
    BY <2>2, <2>3 DEF TypeOK, queueVars, QueueLabels
  <2>5. StepsInv'
    BY <2>2 DEF StepsInv
  <2>6. Refs = {} => pc[Sender] = "idle"
    BY <2>1 DEF ContextInv
  <2>7. HandlesInv'
    <3>1. \A t \in Threads : /\ pc'[t] \in HoldingSteps <=> pc[t] \in HoldingSteps
                             /\ pc'[t] = "cleanup" <=> pc[t] = "cleanup"
      BY <2>1, <2>2, <2>6 DEF HoldingSteps
    <3> HIDE DEF QueueInv
    <3>2. QED
      BY <2>3, <3>1, HandlesFrame DEF queueVars
  <2>8. ContextInv'
    <3>1. s \in Refs'
      BY <2>2 DEF Refs
    <3>2. QED
      BY <2>1, <2>2, <2>6, <3>1 DEF ContextInv
  <2>9. OpenInv' /\ PacketsInv'
    BY <2>1, <2>2, <2>3, <2>6 DEF OpenInv, PacketsInv, PacketsHaveSession, queueVars
  <2>10. QED
    BY <2>4, <2>5, <2>7, <2>8, <2>9
<1>2. CASE EncodeBegin(s)
  <2>1. pc[s] = "ready" /\ pc' = [pc EXCEPT ![s] = "encode"] /\ Lookup(s) /\ UNCHANGED <<bshut, cur>>
    BY <1>2 DEF EncodeBegin, Goto
  <2>2. pc'[s] = "encode" /\ (\A t \in Threads \ {s} : pc'[t] = pc[t]) /\ pc' \in [Threads -> QueueLabels]
    BY <2>1 DEF TypeOK, QueueLabels
  <2>3. TypeOK'
    BY <2>1, <2>2 DEF TypeOK, Lookup, QueueLabels
  <2>4. StepsInv'
    BY <2>2 DEF StepsInv
  <2>5. HandlesInv'
    BY <2>1, LookupStep DEF HoldingSteps
  <2>6. Refs' = Refs
    BY <2>1, <2>2 DEF Refs
  <2>7. ContextInv'
    BY <2>2, <2>6 DEF ContextInv
  <2>8. OpenInv' /\ PacketsInv'
    BY <2>1, <2>2 DEF TypeOK, OpenInv, PacketsInv, PacketsHaveSession, Lookup
  <2>9. QED
    BY <2>3, <2>4, <2>5, <2>7, <2>8
<1>3. CASE Encode(s)
  <2>1. pc[s] = "encode" /\ UNCHANGED <<entry, open, holders, null, bshut, cur, pc>> /\ RaisePacket(s)
    BY <1>3 DEF Encode
  <2>2. s \in Refs
    BY <2>1 DEF Refs
  <2>3. items \in Seq(Sessions) /\ pc[Prober] = "idle"
    BY <2>2 DEF ContextInv, PacketsInv
  <2>4. items' \in Seq(Sessions) /\ items' \in Seq(Sessions \cup {NoSession}) /\ Len(items') <= Capacity
    BY <2>1, <2>3, RaiseFacts DEF TypeOK
  <2>5. TypeOK' /\ PacketsInv'
    BY <2>1, <2>4 DEF TypeOK, PacketsInv, PacketsHaveSession
  <2>6. StepsInv' /\ OpenInv'
    BY <2>1 DEF StepsInv, OpenInv
  <2>7. HandlesInv' /\ ContextInv'
    BY <2>1 DEF HandlesInv, ContextInv, Refs
  <2>8. QED
    BY <2>5, <2>6, <2>7
<1>4. CASE EncodeEnd(s)
  <2>1. pc[s] = "encode" /\ open' = open /\ Drop(s, "ready") /\ UNCHANGED <<bshut, cur>>
    BY <1>4 DEF EncodeEnd, QueueIsTheirs
  <2>2. /\ pc'[s] \in {"ready", "cleanup"} /\ (\A t \in Threads \ {s} : pc'[t] = pc[t])
        /\ pc' \in [Threads -> QueueLabels]
    BY <2>1 DEF TypeOK, QueueLabels, Drop, Goto
  <2>3. HandlesInv' /\ (entry' = "live" => entry = "live")
    BY <2>1, DropStep DEF HoldingSteps, QueueLabels
  <2>4. (items' = items \/ items' = <<>>) /\ holders' \subseteq holders /\ null' = null /\ entry' \in {entry, "expired"}
    BY <2>1 DEF Drop
  <2>5. TypeOK'
    BY <2>1, <2>2, <2>4, EmptyFacts DEF TypeOK, QueueLabels
  <2>6. StepsInv' /\ OpenInv'
    BY <2>1, <2>2, <2>3 DEF StepsInv, OpenInv
  <2>7. Refs' = Refs
    BY <2>1, <2>2 DEF Refs
  <2>8. ContextInv' /\ PacketsInv'
    BY <2>1, <2>2, <2>4, <2>7, EmptyFacts DEF ContextInv, PacketsInv, PacketsHaveSession
  <2>9. QED
    BY <2>3, <2>5, <2>6, <2>8
<1>5. CASE Cleanup(s, "ready")
  <2>1. /\ pc[s] = "cleanup" /\ entry' = "absent" /\ UNCHANGED <<open, items, holders, null, bshut, cur>>
        /\ pc'[s] = "ready" /\ (\A t \in Threads \ {s} : pc'[t] = pc[t]) /\ pc' \in [Threads -> QueueLabels]
    BY <1>5 DEF Cleanup, Goto, TypeOK, QueueLabels
  <2>2. HandlesInv'
    BY <1>5, CleanupStep DEF HoldingSteps, QueueLabels
  <2>3. Refs' = Refs
    BY <2>1 DEF Refs
  <2>4. TypeOK' /\ StepsInv'
    BY <2>1 DEF TypeOK, StepsInv, QueueLabels
  <2>5. ContextInv' /\ OpenInv' /\ PacketsInv'
    BY <2>1, <2>3 DEF ContextInv, OpenInv, PacketsInv, PacketsHaveSession
  <2>6. QED
    BY <2>2, <2>4, <2>5
<1>6. CASE Join(s) \/ Free(s)
  <2>1. /\ pc[s] \in {"ready", "erased"} /\ pc'[s] \in {"erased", "freed"} /\ (\A t \in Threads \ {s} : pc'[t] = pc[t])
        /\ UNCHANGED <<queueVars, bshut, cur>> /\ pc' \in [Threads -> QueueLabels]
    BY <1>6 DEF Join, Free, Goto, TypeOK, QueueLabels
  <2>2. HandlesInv'
    BY <2>1, HandlesFrame DEF queueVars, HoldingSteps
  <2>3. Refs' = Refs
    BY <2>1 DEF Refs
  <2>4. TypeOK' /\ StepsInv'
    BY <2>1 DEF TypeOK, StepsInv, QueueLabels, queueVars
  <2>5. ContextInv' /\ OpenInv' /\ PacketsInv'
    BY <2>1, <2>3 DEF ContextInv, OpenInv, PacketsInv, PacketsHaveSession, queueVars
  <2>6. QED
    BY <2>2, <2>4, <2>5
<1>7. CASE Release(s)
  <2>1. s \in Refs
    BY <1>7 DEF Release, Refs
  <2>2. pc[Ender] = "idle" /\ pc[Prober] = "idle" /\ pc[Sender] # "idle"
    BY <2>1 DEF ContextInv
  <2>3. /\ pc[s] = "freed" /\ pc'[s] = "gone" /\ pc'[Ender] = (IF Refs = {s} THEN "raise" ELSE "idle")
        /\ (\A t \in Threads \ {s, Ender} : pc'[t] = pc[t])
        /\ UNCHANGED <<queueVars, bshut, cur>> /\ pc' \in [Threads -> QueueLabels]
    BY <1>7, <2>2 DEF Release, TypeOK, QueueLabels
  <2>4. HandlesInv'
    <3>1. \A t \in Threads : /\ pc'[t] \in HoldingSteps <=> pc[t] \in HoldingSteps
                             /\ pc'[t] = "cleanup" <=> pc[t] = "cleanup"
      BY <2>2, <2>3 DEF HoldingSteps
    <3> HIDE DEF QueueInv
    <3>2. QED
      BY <2>3, <3>1, HandlesFrame DEF queueVars
  <2>5. Refs' = Refs \ {s}
    BY <2>3 DEF Refs
  <2>6. TypeOK' /\ StepsInv'
    BY <2>3 DEF TypeOK, StepsInv, QueueLabels, queueVars
  <2>7. ContextInv'
    BY <2>1, <2>2, <2>3, <2>5 DEF ContextInv
  <2>8. OpenInv' /\ PacketsInv'
    BY <2>2, <2>3 DEF OpenInv, PacketsInv, PacketsHaveSession, queueVars
  <2>9. QED
    BY <2>4, <2>6, <2>7, <2>8
<1>8. QED
  BY <1>1, <1>2, <1>3, <1>4, <1>5, <1>6, <1>7 DEF Session

\* The steps of the sender.
LEMMA SenderStep ==
  ASSUME QueueInv, ~null, SenderSteps
  PROVE  QueueInv'
<1> USE DEF QueueInv
<1>1. pc[Prober] = "idle" /\ items \in Seq(Sessions)
  BY DEF SenderSteps, SenderBegin, SenderPop, SenderSend, SenderLeave, SenderDrop, Cleanup, ContextInv, PacketsInv
<1>2. ASSUME /\ pc'[Sender] \in {"pop", "send", "leave", "drop", "cleanup", "over"} /\ pc[Sender] # "idle"
             /\ \A t \in Threads \ {Sender} : pc'[t] = pc[t]
      PROVE  StepsInv' /\ ContextInv'
  <2>1. Refs' = Refs
    BY <1>2 DEF Refs
  <2>2. QED
    BY <1>2, <2>1 DEF StepsInv, ContextInv
<1>3. CASE SenderBegin
  <2>1. pc[Sender] = "created" /\ pc' = [pc EXCEPT ![Sender] = "pop"] /\ Lookup(Sender) /\ UNCHANGED <<bshut, cur>>
    BY <1>3 DEF SenderBegin, Goto
  <2>2. pc'[Sender] = "pop" /\ (\A t \in Threads \ {Sender} : pc'[t] = pc[t]) /\ pc' \in [Threads -> QueueLabels]
    BY <2>1 DEF TypeOK, QueueLabels
  <2>3. TypeOK'
    BY <2>1, <2>2 DEF TypeOK, Lookup, QueueLabels
  <2>4. HandlesInv'
    BY <2>1, LookupStep DEF HoldingSteps
  <2>5. OpenInv' /\ PacketsInv'
    BY <1>1, <2>1, <2>2 DEF TypeOK, OpenInv, PacketsInv, PacketsHaveSession, Lookup
  <2>6. QED
    BY <1>2, <2>1, <2>2, <2>3, <2>4, <2>5
<1>4. CASE SenderPop
  <2>1. /\ pc[Sender] = "pop" /\ pc'[Sender] \in {"leave", "send"} /\ (\A t \in Threads \ {Sender} : pc'[t] = pc[t])
        /\ pc' \in [Threads -> QueueLabels] /\ UNCHANGED <<entry, open, holders, null, bshut>>
    BY <1>4 DEF SenderPop, Goto, TypeOK, QueueLabels
  <2>2. /\ items' = items \/ (items # <<>> /\ items' = Tail(items))
        /\ (cur' = cur /\ pc'[Sender] = "leave") \/ (items # <<>> /\ cur' = Head(items))
    BY <1>4 DEF SenderPop, Goto, Peek, TypeOK
  <2>3. items' \in Seq(Sessions) /\ Len(items') <= Capacity /\ cur' \in Sessions \cup {NoSession}
        /\ (pc'[Sender] = "send" => cur' # NoSession)
    <3>1. Len(items) \in Nat /\ Len(items) <= Capacity /\ Capacity \in Nat
      BY PacketQueueAssumption DEF PacketQueueAssumption, TypeOK
    <3>2. items # <<>> => /\ Head(items) \in Sessions
                         /\ Tail(items) \in Seq(Sessions) /\ Len(Tail(items)) <= Capacity
      BY <1>1, <3>1, TailFacts
    <3>3. QED
      BY <1>1, <2>1, <2>2, <3>1, <3>2 DEF TypeOK
  <2>4. items' \in Seq(Sessions \cup {NoSession})
    BY <2>3
  <2>5. TypeOK'
    BY <2>1, <2>3, <2>4 DEF TypeOK, QueueLabels
  <2>6. HandlesInv'
    BY <2>1, HandlesFrame DEF HoldingSteps
  <2>7. OpenInv' /\ PacketsInv'
    BY <2>1, <2>3 DEF OpenInv, PacketsInv, PacketsHaveSession
  <2>8. QED
    BY <1>2, <2>1, <2>5, <2>6, <2>7
<1>5. CASE SenderSend \/ SenderLeave
  <2>1. /\ pc[Sender] \in {"send", "leave"} /\ pc'[Sender] \in {"pop", "drop"}
        /\ (\A t \in Threads \ {Sender} : pc'[t] = pc[t]) /\ pc' \in [Threads -> QueueLabels]
        /\ UNCHANGED <<entry, open, holders, items>> /\ cur' \in {cur, NoSession}
        /\ null' \in BOOLEAN /\ bshut' \in BOOLEAN
    BY <1>5 DEF SenderSend, SenderLeave, Goto, TypeOK, QueueLabels, queueVars
  <2>2. TypeOK'
    BY <2>1 DEF TypeOK, QueueLabels
  <2>3. HandlesInv'
    BY <2>1, HandlesFrame DEF HoldingSteps
  <2>4. OpenInv' /\ PacketsInv'
    BY <1>1, <2>1 DEF OpenInv, PacketsInv, PacketsHaveSession
  <2>5. QED
    BY <1>2, <2>1, <2>2, <2>3, <2>4
<1>6. CASE SenderDrop
  <2>1. pc[Sender] = "drop" /\ Drop(Sender, "over") /\ UNCHANGED <<open, bshut, cur>>
    BY <1>6 DEF SenderDrop
  <2>2. /\ pc'[Sender] \in {"over", "cleanup"} /\ (\A t \in Threads \ {Sender} : pc'[t] = pc[t])
        /\ pc' \in [Threads -> QueueLabels]
    BY <2>1 DEF TypeOK, QueueLabels, Drop, Goto
  <2>3. HandlesInv' /\ (entry' = "live" => entry = "live")
    BY <2>1, DropStep DEF HoldingSteps, QueueLabels
  <2>4. (items' = items \/ items' = <<>>) /\ holders' \subseteq holders /\ null' = null /\ entry' \in {entry, "expired"}
    BY <2>1 DEF Drop
  <2>5. TypeOK'
    BY <2>1, <2>2, <2>4, EmptyFacts DEF TypeOK, QueueLabels
  <2>6. OpenInv' /\ PacketsInv'
    BY <1>1, <2>1, <2>2, <2>3, <2>4, EmptyFacts DEF OpenInv, PacketsInv, PacketsHaveSession
  <2>7. QED
    BY <1>2, <2>1, <2>2, <2>3, <2>5, <2>6
<1>7. CASE Cleanup(Sender, "over")
  <2>1. /\ pc[Sender] = "cleanup" /\ entry' = "absent" /\ UNCHANGED <<open, items, holders, null, bshut, cur>>
        /\ pc'[Sender] = "over" /\ (\A t \in Threads \ {Sender} : pc'[t] = pc[t]) /\ pc' \in [Threads -> QueueLabels]
    BY <1>7 DEF Cleanup, Goto, TypeOK, QueueLabels
  <2>2. HandlesInv'
    BY <1>7, CleanupStep DEF HoldingSteps, QueueLabels
  <2>3. TypeOK'
    BY <2>1 DEF TypeOK, QueueLabels
  <2>4. OpenInv' /\ PacketsInv'
    BY <1>1, <2>1 DEF OpenInv, PacketsInv, PacketsHaveSession
  <2>5. QED
    BY <1>2, <2>1, <2>2, <2>3, <2>4
<1>8. QED
  BY <1>3, <1>4, <1>5, <1>6, <1>7 DEF SenderSteps

\* The steps of end_broadcast: it stops the queue, and when it has joined the sender
\* nobody has a handle of that queue any more.
LEMMA EnderStep ==
  ASSUME QueueInv, ~null, EnderSteps
  PROVE  QueueInv'
<1> USE DEF QueueInv
<1>1. pc[Ender] # "idle" /\ Refs = {} /\ pc[Prober] = "idle" /\ items \in Seq(Sessions)
  BY DEF EnderSteps, EndRaise, EndLookup, EndStop, EndReset, Cleanup, EndJoin, ContextInv, PacketsInv
<1>2. ASSUME /\ pc'[Ender] \in {"lookup", "stop", "reset", "cleanup", "join"}
             /\ \A t \in Threads \ {Ender} : pc'[t] = pc[t]
      PROVE  StepsInv' /\ ContextInv'
  <2>1. Refs' = Refs
    BY <1>2 DEF Refs
  <2>2. QED
    BY <1>1, <1>2, <2>1 DEF StepsInv, ContextInv
<1>3. CASE EndRaise \/ EndStop
  <2>1. /\ (pc[Ender] = "raise" /\ pc'[Ender] = "lookup" /\ open' = open) \/ (pc[Ender] = "stop" /\ pc'[Ender] = "reset")
        /\ (\A t \in Threads \ {Ender} : pc'[t] = pc[t]) /\ pc' \in [Threads -> QueueLabels]
        /\ UNCHANGED <<entry, items, holders, null, cur>> /\ open' \in BOOLEAN /\ bshut' \in BOOLEAN
    BY <1>3 DEF EndRaise, EndStop, Goto, TypeOK, QueueLabels, queueVars
  <2>2. TypeOK'
    BY <2>1 DEF TypeOK, QueueLabels
  <2>3. HandlesInv'
    BY <2>1, HandlesFrame DEF HoldingSteps
  <2>4. OpenInv' /\ PacketsInv'
    BY <1>1, <2>1 DEF OpenInv, PacketsInv, PacketsHaveSession
  <2>5. QED
    BY <1>2, <2>1, <2>2, <2>3, <2>4
<1>4. CASE EndLookup
  <2>1. pc[Ender] = "lookup" /\ pc' = [pc EXCEPT ![Ender] = "stop"] /\ Lookup(Ender) /\ UNCHANGED <<bshut, cur>>
    BY <1>4 DEF EndLookup, Goto
  <2>2. pc'[Ender] = "stop" /\ (\A t \in Threads \ {Ender} : pc'[t] = pc[t]) /\ pc' \in [Threads -> QueueLabels]
    BY <2>1 DEF TypeOK, QueueLabels
  <2>3. TypeOK'
    BY <2>1, <2>2 DEF TypeOK, Lookup, QueueLabels
  <2>4. HandlesInv'
    BY <2>1, LookupStep DEF HoldingSteps
  <2>5. OpenInv' /\ PacketsInv'
    BY <1>1, <2>1, <2>2 DEF TypeOK, OpenInv, PacketsInv, PacketsHaveSession, Lookup
  <2>6. QED
    BY <1>2, <2>1, <2>2, <2>3, <2>4, <2>5
<1>5. CASE EndReset
  <2>1. pc[Ender] = "reset" /\ Drop(Ender, "join") /\ UNCHANGED <<open, bshut, cur>>
    BY <1>5 DEF EndReset
  <2>2. /\ pc'[Ender] \in {"join", "cleanup"} /\ (\A t \in Threads \ {Ender} : pc'[t] = pc[t])
        /\ pc' \in [Threads -> QueueLabels]
    BY <2>1 DEF TypeOK, QueueLabels, Drop, Goto
  <2>3. HandlesInv'
    BY <2>1, DropStep DEF HoldingSteps, QueueLabels
  <2>4. (items' = items \/ items' = <<>>) /\ holders' \subseteq holders /\ null' = null /\ entry' \in {entry, "expired"}
    BY <2>1 DEF Drop
  <2>5. TypeOK'
    BY <2>1, <2>2, <2>4, EmptyFacts DEF TypeOK, QueueLabels
  <2>6. OpenInv' /\ PacketsInv'
    BY <1>1, <2>1, <2>2, <2>4, EmptyFacts DEF OpenInv, PacketsInv, PacketsHaveSession
  <2>7. QED
    BY <1>2, <2>1, <2>2, <2>3, <2>5, <2>6
<1>6. CASE Cleanup(Ender, "join")
  <2>1. /\ pc[Ender] = "cleanup" /\ entry' = "absent" /\ UNCHANGED <<open, items, holders, null, bshut, cur>>
        /\ pc'[Ender] = "join" /\ (\A t \in Threads \ {Ender} : pc'[t] = pc[t]) /\ pc' \in [Threads -> QueueLabels]
    BY <1>6 DEF Cleanup, Goto, TypeOK, QueueLabels
  <2>2. HandlesInv'
    BY <1>6, CleanupStep DEF HoldingSteps, QueueLabels
  <2>3. TypeOK'
    BY <2>1 DEF TypeOK, QueueLabels
  <2>4. OpenInv' /\ PacketsInv'
    BY <1>1, <2>1 DEF OpenInv, PacketsInv, PacketsHaveSession
  <2>5. QED
    BY <1>2, <2>1, <2>2, <2>3, <2>4
<1>7. CASE EndJoin
  <2>1. /\ pc[Ender] = "join" /\ pc[Sender] = "over" /\ pc'[Ender] = "idle" /\ pc'[Sender] = "idle"
        /\ (\A t \in Threads \ {Ender, Sender} : pc'[t] = pc[t]) /\ pc' \in [Threads -> QueueLabels]
        /\ UNCHANGED <<queueVars, cur>> /\ bshut' = FALSE
    BY <1>7 DEF EndJoin, TypeOK, QueueLabels
  <2>2. ASSUME NEW s \in Sessions
        PROVE  pc[s] \in {"new", "gone"}
    <3>1. s \notin Refs
      BY <1>1
    <3>2. QED
      BY <3>1 DEF Refs, StepsInv
  <2>3. \A t \in Threads : pc[t] \notin HoldingSteps
    BY <1>1, <2>1, <2>2 DEF Threads, HoldingSteps
  <2>4. entry # "live"
    BY <2>3 DEF HandlesInv
  <2>5. HandlesInv'
    <3>1. \A t \in Threads : /\ pc'[t] \in HoldingSteps <=> pc[t] \in HoldingSteps
                             /\ pc'[t] = "cleanup" <=> pc[t] = "cleanup"
      BY <2>1 DEF HoldingSteps
    <3> HIDE DEF QueueInv
    <3>2. QED
      BY <2>1, <3>1, HandlesFrame DEF queueVars
  <2>6. Refs' = Refs
    BY <2>1 DEF Refs
  <2>7. TypeOK' /\ StepsInv'
    BY <2>1 DEF TypeOK, StepsInv, QueueLabels, queueVars
  <2>8. ContextInv'
    BY <1>1, <2>1, <2>6 DEF ContextInv
  <2>9. OpenInv' /\ PacketsInv'
    BY <1>1, <2>1, <2>4 DEF OpenInv, PacketsInv, PacketsHaveSession, queueVars
  <2>10. QED
    BY <2>5, <2>7, <2>8, <2>9
<1>8. QED
  BY <1>3, <1>4, <1>5, <1>6, <1>7 DEF EnderSteps

\* The steps of a probe, which has the queue for itself.
LEMMA ProberStep ==
  ASSUME QueueInv, ~null, QueueIsTheirs, ProbeBegin \/ ProberSteps
  PROVE  QueueInv'
<1> USE DEF QueueInv
<1>1. Refs = {} /\ pc[Ender] = "idle" /\ pc[Sender] = "idle"
  BY DEF ProbeBegin, ProberSteps, ProbeLookup, ProbeEncode, ProbePop, ProbeDrop, Cleanup, ContextInv, QueueIsTheirs
<1>2. ASSUME /\ pc'[Prober] \in {"idle", "lookup", "encode", "pop", "drop", "cleanup"}
             /\ \A t \in Threads \ {Prober} : pc'[t] = pc[t]
      PROVE  StepsInv' /\ ContextInv'
  <2>1. Refs' = Refs
    BY <1>2 DEF Refs
  <2>2. QED
    BY <1>1, <1>2, <2>1 DEF StepsInv, ContextInv
<1>3. CASE ProbeBegin
  <2>1. /\ pc[Prober] = "idle" /\ pc'[Prober] = "lookup" /\ (\A t \in Threads \ {Prober} : pc'[t] = pc[t])
        /\ pc' \in [Threads -> QueueLabels] /\ UNCHANGED <<queueVars, bshut, cur>>
    BY <1>3 DEF ProbeBegin, Goto, TypeOK, QueueLabels
  <2>2. TypeOK'
    BY <2>1 DEF TypeOK, QueueLabels, queueVars
  <2>3. HandlesInv'
    BY <2>1, HandlesFrame DEF HoldingSteps, queueVars
  <2>4. OpenInv' /\ PacketsInv'
    BY <1>1, <2>1 DEF OpenInv, PacketsInv, PacketsHaveSession, queueVars
  <2>5. QED
    BY <1>2, <2>1, <2>2, <2>3, <2>4
<1>4. CASE ProbeLookup
  <2>1. /\ pc[Prober] = "lookup" /\ pc' = [pc EXCEPT ![Prober] = "encode"] /\ Lookup(Prober)
        /\ UNCHANGED <<bshut, cur>>
    BY <1>4 DEF ProbeLookup, Goto
  <2>2. pc'[Prober] = "encode" /\ (\A t \in Threads \ {Prober} : pc'[t] = pc[t]) /\ pc' \in [Threads -> QueueLabels]
    BY <2>1 DEF TypeOK, QueueLabels
  <2>3. TypeOK'
    BY <2>1, <2>2 DEF TypeOK, Lookup, QueueLabels
  <2>4. HandlesInv'
    BY <2>1, LookupStep DEF HoldingSteps
  <2>5. OpenInv' /\ PacketsInv'
    BY <1>1, <2>1, <2>2 DEF TypeOK, OpenInv, PacketsInv, PacketsHaveSession, Lookup
  <2>6. QED
    BY <1>2, <2>1, <2>2, <2>3, <2>4, <2>5
<1>5. CASE ProbeEncode \/ ProbePop
  <2>1. /\ pc[Prober] \in {"encode", "pop"} /\ pc'[Prober] \in {"encode", "pop", "drop"}
        /\ (\A t \in Threads \ {Prober} : pc'[t] = pc[t]) /\ pc' \in [Threads -> QueueLabels]
        /\ UNCHANGED <<entry, open, holders, bshut, cur>> /\ null' \in BOOLEAN
    BY <1>5 DEF ProbeEncode, ProbePop, Goto, TypeOK, QueueLabels
  <2>2. RaisePacket(NoSession) \/ items' = items \/ (items # <<>> /\ items' = Tail(items))
    BY <1>5 DEF ProbeEncode, ProbePop, Peek
  <2>3. items' \in Seq(Sessions \cup {NoSession}) /\ Len(items') <= Capacity
    <3>1. items \in Seq(Sessions \cup {NoSession}) /\ Len(items) <= Capacity /\ Len(items) \in Nat
      BY DEF TypeOK
    <3>2. CASE RaisePacket(NoSession)
      BY <3>1, <3>2, RaiseFacts
    <3>3. CASE items # <<>> /\ items' = Tail(items)
      BY <3>1, <3>3, TailFacts
    <3>4. QED
      BY <2>2, <3>1, <3>2, <3>3
  <2>4. TypeOK'
    BY <2>1, <2>3 DEF TypeOK, QueueLabels
  <2>5. HandlesInv'
    BY <2>1, HandlesFrame DEF HoldingSteps
  <2>6. OpenInv' /\ PacketsInv'
    BY <1>1, <2>1 DEF OpenInv, PacketsInv, PacketsHaveSession
  <2>7. QED
    BY <1>2, <2>1, <2>4, <2>5, <2>6
<1>6. CASE ProbeDrop
  <2>1. pc[Prober] = "drop" /\ Drop(Prober, "idle") /\ UNCHANGED <<open, bshut, cur>>
    BY <1>6 DEF ProbeDrop
  <2>2. ASSUME NEW s \in Sessions
        PROVE  pc[s] \in {"new", "gone"}
    <3>1. s \notin Refs
      BY <1>1
    <3>2. QED
      BY <3>1 DEF Refs, StepsInv
  <2>3. holders = {Prober}
    BY <1>1, <2>1, <2>2 DEF HandlesInv, Threads, HoldingSteps
  <2>4. /\ pc'[Prober] = "cleanup" /\ (\A t \in Threads \ {Prober} : pc'[t] = pc[t])
        /\ pc' \in [Threads -> QueueLabels]
        /\ items' = <<>> /\ entry' = "expired" /\ holders' \subseteq holders /\ null' = null
    BY <2>1, <2>3 DEF TypeOK, QueueLabels, Drop, Goto
  <2>5. HandlesInv'
    BY <2>1, DropStep DEF HoldingSteps, QueueLabels
  <2>6. TypeOK'
    BY <2>1, <2>4, EmptyFacts DEF TypeOK, QueueLabels
  <2>7. OpenInv' /\ PacketsInv'
    BY <1>1, <2>1, <2>4, EmptyFacts DEF OpenInv, PacketsInv, PacketsHaveSession
  <2>8. QED
    BY <1>2, <2>4, <2>5, <2>6, <2>7
<1>7. CASE Cleanup(Prober, "idle")
  <2>1. /\ pc[Prober] = "cleanup" /\ entry' = "absent" /\ UNCHANGED <<open, items, holders, null, bshut, cur>>
        /\ pc'[Prober] = "idle" /\ (\A t \in Threads \ {Prober} : pc'[t] = pc[t]) /\ pc' \in [Threads -> QueueLabels]
    BY <1>7 DEF Cleanup, Goto, TypeOK, QueueLabels
  <2>2. HandlesInv'
    BY <1>7, CleanupStep DEF HoldingSteps, QueueLabels
  <2>3. TypeOK'
    BY <2>1 DEF TypeOK, QueueLabels
  <2>4. OpenInv' /\ PacketsInv'
    BY <1>1, <2>1 DEF OpenInv, PacketsInv, PacketsHaveSession
  <2>5. QED
    BY <1>2, <2>1, <2>2, <2>3, <2>4
<1>8. QED
  BY <1>3, <1>4, <1>5, <1>6, <1>7 DEF ProberSteps

\* The initial state satisfies the invariant.
LEMMA QueueInit == Init => QueueInv
<1> SUFFICES ASSUME Init PROVE QueueInv
  OBVIOUS
<1>1. pc = [t \in Threads |-> IF t \in Sessions THEN "new" ELSE "idle"]
  BY DEF Init
<1>2. ASSUME NEW t \in Threads
      PROVE  pc[t] = IF t \in Sessions THEN "new" ELSE "idle"
  BY <1>1, Zenon
<1>3. pc \in [Threads -> {"new", "idle"}]
  BY <1>1, Zenon
<1>4. /\ entry = "absent" /\ open = FALSE /\ items = <<>> /\ holders = {} /\ null = FALSE
      /\ bshut = FALSE /\ cur = NoSession
  BY DEF Init
<1>5. /\ Refs = {} /\ (\A s \in Sessions : pc[s] = "new")
      /\ pc[Sender] = "idle" /\ pc[Ender] = "idle" /\ pc[Prober] = "idle"
  BY <1>2 DEF Refs
<1>6. TypeOK /\ StepsInv
  BY <1>3, <1>4, <1>5, EmptyFacts DEF TypeOK, StepsInv
<1>7. HandlesInv
  BY <1>2, <1>4, <1>5 DEF HandlesInv, HoldingSteps
<1>8. ContextInv /\ OpenInv /\ PacketsInv
  BY <1>4, <1>5, EmptyFacts DEF ContextInv, OpenInv, PacketsInv, PacketsHaveSession
<1>9. QED
  BY <1>6, <1>7, <1>8 DEF QueueInv

\* Nothing changes.
LEMMA QueueStutter == QueueInv /\ UNCHANGED vars => QueueInv'
  BY DEF vars, QueueInv, TypeOK, StepsInv, HandlesInv, ContextInv, OpenInv, PacketsInv, PacketsHaveSession, Refs

\* The invariant holds, also when the sender is late.
THEOREM QueueInvariance ==
  ASSUME QueueIsTheirs
  PROVE  Spec => []QueueInv
<1>1. QueueInv /\ [Next]_vars => QueueInv'
  BY QueueStutter, SessionStep, SenderStep, EnderStep, ProberStep DEF Next
<1>2. QED
  BY <1>1, QueueInit, PTL DEF Spec

\* While nobody ends the context the sender waits at an open queue: it never finds the
\* one the last end_broadcast has stopped.
THEOREM SenderIsServed ==
  ASSUME QueueIsTheirs
  PROVE  Spec => []SenderServes
<1>1. QueueInv => SenderServes
  BY DEF QueueInv, HandlesInv, OpenInv, SenderServes, HoldingSteps
<1>2. QED
  BY <1>1, QueueInvariance, PTL

\* Every packet the sender takes is of a session, although probes put packets without
\* one into the same queue.
THEOREM NoPacketOfAProbe ==
  ASSUME QueueIsTheirs
  PROVE  Spec => []PacketsHaveSession
<1>1. QueueInv => PacketsHaveSession
  BY DEF QueueInv, PacketsInv
<1>2. QED
  BY <1>1, QueueInvariance, PTL
=============================================================================
