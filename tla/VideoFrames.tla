---------------------------- MODULE VideoFrames ----------------------------
(***************************************************************************)
(* How videoBroadcastThread (stream.cpp) turns an encoded frame into       *)
(* packets: the space for the packet headers, the FEC blocks, their parity *)
(* shards, the fields of each header and the batches that are sent. Pure   *)
(* functions of sizes; bytes are told apart by their position only.        *)
(***************************************************************************)
EXTENDS Naturals, Sequences, FiniteSetsExt

CONSTANTS
  BlockSize,    (* blocksize: packetsize + MAX_RTP_HEADER_SIZE             *)
  PrefixSize,   (* sizeof(video_packet_raw_t)                              *)
  FrameHeader,  (* sizeof(video_short_frame_header_t)                      *)
  MaxFrame,     (* bound on the bytes of a frame with its packet headers   *)
  Percentages,  (* values of config::stream.fec_percentage, from 1..255    *)
  Minimums      (* values of minRequiredFecPackets                         *)

ASSUME VideoFramesAssumption ==
  /\ BlockSize \in Nat /\ PrefixSize \in 1..(BlockSize - 1) /\ FrameHeader \in Nat \ {0}
  /\ MaxFrame \in Nat /\ Percentages \subseteq 1..255 /\ Minimums \subseteq Nat

DATA_SHARDS_MAX == 255
MAX_FEC_BLOCKS == 4
PayloadBlockSize == BlockSize - PrefixSize

UpTo(n, d) == (n + (d - 1)) \div d

(***************************************************************************)
(* lastPayloadLen and concat_and_insert                                    *)
(***************************************************************************)

LastPayloadLen(size) ==
  LET rest == (size + FrameHeader) % PayloadBlockSize
  IN  IF rest = 0 THEN PayloadBlockSize ELSE rest

Gap == [i \in 1..PrefixSize |-> 0]

\* The loop over the slices: `next' and `end' become what is left to copy,
\* which is data2 once a slice has reached over the end of data1.
Insert(data1, data2, slice) ==
  LET size == Len(data1) + Len(data2)
      elements == UpTo(size, slice)
      length(x) == IF x = elements THEN size - (x - 1) * slice ELSE slice
      loop[x \in 0..elements] ==
        IF x = 0 THEN [out |-> <<>>, left |-> data1]
        ELSE LET l == loop[x - 1]
                 over == length(x) - Len(l.left)
             IN  IF length(x) > Len(l.left)
                 THEN [out |-> l.out \o Gap \o l.left \o SubSeq(data2, 1, over),
                       left |-> SubSeq(data2, over + 1, Len(data2))]
                 ELSE [out |-> l.out \o Gap \o SubSeq(l.left, 1, length(x)),
                       left |-> SubSeq(l.left, length(x) + 1, Len(l.left))]
  IN  loop[elements].out

(***************************************************************************)
(* The FEC blocks of a frame                                               *)
(***************************************************************************)

\* Mutant: the parity shards are not counted against the limit.
MaxDataOfAll(percentage) == DATA_SHARDS_MAX

MaxDataShards(percentage) == (DATA_SHARDS_MAX * 100) \div (100 + percentage)

\* fec_blocks_needed, fecPercentage and aligned_size; too many turn FEC off.
Split(size, percentage) ==
  LET needed == UpTo(size, MaxDataShards(percentage) * BlockSize)
      blocks == IF needed > MAX_FEC_BLOCKS THEN MAX_FEC_BLOCKS ELSE needed
  IN  [blocks |-> blocks,
       percentage |-> IF needed > MAX_FEC_BLOCKS THEN 0 ELSE percentage,
       aligned |-> UpTo(size \div blocks, BlockSize) * BlockSize]

\* fec_blocks[x], or a negative length where substr throws out_of_range.
Block(size, split, x) ==
  IF x = split.blocks - 1 THEN size - x * split.aligned
  ELSE Min({split.aligned, size - x * split.aligned})

(***************************************************************************)
(* fec::encode and the fields of the packet header                         *)
(***************************************************************************)

ParityShards(data, percentage) == (data * percentage + 99) \div 100

\* Mutant: the percentage stays what it was when the minimum adds shards.
EncodeSamePercentage(size, percentage, minimum) ==
  LET data == UpTo(size, BlockSize)
      parity == ParityShards(data, percentage)
      raised == parity < minimum /\ percentage # 0
  IN  [data |-> data, parity |-> IF raised THEN minimum ELSE parity, percentage |-> percentage]

EncodeFec(size, percentage, minimum) ==
  LET data == UpTo(size, BlockSize)
      parity == ParityShards(data, percentage)
  IN  IF parity < minimum /\ percentage # 0
      THEN [data |-> data, parity |-> minimum, percentage |-> (100 * minimum) \div data]
      ELSE [data |-> data, parity |-> parity, percentage |-> percentage]

\* a | b of two numbers of at most 10 bits.
Or(a, b) ==
  LET has(n, w) == (n \div w) % 2 = 1
      bit(w) == IF has(a, w) \/ has(b, w) THEN w ELSE 0
  IN  bit(1) + bit(2) + bit(4) + bit(8) + bit(16)
        + bit(32) + bit(64) + bit(128) + bit(256) + bit(512)

\* x << 12 | data_shards << 22 | percentage << 4 in 32 bits: 10, 10 and 8 bits,
\* and what does not fit falls onto the field to the left.
FecInfo(x, fec) ==
  [percentage |-> fec.percentage % 256,
   index |-> Or(x % 1024, (fec.percentage \div 256) % 1024),
   data |-> Or(fec.data % 1024, (x \div 1024) % 1024)]

(***************************************************************************)
(* Sending: <<first, count>> of each batch                                 *)
(***************************************************************************)

SendBatchSize == Min({64, (64 * 1024) \div BlockSize})

Batches(shards) ==
  LET send[x \in 0..shards] ==
        IF x = 0 THEN [next |-> 0, sent |-> <<>>]
        ELSE LET s == send[x - 1]
                 count == (x - 1) - s.next + 1
             IN  IF count >= SendBatchSize \/ x = shards
                 THEN [next |-> x, sent |-> Append(s.sent, <<s.next, count>>)]
                 ELSE s
  IN  send[shards].sent

----------------------------------------------------------------------------
(* What must hold of all inputs in the bounds                             *)

(***************************************************************************)
(* stream.cpp:743, 1383: header and frame arrive byte by byte behind the   *)
(* space of one packet header per PayloadBlockSize bytes, and              *)
(* lastPayloadLen is what the final packet carries.                        *)
(***************************************************************************)
SlicesIntact ==
  \A size \in 1..(5 * PayloadBlockSize) :
    LET all == FrameHeader + size
        data == [i \in 1..all |-> i]
        out == Insert(SubSeq(data, 1, FrameHeader), SubSeq(data, FrameHeader + 1, all), PayloadBlockSize)
        packets == UpTo(all, PayloadBlockSize)
    IN  /\ Len(out) = all + packets * PrefixSize
        /\ \A i \in 1..all : out[i + PrefixSize * UpTo(i, PayloadBlockSize)] = i
        /\ LastPayloadLen(size) = Len(out) - (packets - 1) * BlockSize - PrefixSize

(***************************************************************************)
(* stream.cpp:1411-1463: every frame is split into one to four blocks that *)
(* are not empty, begin where a packet begins and reach to its end; with   *)
(* its parity shards, a block has at most the 255 shards Reed-Solomon can  *)
(* do ("D = 255 - P"), also when a minimum adds some; and the batches send *)
(* every shard once.                                                       *)
(***************************************************************************)
BlocksFit ==
  \A size \in 1..MaxFrame, percentage \in Percentages :
    LET split == Split(size, percentage)
    IN  /\ split.blocks \in 1..MAX_FEC_BLOCKS
        /\ split.aligned % BlockSize = 0
        /\ \A x \in 0..(split.blocks - 1) :
             /\ Block(size, split, x) > 0
             /\ split.percentage # 0 => \A minimum \in Minimums :
                  LET fec == EncodeFec(Block(size, split, x), split.percentage, minimum)
                  IN  fec.data + fec.parity <= DATA_SHARDS_MAX

BatchesSendAll ==
  \A shards \in 1..DATA_SHARDS_MAX :
    LET b == Batches(shards)
    IN  /\ b[1][1] = 0
        /\ \A k \in 1..Len(b) :
             /\ b[k][2] \in 1..SendBatchSize
             /\ b[k][1] + b[k][2] = IF k = Len(b) THEN shards ELSE b[k + 1][1]

(***************************************************************************)
(* stream.cpp:1539: the header of every shard says its place, the data     *)
(* shards of its block and the percentage, and the formula of fec::encode  *)
(* gives the parity shards back from what is written: the client has       *)
(* nothing else to tell data from parity.                                  *)
(***************************************************************************)
HeadersDecode ==
  \A percentage \in 1..255, minimum \in Minimums :
    \A data \in 1..MaxDataShards(percentage) :
      LET fec == EncodeFec(data * BlockSize, percentage, minimum)
      IN  /\ \A x \in {0, data - 1, data + fec.parity - 1} :
               FecInfo(x, fec) = [percentage |-> fec.percentage, index |-> x, data |-> data]
          /\ ParityShards(data, fec.percentage) = fec.parity

=============================================================================
