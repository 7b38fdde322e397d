---------------------------- MODULE PacketSender ----------------------------
(***************************************************************************)
(* The sender of PacketQueue with the frames it sends: whatever it takes   *)
(* from the queue may be a frame of any size, under any setting.           *)
(***************************************************************************)
EXTENDS PacketQueue, VideoFrames

(***************************************************************************)
(* videoBroadcastThread, stream.cpp:1411-1463: every frame the sender      *)
(* takes falls into blocks that the packet header and Reed-Solomon can     *)
(* number.                                                                 *)
(***************************************************************************)
FramesFit == pc[Sender] = "send" => BlocksFit

(***************************************************************************)
(* stream.cpp:743, 1476-1638: the frame is laid out without loss, every    *)
(* shard of a block is sent once, and its header says what fec::encode has *)
(* done.                                                                   *)
(***************************************************************************)
ShardsDecode == pc[Sender] = "send" => SlicesIntact /\ HeadersDecode /\ BatchesSendAll

=============================================================================
