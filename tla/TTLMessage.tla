----------------------------- MODULE TTLMessage -----------------------------
(***************************************************************************)
(* The datagram of fttl (src/fttl/fttl.cc): send_message_fn packs four      *)
(* bytes of path size, the path and eight bytes of timestamp in a buffer,   *)
(* and Run takes them apart again.  A path that leaves no room for the      *)
(* timestamp overruns the client's buffer (there is a TODO about it); such  *)
(* paths are not sent here.                                                 *)
(***************************************************************************)
EXTENDS LittleEndian

CONSTANT message_len  \* 1024 in the code, on both sides

ASSUME RoomAssumption == message_len \in Nat /\ message_len >= 12

(* sendto takes the cursor bytes that were filled. *)
PackPair(timestamp, path) == Encode(Len(path), 4) \o path \o EncodeU64LE(timestamp)

(* What Run passes to InsertPair when read() has put bs in a buffer of zeros. *)
UnpackPair(bs) ==
    LET buffer == Memory(bs, message_len, 0)
        path_size == Decode(SubSeq(buffer, 1, 4))
        cursor == 4 + path_size
    IN <<DecodeU64LE(SubSeq(buffer, cursor + 1, cursor + 8)), SubSeq(buffer, 5, cursor)>>
=============================================================================
