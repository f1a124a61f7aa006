----------------------------- MODULE EventBytes -----------------------------
(***************************************************************************)
(* The bytes of calendar events on their way through psycal: IntoBuffer     *)
(* and FromBuffer (src/psycal/message.cc), UDPClient::Send and              *)
(* UDPListener::ListenWith (src/net/udp.cc), the records that               *)
(* SaveCurrentEvents writes and ReadEventsFrom reads (src/psycal/dump.cc).  *)
(* A kill leaves any prefix of what was written, the stream being buffered. *)
(* PsycalServer looks at whole events and whole records; this module has    *)
(* the cut ones.                                                            *)
(***************************************************************************)
EXTENDS LittleEndian

CONSTANTS
    Stamps,      \* the timestamps of events
    Texts,       \* the texts of events, sequences of bytes
    kMaxUDPSize, \* 508 in the code
    MaxEvents    \* bound on the number of events sent

(* A text comes from argv, so it has no zero byte. *)
ASSUME BytesAssumption ==
    /\ kMaxUDPSize \in Nat /\ kMaxUDPSize >= 16
    /\ MaxEvents \in Nat
    /\ Stamps \subseteq 0 .. Weight[8] - 1
    /\ Texts \subseteq Seq(Bytes)
    /\ \A text \in Texts : Len(text) < Weight[8] /\ \A k \in DOMAIN text : text[k] # 0

VARIABLES
    pc,       \* "listen", "save", "load", "done"
    sent,     \* the events clients sent, in order
    wire,     \* the datagram in the socket buffer; <<>> for none
    arrived,  \* what FromBuffer made of them, the contents of the queue
    order,    \* the places in arrived of the events saved so far
    file,     \* the bytes of events.psycal
    pos,      \* the reader's place in it
    good,     \* its stream has met neither the end nor an error
    ret       \* the events it has made

vars == <<pc, sent, wire, arrived, order, file, pos, good, ret>>

Init ==
    /\ pc = "listen" /\ sent = <<>> /\ wire = <<>> /\ arrived = <<>>
    /\ order = <<>> /\ file = <<>> /\ pos = 0 /\ good = TRUE /\ ret = <<>>

-----------------------------------------------------------------------------
GetEncodedMessage(text) == EncodeU64LE(Len(text)) \o text

IntoBuffer(e) == EncodeU64LE(e.stamp) \o GetEncodedMessage(e.text)

(* sendto takes kMaxUDPSize bytes however many the vector holds: a short     *)
(* event drags heap bytes along, a long one loses its end.                   *)
SendEvent(e) ==
    /\ pc = "listen" /\ wire = <<>> /\ Len(sent) < MaxEvents
    /\ sent' = Append(sent, e)
    /\ \E heap \in Bytes : wire' = Memory(IntoBuffer(e), kMaxUDPSize, heap)
    /\ UNCHANGED <<pc, arrived, order, file, pos, good, ret>>

SizeAt(mem) == DecodeU64LE(SubSeq(mem, 9, 16))

TextAtOnePastSize(mem) == SubSeq(mem, 18, 17 + SizeAt(mem))

(* The bytes FromBuffer copies, as many as the message says. *)
TextAt(mem) == SubSeq(mem, 17, 16 + SizeAt(mem))

(* ListenWith and FromBuffer.  The buffer is kMaxUDPSize bytes of the stack; *)
(* a message that claims more makes FromBuffer read on.                      *)
Receive ==
    /\ wire # <<>>
    /\ \E stack \in Bytes :
          LET mem == Memory(wire, kMaxUDPSize + SizeAt(wire), stack)
          IN arrived' = Append(arrived, [stamp |-> DecodeU64LE(mem), text |-> TextAt(mem)])
    /\ wire' = <<>>
    /\ UNCHANGED <<pc, sent, order, file, pos, good, ret>>

-----------------------------------------------------------------------------
(* make_snapshot_ is set and no datagram is being handled. *)
Snapshot ==
    /\ pc = "listen" /\ wire = <<>>
    /\ pc' = "save"
    /\ UNCHANGED <<sent, wire, arrived, order, file, pos, good, ret>>

RecordWithoutSize(e) == EncodeU64LE(e.stamp) \o e.text

Record(e) == EncodeU64LE(e.stamp) \o EncodeU64LE(Len(e.text)) \o e.text

(* copy.top() and copy.pop(): a soonest one of those not yet saved. *)
SaveCurrentEvent(i) ==
    LET unsaved == DOMAIN arrived \ Range(order)
    IN /\ pc = "save" /\ i \in unsaved
       /\ \A j \in unsaved : arrived[i].stamp <= arrived[j].stamp
       /\ order' = Append(order, i)
       /\ file' = file \o Record(arrived[i])
       /\ UNCHANGED <<pc, sent, wire, arrived, pos, good, ret>>

(* The daemon is killed; the next one finds the first size bytes. *)
Restart(size) ==
    /\ pc = "save" /\ pc' = "load"
    /\ file' = SubSeq(file, 1, size)
    /\ UNCHANGED <<sent, wire, arrived, order, pos, good, ret>>

-----------------------------------------------------------------------------
(* istream::read of n bytes at offset p: those there are. *)
Read(p, n) == SubSeq(file, p + 1, Min({p + n, Len(file)}))
Complete(p, n) == p + n <= Len(file)

(* A number the read may have filled in part; it was zero before. *)
Number(bs) == Decode(bs)

(* std::string(buffer): up to the first zero, wherever that is; behind the   *)
(* bytes that were read lies what the heap held.                             *)
StringsOf(bs) ==
    LET zeros == {k \in DOMAIN bs : bs[k] = 0}
    IN IF zeros = {} THEN {bs, Append(bs, Base - 1)}
       ELSE {SubSeq(bs, 1, Min(zeros) - 1)}

(* One turn of ReadEventsFrom.  After a short read the rest read nothing. *)
ReadEvent ==
    /\ pc = "load" /\ good /\ pos < Len(file)
    /\ LET stamp == Number(Read(pos, 8))
           size == IF Complete(pos, 8) THEN Number(Read(pos + 8, 8)) ELSE 0
           bs == IF Complete(pos, 16) THEN Read(pos + 16, size) ELSE <<>>
       IN /\ \E text \in StringsOf(bs) :
                ret' = Append(ret, [stamp |-> stamp, text |-> text])
          /\ good' = Complete(pos, 16 + size)
          /\ pos' = pos + 16 + size
    /\ UNCHANGED <<pc, sent, wire, arrived, order, file>>

ReadEnd ==
    /\ pc = "load" /\ (~good \/ pos >= Len(file))
    /\ pc' = "done"
    /\ UNCHANGED <<sent, wire, arrived, order, file, pos, good, ret>>

Next ==
    \/ \E e \in [stamp : Stamps, text : Texts] : SendEvent(e)
    \/ Receive \/ Snapshot \/ ReadEvent \/ ReadEnd
    \/ \E i \in DOMAIN arrived : SaveCurrentEvent(i)
    \/ \E size \in 0 .. Len(file) : Restart(size)

Spec == Init /\ [][Next]_vars

-----------------------------------------------------------------------------
(* The part of a text that has room in a datagram. *)
Fits(text) == SubSeq(text, 1, Min({Len(text), kMaxUDPSize - 16}))

(* FromBuffer undoes IntoBuffer: events arrive in order, with their time, a  *)
(* text of their length, and all of the text that has room in a datagram,    *)
(* whatever lies behind the buffers on the client's heap and the daemon's    *)
(* stack.                                                                    *)
ArrivesAsSent ==
    \A k \in DOMAIN arrived :
        /\ arrived[k].stamp = sent[k].stamp
        /\ Len(arrived[k].text) = Len(sent[k].text)
        /\ IsPrefix(Fits(sent[k].text), arrived[k].text)

(* How many bytes the first n records took, and how many of the records are   *)
(* whole in the file.                                                         *)
SizeOfFirst ==
    LET size[n \in 0 .. Len(order)] ==
            IF n = 0 THEN 0 ELSE size[n - 1] + Len(Record(arrived[order[n]]))
    IN  size

Whole == Max({n \in 0 .. Len(order) : SizeOfFirst[n] <= Len(file)})

(* Wherever a kill cuts events.psycal, ReadEventsFrom finds every record     *)
(* that is whole, soonest first, with the time and the text a client sent as *)
(* far as the text had room; the cut record costs at most one event more.    *)
WholeRecordsRead ==
    pc = "done" =>
        /\ Len(ret) \in {Whole, Whole + 1}
        /\ \A k \in 1 .. Whole :
              /\ ret[k].stamp = sent[order[k]].stamp
              /\ IsPrefix(Fits(sent[order[k]].text), ret[k].text)

=============================================================================
