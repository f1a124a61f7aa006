----------------------------- MODULE MCFileTTL ------------------------------
(* Two files and two timestamps, one of them already due at the start.  The  *)
(* datagrams are those of TTLMessage, with bits for bytes.                   *)
EXTENDS FileTTL, TTLMessage

MCPaths == {<<1>>, <<1, 0>>}
MCStamps == {0, 2}
MCNoPath == <<>>
MCBlank == <<>>

(* TTLMessage's operators as tables, which TLC computes once. *)
PackTable == [t \in MCStamps, p \in MCPaths |-> PackPair(t, p)]
UnpackTable == [bs \in Range(PackTable) \cup {MCBlank} |-> UnpackPair(bs)]
MCPacked(t, p) == PackTable[t, p]
MCUnpacked(bs) == UnpackTable[bs]

(* The codec on more than the model sends: every timestamp of eight bits and *)
(* every path of up to four, the longest of which just leaves room for the   *)
(* timestamp.                                                                *)
ASSUME RoundTrip ==
    \A t \in 0 .. 255 : \A p \in UNION {[1 .. n -> Bytes] : n \in 0 .. 4} :
        UnpackPair(PackPair(t, p)) = <<t, p>>
=============================================================================
