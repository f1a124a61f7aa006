-------------------------- MODULE PacketDrawProofs ---------------------------
(***************************************************************************)
(* packetdraw for any requests, capacity and number of datagrams: the array *)
(* is the log of what was accepted, its newest entry perhaps half stored,   *)
(* and so a call of the main thread is never a mixture of two requests.     *)
(***************************************************************************)
EXTENDS PacketDraw, TLAPS

-----------------------------------------------------------------------------
(* The datagrams, and what the array holds of them.                          *)

Requests == {Wire(s) : s \in {r \in Shapes : r.type # UNKNOWN}}
Datagrams == Requests \cup {EmptyMessage}

(* The slot of m while the stores in P are still to be done. *)
Partial(m, P) ==
    [discriminator |-> IF "discriminator" \in P THEN UNKNOWN ELSE m.discriminator,
     x    |-> IF "x" \in P THEN Zero32 ELSE htonl(m.x),
     y    |-> IF "y" \in P THEN Zero32 ELSE htonl(m.y),
     to_x |-> IF "to_x" \in P THEN Zero32 ELSE htonl(m.to_x),
     to_y |-> IF "to_y" \in P THEN Zero32 ELSE htonl(m.to_y),
     rgb  |-> IF "rgb" \in P THEN Black ELSE m.rgb]

LEMMA ZeroSwaps == htonl(Zero32) = Zero32
  BY DEF htonl, Zero32

LEMMA SwapsBack == ASSUME NEW v \in Coords PROVE htonl(htonl(v)) = v
  BY DEF htonl, Coords

LEMMA WholeIsStored == \A m : Partial(m, {}) = Stored(m)
  BY DEF Partial, Stored

LEMMA NothingStored ==
    ASSUME NEW m \in Requests
    PROVE  Partial(m, StoresOf(m)) = EmptyMessage
<1>1. PICK s \in Shapes : m = Wire(s)
  BY DEF Requests
<1>2. m.discriminator = PIXEL => m.to_x = Zero32 /\ m.to_y = Zero32
  BY <1>1 DEF Wire, PIXEL
<1>3. /\ {"discriminator", "x", "y", "rgb"} \subseteq StoresOf(m)
      /\ m.discriminator # PIXEL => {"to_x", "to_y"} \subseteq StoresOf(m)
  BY DEF StoresOf
<1> QED
  BY <1>2, <1>3, ZeroSwaps DEF Partial, EmptyMessage

(* One more store. *)
LEMMA StoreOne ==
    ASSUME NEW m \in Requests, NEW P \in SUBSET StoresOf(m), NEW f \in P, f # "messages_len"
    PROVE  [Partial(m, P) EXCEPT ![f] = Stored(m)[f]] = Partial(m, P \ {f})
<1>0. f \in {"discriminator", "x", "y", "to_x", "to_y", "rgb"}
  BY DEF StoresOf
<1>1. Stored(m) = Partial(m, {})
  BY WholeIsStored
<1>2. CASE f = "discriminator"
  BY <1>1, <1>2 DEF Partial
<1>3. CASE f = "x"
  BY <1>1, <1>3 DEF Partial
<1>4. CASE f = "y"
  BY <1>1, <1>4 DEF Partial
<1>5. CASE f = "to_x"
  BY <1>1, <1>5 DEF Partial
<1>6. CASE f = "to_y"
  BY <1>1, <1>6 DEF Partial
<1>7. CASE f = "rgb"
  BY <1>1, <1>7 DEF Partial
<1> QED
  BY <1>0, <1>2, <1>3, <1>4, <1>5, <1>6, <1>7

-----------------------------------------------------------------------------
(* What entry n holds: the whole of the n-th datagram; or, if that is the one *)
(* being inserted, the part of it that has been stored; or still nothing.     *)
Done == IF stores = {} THEN Len(inserted) ELSE Len(inserted) - 1

Entry(n) ==
    IF n < Done THEN Stored(inserted[n + 1])
    ELSE IF n < Len(inserted) THEN Partial(mess, stores) ELSE EmptyMessage

LogTypes ==
    /\ net \in Seq(Datagrams) /\ inserted \in Seq(Requests)
    /\ i \in Nat /\ messages_len \in Nat /\ slot \in Nat

(* The listener is between two insertions, or in the newest. *)
InsertInv ==
    /\ Len(inserted) <= Cap
    /\ stores = {} => messages_len = Len(inserted)
    /\ stores # {} => /\ mess \in Requests /\ stores \subseteq StoresOf(mess)
                      /\ Len(inserted) = slot + 1 /\ inserted[slot + 1] = mess
                      /\ messages_len = IF "messages_len" \in stores THEN slot ELSE slot + 1

ArrayInv == messages = [n \in 0 .. Cap - 1 |-> Entry(n)]

LogInv == LogTypes /\ InsertInv /\ ArrayInv

LEMMA LogInit == Init => LogInv
<1> SUFFICES ASSUME Init PROVE LogInv
  OBVIOUS
<1>1. net \in Seq(Datagrams) /\ inserted \in Seq(Requests) /\ Len(inserted) = 0
  BY DEF Init
<1>2. \A n \in 0 .. Cap - 1 : Entry(n) = EmptyMessage
  BY <1>1, ConstantsAssumption DEF Init, Entry, Done
<1> QED
  BY <1>1, <1>2, ConstantsAssumption DEF Init, LogInv, LogTypes, InsertInv, ArrayInv

LEMMA InsertBeginStep == ASSUME LogInv, InsertBegin PROVE LogInv'
<1>0. /\ net \in Seq(Datagrams) /\ inserted \in Seq(Requests) /\ net # <<>>
      /\ i \in Nat /\ messages_len \in Nat /\ slot \in Nat /\ Cap \in Nat
      /\ stores = {} /\ messages_len = Len(inserted) /\ Len(inserted) \in Nat
  BY ConstantsAssumption DEF LogInv, LogTypes, InsertInv, InsertBegin, Listening
<1>1. Head(net) \in Requests /\ Tail(net) \in Seq(Datagrams)
  <2>1. Head(net) \in Datagrams /\ Tail(net) \in Seq(Datagrams)
    BY <1>0
  <2> QED
    BY <2>1 DEF InsertBegin, Datagrams, EmptyMessage
<1>2. /\ inserted' \in Seq(Requests) /\ Len(inserted') = Len(inserted) + 1
      /\ inserted'[Len(inserted) + 1] = Head(net)
      /\ \A n \in 1 .. Len(inserted) : inserted'[n] = inserted[n]
  BY <1>0, <1>1 DEF InsertBegin
<1>3. /\ mess' = Head(net) /\ slot' = Len(inserted) /\ stores' = StoresOf(mess')
      /\ messages_len' = messages_len /\ messages' = messages /\ i' = i
      /\ net' = Tail(net) /\ Len(inserted) < Cap
  BY <1>0 DEF InsertBegin, SlotOfNext, Full, renderVars
<1>4. "messages_len" \in stores'
  BY <1>3 DEF StoresOf
<1>5. LogTypes' /\ InsertInv'
  BY <1>0, <1>1, <1>2, <1>3, <1>4 DEF LogTypes, InsertInv
<1>6. ASSUME NEW n \in 0 .. Cap - 1 PROVE Entry(n)' = Entry(n)
  <2>1. Done = Len(inserted) /\ Done' = Len(inserted)
    BY <1>0, <1>2, <1>4 DEF Done
  <2>2. CASE n < Len(inserted)
    <3>1. inserted'[n + 1] = inserted[n + 1]
      BY <1>0, <1>2, <2>2
    <3> QED
      BY <2>1, <2>2, <3>1 DEF Entry
  <2>3. CASE n = Len(inserted)
    <3>1. Partial(mess', stores') = EmptyMessage
      BY <1>1, <1>3, NothingStored
    <3> QED
      BY <1>0, <1>2, <2>1, <2>3, <3>1 DEF Entry
  <2>4. CASE n > Len(inserted)
    BY <1>0, <1>2, <2>1, <2>4 DEF Entry
  <2> QED
    BY <1>0, <2>2, <2>3, <2>4
<1>7. ArrayInv'
  BY <1>3, <1>6 DEF ArrayInv, LogInv
<1> QED
  BY <1>5, <1>7 DEF LogInv

LEMMA InsertStoreStep == ASSUME LogInv, NEW f \in stores, InsertStore(f) PROVE LogInv'
<1>0. /\ net' = net /\ inserted' = inserted /\ i' = i /\ slot' = slot /\ mess' = mess
      /\ stores' = stores \ {f} /\ stores # {}
      /\ inserted \in Seq(Requests) /\ Len(inserted) \in Nat
      /\ slot \in Nat /\ Cap \in Nat /\ messages_len \in Nat
      /\ mess \in Requests /\ stores \subseteq StoresOf(mess)
      /\ Len(inserted) = slot + 1 /\ inserted[slot + 1] = mess /\ slot + 1 <= Cap
      /\ messages_len = IF "messages_len" \in stores THEN slot ELSE slot + 1
  BY ConstantsAssumption DEF LogInv, LogTypes, InsertInv, InsertStore, renderVars
<1>1. messages_len' = IF "messages_len" \in stores' THEN slot ELSE slot + 1
  BY <1>0 DEF InsertStore
<1>2. LogTypes' /\ InsertInv'
  BY <1>0, <1>1 DEF LogTypes, InsertInv, LogInv
(* The last store completes the entry. *)
<1>3. ASSUME NEW n \in 0 .. Cap - 1
      PROVE  Entry(n)' = IF n = slot THEN Partial(mess, stores \ {f}) ELSE Entry(n)
  <2>1. CASE n < slot
    BY <1>0, <2>1 DEF Entry, Done
  <2>2. CASE n > slot
    BY <1>0, <2>2 DEF Entry, Done
  <2>3. CASE n = slot /\ stores' = {}
    <3>1. Entry(n)' = Stored(mess)
      BY <1>0, <2>3 DEF Entry, Done
    <3>2. Stored(mess) = Partial(mess, {}) /\ stores \ {f} = {}
      BY <1>0, <2>3, WholeIsStored
    <3> QED
      BY <2>3, <3>1, <3>2
  <2>4. CASE n = slot /\ stores' # {}
    BY <1>0, <2>4 DEF Entry, Done
  <2> QED
    BY <1>0, <2>1, <2>2, <2>3, <2>4
<1>4. Entry(slot) = Partial(mess, stores)
  BY <1>0 DEF Entry, Done
<1>5. CASE f = "messages_len"
  <2>1. messages' = messages
    BY <1>5 DEF InsertStore
  <2>2. Partial(mess, stores \ {f}) = Partial(mess, stores)
    BY <1>5 DEF Partial
  <2>3. ArrayInv'
    BY <1>3, <1>4, <2>1, <2>2 DEF ArrayInv, LogInv
  <2> QED
    BY <1>2, <2>3 DEF LogInv
<1>6. CASE f # "messages_len"
  <2>1. messages' = [messages EXCEPT ![slot] = [@ EXCEPT ![f] = Stored(mess)[f]]]
    BY <1>6 DEF InsertStore
  <2>2. slot \in 0 .. Cap - 1 /\ messages[slot] = Partial(mess, stores)
    BY <1>0, <1>4 DEF LogInv, ArrayInv
  <2>3. [Partial(mess, stores) EXCEPT ![f] = Stored(mess)[f]] = Partial(mess, stores \ {f})
    <3>1. stores \in SUBSET StoresOf(mess) /\ mess \in Requests
      BY <1>0
    <3> QED
      BY <1>6, <3>1, StoreOne
  <2>4. messages' = [messages EXCEPT ![slot] = Partial(mess, stores \ {f})]
    BY <2>1, <2>2, <2>3
  <2>5. messages' = [n \in 0 .. Cap - 1 |->
                        IF n = slot THEN Partial(mess, stores \ {f}) ELSE Entry(n)]
    BY <2>2, <2>4 DEF LogInv, ArrayInv
  <2>6. ArrayInv'
    BY <1>3, <2>5 DEF ArrayInv
  <2> QED
    BY <1>2, <2>6 DEF LogInv
<1> QED
  BY <1>5, <1>6

(* Everybody else leaves the log alone. *)
LEMMA LogStep == ASSUME LogInv, [Next]_vars PROVE LogInv'
<1> USE DEF renderVars, listenVars
<1>0. /\ net \in Seq(Datagrams) /\ EmptyMessage \in Datagrams
      /\ \A s \in Shapes : s.type # UNKNOWN => Wire(s) \in Datagrams
  BY DEF LogInv, LogTypes, Datagrams, Requests
<1>1. ASSUME UNCHANGED <<messages_len, messages, listenVars>>, net' \in Seq(Datagrams), i' \in Nat
      PROVE  LogInv'
  <2>1. LogTypes' /\ InsertInv'
    BY <1>1 DEF LogInv, LogTypes, InsertInv
  <2>2. \A n \in 0 .. Cap - 1 : Entry(n)' = Entry(n)
    BY <1>1 DEF Entry, Done
  <2>3. ArrayInv'
    BY <1>1, <2>2 DEF LogInv, ArrayInv
  <2> QED
    BY <2>1, <2>3 DEF LogInv
<1>2. ASSUME NEW s \in Shapes, ClientSend(s) PROVE LogInv'
  <2>1. net' \in Seq(Datagrams)
    BY <1>0, <1>2 DEF ClientSend
  <2> QED
    BY <1>1, <1>2, <2>1 DEF ClientSend, LogInv, LogTypes
<1>3. CASE StrayDatagram
  <2>1. net' \in Seq(Datagrams)
    BY <1>0, <1>3 DEF StrayDatagram
  <2> QED
    BY <1>1, <1>3, <2>1 DEF StrayDatagram, LogInv, LogTypes
<1>4. CASE Ignore
  <2>1. net' \in Seq(Datagrams)
    BY <1>0, <1>4 DEF Ignore, Listening
  <2> QED
    BY <1>1, <1>4, <2>1 DEF Ignore, LogInv, LogTypes
<1>5. CASE InsertBegin
  BY <1>5, InsertBeginStep
<1>6. ASSUME NEW f \in stores, InsertStore(f) PROVE LogInv'
  BY <1>6, InsertStoreStep
<1>7. CASE DrawMessage \/ RenderPresent
  <2>1. i' \in Nat
    BY <1>7 DEF DrawMessage, RenderPresent, LogInv, LogTypes
  <2> QED
    BY <1>0, <1>1, <1>7, <2>1 DEF DrawMessage, RenderPresent
<1>8. CASE PollQuit \/ ServerCreate \/ GraphicsInit \/ ServerFree \/ UNCHANGED vars
  BY <1>0, <1>1, <1>8 DEF PollQuit, ServerCreate, GraphicsInit, ServerFree, vars, LogInv, LogTypes
<1> QED
  BY <1>2, <1>3, <1>4, <1>5, <1>6, <1>7, <1>8 DEF Next, Listener, Renderer

(* The array is the log of the accepted datagrams, decoded and in order, and  *)
(* never longer than its capacity; only its newest entry may be incomplete.   *)
THEOREM ArrayIsTheLog == Spec => []LogInOrder
<1>1. Init => LogInv
  BY LogInit
<1>2. LogInv /\ [Next]_vars => LogInv'
  BY LogStep
<1>3. LogInv => LogInOrder
  <2> SUFFICES ASSUME LogInv PROVE LogInOrder
    OBVIOUS
  <2>1. /\ Len(inserted) \in Nat /\ Len(inserted) <= Cap /\ slot \in Nat /\ Cap \in Nat
        /\ DOMAIN messages = 0 .. Cap - 1
    BY ConstantsAssumption DEF LogInv, LogTypes, InsertInv, ArrayInv
  <2>2. /\ messages_len \in {Len(inserted), Len(inserted) - 1}
        /\ messages_len < Len(inserted) => "messages_len" \in stores
    BY <2>1 DEF LogInv, LogTypes, InsertInv
  <2>3. ASSUME NEW n \in Complete PROVE messages[n] = Stored(inserted[n + 1])
    <3>1. n \in 0 .. Cap - 1 /\ n < Done
      BY <2>1 DEF Complete, Done
    <3> QED
      BY <3>1 DEF LogInv, ArrayInv, Entry
  <2> QED
    BY <2>1, <2>2, <2>3 DEF LogInOrder
<1> QED
  BY <1>1, <1>2, <1>3, PTL DEF Spec

-----------------------------------------------------------------------------
(* What the main thread draws.  The entry it reads holds the newest datagram  *)
(* in part or another one as a whole, which is the same thing with no stores  *)
(* left.                                                                      *)
OneRequest(d) ==
    \E s \in Shapes : PartOf(d, Shown(s))

LEMMA OneCall ==
    ASSUME NEW m
    PROVE  /\ m.discriminator = PIXEL => Calls(m) =
                {[op |-> PIXEL, x |-> m.x, y |-> m.y, w |-> Zero32, h |-> Zero32, rgb |-> m.rgb]}
           /\ m.discriminator = LINE => Calls(m) =
                {[op |-> LINE, x |-> m.x, y |-> m.y, w |-> m.to_x, h |-> m.to_y, rgb |-> m.rgb]}
           /\ m.discriminator = RECTANGLE => Calls(m) =
                {[op |-> RECTANGLE, x |-> m.x, y |-> m.y, w |-> m.to_y, h |-> m.to_x, rgb |-> m.rgb]}
  BY DEF Calls, PIXEL, LINE, RECTANGLE

LEMMA CallOfPart ==
    ASSUME NEW m \in Requests, NEW P, NEW d \in Calls(Partial(m, P))
    PROVE  OneRequest(d)
<1>1. PICK s \in Shapes : m = Wire(s) /\ s.type # UNKNOWN
  BY DEF Requests
<1>2. /\ s.type \in {PIXEL, LINE, RECTANGLE}
      /\ s.x \in Coords /\ s.y \in Coords /\ s.w \in Coords /\ s.h \in Coords
  BY <1>1, ConstantsAssumption
<1> DEFINE p == Partial(m, P)
           x == s.x
           y == s.y
           w == IF s.type = PIXEL THEN Zero32 ELSE s.w
           h == IF s.type = PIXEL THEN Zero32 ELSE s.h
<1>3. /\ htonl(m.x) = x /\ htonl(m.y) = y /\ htonl(m.to_x) = w /\ htonl(m.to_y) = h
      /\ m.discriminator = s.type /\ m.rgb = s.rgb
  BY <1>1, <1>2, SwapsBack, ZeroSwaps DEF Wire
<1>4. /\ p.x \in {x, Zero32} /\ p.y \in {y, Zero32} /\ p.to_x \in {w, Zero32}
      /\ p.to_y \in {h, Zero32} /\ p.rgb \in {s.rgb, Black}
      /\ p.discriminator \in {s.type, UNKNOWN}
  BY <1>3 DEF Partial
<1>5. p.discriminator = s.type
  BY <1>4 DEF Calls, UNKNOWN, PIXEL, LINE, RECTANGLE
<1> HIDE DEF p, x, y, w, h
<1>6. CASE s.type = PIXEL
  <2>1. d = [op |-> PIXEL, x |-> p.x, y |-> p.y, w |-> Zero32, h |-> Zero32, rgb |-> p.rgb]
    BY <1>5, <1>6, OneCall DEF p
  <2>2. Shown(s) = [op |-> PIXEL, x |-> x, y |-> y, w |-> Zero32, h |-> Zero32, rgb |-> s.rgb]
    BY <1>6 DEF Shown, Asked, x, y, PIXEL, RECTANGLE
  <2> QED
    BY <1>4, <2>1, <2>2 DEF OneRequest, PartOf
<1>7. CASE s.type = LINE
  <2>1. d = [op |-> LINE, x |-> p.x, y |-> p.y, w |-> p.to_x, h |-> p.to_y, rgb |-> p.rgb]
    BY <1>5, <1>7, OneCall DEF p
  <2>2. Shown(s) = [op |-> LINE, x |-> x, y |-> y, w |-> w, h |-> h, rgb |-> s.rgb]
    BY <1>7 DEF Shown, Asked, x, y, w, h, LINE, PIXEL, RECTANGLE
  <2> QED
    BY <1>4, <2>1, <2>2 DEF OneRequest, PartOf
<1>8. CASE s.type = RECTANGLE
  <2>1. d = [op |-> RECTANGLE, x |-> p.x, y |-> p.y, w |-> p.to_y, h |-> p.to_x, rgb |-> p.rgb]
    BY <1>5, <1>8, OneCall DEF p
  <2>2. Shown(s) = [op |-> RECTANGLE, x |-> x, y |-> y, w |-> h, h |-> w, rgb |-> s.rgb]
    BY <1>8 DEF Shown, Asked, x, y, w, h, RECTANGLE, PIXEL
  <2> QED
    BY <1>4, <2>1, <2>2 DEF OneRequest, PartOf
<1> QED
  BY <1>2, <1>6, <1>7, <1>8

DrawnInv == LogInv /\ \A d \in drawn : OneRequest(d)

LEMMA DrawnStep == ASSUME DrawnInv, [Next]_vars PROVE DrawnInv'
<1>1. LogInv /\ LogInv'
  BY LogStep DEF DrawnInv
<1>2. CASE DrawMessage
  <2>1. /\ i \in Nat /\ i < messages_len /\ Len(inserted) <= Cap /\ Cap \in Nat
        /\ Len(inserted) \in Nat /\ messages_len \in Nat /\ slot \in Nat
        /\ inserted \in Seq(Requests) /\ drawn' = Calls(messages[i])
    BY <1>1, <1>2, ConstantsAssumption DEF LogInv, LogTypes, InsertInv, DrawMessage, MoreToDraw
  <2>2. messages_len <= Len(inserted)
    BY <1>1, <2>1 DEF LogInv, InsertInv
  <2>3. messages[i] = Entry(i)
    BY <1>1, <2>1, <2>2 DEF LogInv, ArrayInv
  <2>4. \A d \in Calls(Entry(i)) : OneRequest(d)
    <3>1. CASE i < Done
      <4>1. inserted[i + 1] \in Requests /\ Entry(i) = Partial(inserted[i + 1], {})
        BY <2>1, <2>2, <3>1, WholeIsStored DEF Entry
      <4> QED
        BY <4>1, CallOfPart
    <3>2. CASE ~(i < Done)
      <4>1. Entry(i) = Partial(mess, stores) /\ stores # {}
        BY <2>1, <2>2, <3>2 DEF Entry, Done
      <4>2. mess \in Requests
        BY <1>1, <4>1 DEF LogInv, InsertInv
      <4> QED
        BY <4>1, <4>2, CallOfPart
    <3> QED
      BY <3>1, <3>2
  <2> QED
    BY <1>1, <2>1, <2>3, <2>4 DEF DrawnInv
<1>3. CASE ~DrawMessage
  <2>1. drawn' = drawn
    <3> USE DEF renderVars
    <3>1. ASSUME NEW s \in Shapes, ClientSend(s) PROVE drawn' = drawn
      BY <3>1 DEF ClientSend
    <3>2. ASSUME NEW f \in stores, InsertStore(f) PROVE drawn' = drawn
      BY <3>2 DEF InsertStore
    <3>3. ASSUME \/ StrayDatagram \/ Ignore \/ InsertBegin \/ PollQuit \/ ServerCreate
                 \/ GraphicsInit \/ RenderPresent \/ ServerFree \/ UNCHANGED vars
          PROVE  drawn' = drawn
      BY <3>3 DEF StrayDatagram, Ignore, InsertBegin, PollQuit, ServerCreate, GraphicsInit,
         RenderPresent, ServerFree, vars
    <3> QED
      BY <1>3, <3>1, <3>2, <3>3 DEF Next, Listener, Renderer
  <2> QED
    BY <1>1, <2>1 DEF DrawnInv
<1> QED
  BY <1>2, <1>3

(* Whatever half-stored entry the main thread reads, the call it makes is one *)
(* client's request, in the client's byte order, some numbers perhaps zero    *)
(* and a rectangle's sides exchanged.                                         *)
THEOREM DrawsOneRequest == Spec => []DrawnFromOneRequest
<1>1. Init => DrawnInv
  BY LogInit DEF DrawnInv, Init
<1>2. DrawnInv /\ [Next]_vars => DrawnInv'
  BY DrawnStep
<1>3. DrawnInv => DrawnFromOneRequest
  BY DEF DrawnInv, OneRequest, DrawnFromOneRequest
<1> QED
  BY <1>1, <1>2, <1>3, PTL DEF Spec
=============================================================================
