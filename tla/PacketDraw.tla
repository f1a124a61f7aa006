----------------------------- MODULE PacketDraw -----------------------------
(***************************************************************************)
(* packetdraw (src/packetdraw): clients send shapes by UDP, a listener      *)
(* thread appends them to an array of fixed capacity, and the main thread   *)
(* draws the array over and over.  The two share messages_len and the array *)
(* without a lock.                                                          *)
(*                                                                          *)
(* The stores of one insertion are independent of each other, so compiler   *)
(* and processor may do them in any order: that is how the data race is     *)
(* modelled.  Because they may, reading a slot in one step shows the main   *)
(* thread every mixture that reading it field by field would.               *)
(***************************************************************************)
EXTENDS Naturals, Sequences, FiniteSets

CONSTANTS
    Shapes,    \* the requests clients make: records [type, x, y, w, h, rgb]
    Cap,       \* messages_cap (4096 in the code)
    MaxSends   \* bound on the number of datagrams

UNKNOWN == 0
PIXEL == 1
LINE == 2
RECTANGLE == 3

Byte == 0 .. 255
Coords == Byte \X Byte \X Byte \X Byte  \* a uint32_t, most significant byte first
Zero32 == <<0, 0, 0, 0>>
Black == 0         \* one colour byte stands for the three

ASSUME ConstantsAssumption ==
    /\ Cap \in Nat /\ MaxSends \in Nat
    /\ Shapes \subseteq [type : {UNKNOWN, PIXEL, LINE, RECTANGLE},
                         x : Coords, y : Coords, w : Coords, h : Coords, rgb : Byte]

VARIABLES
    phase,         \* render_loop: create, graphics_init, render, cleanup, return
    alive,         \* the loop variable of packetdraw_graphics_render
    i,             \* the index of its for loop
    messages_len,
    messages,      \* the array, calloc'ed to zeros
    net,           \* datagrams in the socket buffer
    mess,          \* the datagram being inserted
    slot,          \* the listener's local len
    stores,        \* the stores of that insertion still to be done
    drawn,         \* the SDL call that the last draw_message made, if any
    sends,
    inserted       \* history variable: the datagrams inserted, in order

listenVars == <<mess, slot, stores, inserted>>
renderVars == <<phase, alive, i, drawn>>
vars == <<renderVars, messages_len, messages, net, listenVars, sends>>

EmptyMessage == [discriminator |-> UNKNOWN, x |-> Zero32, y |-> Zero32,
                 to_x |-> Zero32, to_y |-> Zero32, rgb |-> Black]

(* htonl on a little-endian machine. *)
htonl(v) == <<v[4], v[3], v[2], v[1]>>

(* packetdraw_client_send_message: the struct message put on the wire.  A    *)
(* pixel has no to_x and to_y; the datagram holds zeros there.               *)
Wire(s) ==
    [discriminator |-> s.type,
     x |-> htonl(s.x), y |-> htonl(s.y),
     to_x |-> IF s.type = PIXEL THEN Zero32 ELSE htonl(s.w),
     to_y |-> IF s.type = PIXEL THEN Zero32 ELSE htonl(s.h),
     rgb |-> s.rgb]

StoredRaw(m) == m

(* What insert_message_from_buffer stores in the slot, field by field. *)
Stored(m) ==
    [discriminator |-> m.discriminator, x |-> htonl(m.x), y |-> htonl(m.y),
     to_x |-> htonl(m.to_x), to_y |-> htonl(m.to_y), rgb |-> m.rgb]

StoresOf(m) ==
    {"messages_len", "discriminator", "x", "y", "rgb"}
        \cup (IF m.discriminator = PIXEL THEN {} ELSE {"to_x", "to_y"})

Init ==
    /\ phase = "create" /\ alive = TRUE /\ i = 0
    /\ messages_len = 0
    /\ messages = [n \in 0 .. Cap - 1 |-> EmptyMessage]
    /\ net = <<>> /\ mess = EmptyMessage /\ slot = 0 /\ stores = {}
    /\ drawn = {} /\ sends = 0 /\ inserted = <<>>

-----------------------------------------------------------------------------
(* Clients.                                                                  *)

Bound == phase \notin {"create", "return"}

(* A type the option parser does not know is refused; the rest is sent and   *)
(* may be lost.                                                              *)
ClientSend(s) ==
    /\ sends < MaxSends /\ s.type # UNKNOWN
    /\ sends' = sends + 1
    /\ \/ Bound /\ net' = Append(net, Wire(s))
       \/ UNCHANGED net
    /\ UNCHANGED <<renderVars, messages_len, messages, listenVars>>

(* Some other program's datagram whose first byte is no known type. *)
StrayDatagram ==
    /\ sends < MaxSends /\ Bound
    /\ sends' = sends + 1
    /\ net' = Append(net, EmptyMessage)
    /\ UNCHANGED <<renderVars, messages_len, messages, listenVars>>

-----------------------------------------------------------------------------
(* The listener thread.                                                      *)

Listening == phase \in {"render", "cleanup"} /\ stores = {} /\ net # <<>>

FullLate == messages_len > Cap

Full == messages_len >= Cap

Ignore ==
    /\ Listening
    /\ Full \/ Head(net).discriminator = UNKNOWN
    /\ net' = Tail(net)
    /\ UNCHANGED <<renderVars, messages_len, messages, listenVars, sends>>

SlotOfPrevious == IF messages_len = 0 THEN 0 ELSE messages_len - 1

SlotOfNext == messages_len

InsertBegin ==
    /\ Listening
    /\ ~Full /\ Head(net).discriminator # UNKNOWN
    /\ net' = Tail(net)
    /\ mess' = Head(net)
    /\ slot' = SlotOfNext
    /\ stores' = StoresOf(Head(net))
    /\ inserted' = Append(inserted, Head(net))
    /\ UNCHANGED <<renderVars, messages_len, messages, sends>>

(* One of the stores reaches memory.  (After cleanup has freed the server    *)
(* the process is about to return from main; where the stores go then is     *)
(* not modelled.)                                                            *)
InsertStore(f) ==
    /\ phase \in {"render", "cleanup"} /\ f \in stores
    /\ stores' = stores \ {f}
    /\ IF f = "messages_len"
       THEN messages_len' = slot + 1 /\ UNCHANGED messages
       ELSE /\ messages' = [messages EXCEPT ![slot] =
                               [@ EXCEPT ![f] = Stored(mess)[f]]]
            /\ UNCHANGED messages_len
    /\ UNCHANGED <<renderVars, net, mess, slot, sends, inserted>>

-----------------------------------------------------------------------------
(* The main thread.                                                          *)

(* A failure of socket, setsockopt or bind makes render_loop abort. *)
ServerCreate ==
    /\ phase = "create"
    /\ phase' \in {"graphics_init", "return"}
    /\ UNCHANGED <<alive, i, drawn, messages_len, messages, net, listenVars, sends>>

GraphicsInit ==
    /\ phase = "graphics_init"
    /\ phase' \in {"render", "cleanup"}
    /\ UNCHANGED <<alive, i, drawn, messages_len, messages, net, listenVars, sends>>

(* SDL_PollEvent, at the top of a frame: quitting still draws that frame. *)
PollQuit ==
    /\ phase = "render" /\ i = 0 /\ alive
    /\ alive' = FALSE
    /\ UNCHANGED <<phase, i, drawn, messages_len, messages, net, listenVars, sends>>

(* draw_message: the SDL call a slot turns into, if any.  w and h are the    *)
(* rectangle's sides, or the far end of a line.                              *)
Calls(m) ==
    CASE m.discriminator = PIXEL ->
            {[op |-> PIXEL, x |-> m.x, y |-> m.y, w |-> Zero32, h |-> Zero32,
              rgb |-> m.rgb]}
      [] m.discriminator = LINE ->
            {[op |-> LINE, x |-> m.x, y |-> m.y, w |-> m.to_x, h |-> m.to_y,
              rgb |-> m.rgb]}
      [] m.discriminator = RECTANGLE ->
            {[op |-> RECTANGLE, x |-> m.x, y |-> m.y, w |-> m.to_y, h |-> m.to_x,
              rgb |-> m.rgb]}
      [] OTHER -> {}

MoreToDrawButLast == i + 1 < messages_len

(* The test of the for loop, which reads messages_len again every time. *)
MoreToDraw == i < messages_len

DrawMessage ==
    /\ phase = "render" /\ MoreToDraw
    /\ drawn' = Calls(messages[i])
    /\ i' = i + 1
    /\ UNCHANGED <<phase, alive, messages_len, messages, net, listenVars, sends>>

RenderPresent ==
    /\ phase = "render" /\ ~MoreToDraw
    /\ i' = 0
    /\ phase' = IF alive THEN "render" ELSE "cleanup"
    /\ UNCHANGED <<alive, drawn, messages_len, messages, net, listenVars, sends>>

(* packetdraw_server_free, and main returns: the listener goes with it. *)
ServerFree ==
    /\ phase = "cleanup"
    /\ phase' = "return"
    /\ UNCHANGED <<alive, i, drawn, messages_len, messages, net, listenVars, sends>>

-----------------------------------------------------------------------------
Listener == Ignore \/ InsertBegin \/ \E f \in stores : InsertStore(f)
Renderer == ServerCreate \/ GraphicsInit \/ DrawMessage \/ RenderPresent \/ ServerFree

Next == \/ \E s \in Shapes : ClientSend(s)
        \/ StrayDatagram \/ PollQuit \/ Listener \/ Renderer

Spec == Init /\ [][Next]_vars

(* Both threads are scheduled; nobody is obliged to send or to quit. *)
FairSpec == Spec /\ WF_vars(Listener) /\ WF_vars(Renderer)

-----------------------------------------------------------------------------
(* Properties.                                                               *)

(* The entries that have been inserted, but for a newest one whose stores     *)
(* are still under way.                                                       *)
Complete ==
    {n \in DOMAIN messages : n < IF stores = {} THEN Len(inserted) ELSE Len(inserted) - 1}

(* The array is the log of the accepted datagrams: entry n is the n-th one,  *)
(* decoded, except the single entry whose stores are still under way.  So    *)
(* the main thread can meet at most one half-written entry, the newest; and  *)
(* however many datagrams come, none is written behind the array.            *)
LogInOrder ==
    /\ messages_len \in {Len(inserted), Len(inserted) - 1}
    /\ Len(inserted) <= Cap
    /\ messages_len < Len(inserted) => "messages_len" \in stores
    /\ \A n \in Complete : messages[n] = Stored(inserted[n + 1])

(* What a client asks for, by the options of the usage text: -x and -y are    *)
(* the place, -w the width and -k the height (of a line: its far end).        *)
Asked(s) ==
    [op |-> s.type, x |-> s.x, y |-> s.y, rgb |-> s.rgb,
     w |-> IF s.type = PIXEL THEN Zero32 ELSE s.w,
     h |-> IF s.type = PIXEL THEN Zero32 ELSE s.h]

(* What it gets: draw_rect lays a rectangle on its side. *)
Shown(s) ==
    IF s.type = RECTANGLE
    THEN [Asked(s) EXCEPT !.w = Asked(s).h, !.h = Asked(s).w]
    ELSE Asked(s)

(* Call d is call c, some of its numbers perhaps still zero. *)
PartOf(d, c) ==
    /\ d.op = c.op
    /\ \A f \in {"x", "y", "w", "h"} : d[f] \in {c[f], Zero32}
    /\ d.rgb \in {c.rgb, Black}

(* A torn read never mixes two requests: every call made is one client's     *)
(* request in the client's byte order, some of its numbers perhaps still     *)
(* zero, and the sides of a rectangle exchanged.                             *)
DrawnFromOneRequest ==
    \A d \in drawn : \E s \in Shapes : PartOf(d, Shown(s))

(* The same with -w for the width and -k for the height, as the usage text   *)
(* has it.  draw_rect does otherwise: packetdraw_rect violates this.         *)
DrawnAsAsked ==
    \A d \in drawn : \E s \in Shapes : PartOf(d, Asked(s))

(* Every accepted datagram is sooner or later drawn in full, that is with    *)
(* all its numbers (and a rectangle's sides exchanged), unless the window is *)
(* closed first.                                                             *)
EventuallyDrawn ==
    \A s \in Shapes :
        (\E n \in DOMAIN inserted : inserted[n] = Wire(s))
            ~> (Shown(s) \in drawn \/ phase # "render")
=============================================================================
