---------------------------- MODULE MCPacketDraw ----------------------------
(* A pixel, a rectangle (a line is stored like one) and a request without a  *)
(* shape, with numbers that tell fields and byte orders apart.               *)
EXTENDS PacketDraw

N(n) == <<0, 0, 1, n>>

Pixel == [type |-> PIXEL, x |-> N(2), y |-> N(3), w |-> Zero32, h |-> Zero32,
          rgb |-> 10]
Rectangle == [type |-> RECTANGLE, x |-> N(8), y |-> N(9), w |-> N(10), h |-> N(11),
              rgb |-> 30]
NoShape == [Pixel EXCEPT !.type = UNKNOWN]

ThreeShapes == {Pixel, Rectangle, NoShape}
=============================================================================
