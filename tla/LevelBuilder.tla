---------------------------- MODULE LevelBuilder ----------------------------
(***************************************************************************)
(* The level reader of gamejam (src/gamejam/level_builder.cc, utils.cc).    *)
(* A text is metadata (x:, y:, t: in any order, ended by an empty line),    *)
(* a double newline, and tiles.  One LevelBuilder may read several texts,   *)
(* one after the other, and keeps what it parsed.                           *)
(* A character of a text stands for a run of its kind: a number for its     *)
(* digits, "/p" for a path.                                                 *)
(***************************************************************************)
EXTENDS Naturals, Sequences, SequencesExt

CONSTANTS
    Texts,      \* the texts that may be read
    MaxTexts    \* bound on how many one builder reads

VARIABLES
    input,      \* the text being read
    pos,        \* how many of its characters have been consumed
    levelPc,    \* "idle", "metadata", "delimiter", "tiles", or "threw"
    width_, height_, tileset_, path_to_tileset_, tiles_,
    level,      \* what FromText last returned: a level, or nothing
    textCount

metaVars == <<width_, height_, tileset_, path_to_tileset_>>
levelVars == <<input, pos, levelPc, metaVars, tiles_, level, textCount>>

NoLevel == <<>>
NL == "\n"
Huge == 1000   \* a size no vector can be reserved with

(* The sizes have no initialisers: "LevelBuilder builder;" leaves them as the *)
(* memory was, LevelBuilder() makes them zero.                                *)
LevelInit ==
    /\ input = <<>> /\ pos = 0 /\ levelPc = "idle"
    /\ width_ \in {0, Huge} /\ height_ = width_ /\ tileset_ = <<width_, width_>>
    /\ path_to_tileset_ = "" /\ tiles_ = <<>>
    /\ level = NoLevel /\ textCount = 0

FromText(txt) ==
    /\ levelPc = "idle"
    /\ input' = txt /\ pos' = 0 /\ levelPc' = "metadata"
    /\ textCount' = textCount + 1
    /\ UNCHANGED <<metaVars, tiles_, level>>

-----------------------------------------------------------------------------
(* utils.cc.  A reader gives the value, if any, and where it stopped.        *)

CharAt(i) == IF i <= Len(input) THEN input[i] ELSE "EOF"

ValueOf(c) == CASE c = "1" -> 1 [] c = "2" -> 2 [] OTHER -> 0

(* Where the field that begins after place i ends: before a colon (if one     *)
(* stops it) or at a newline or the end of the text.                          *)
FieldEnd(i, stops) ==
    CHOOSE j \in i + 1..Len(input) + 1 :
        /\ CharAt(j) \in stops
        /\ \A k \in i + 1..j - 1 : CharAt(k) \notin stops

Opens(i) == CharAt(i) = ":" /\ CharAt(i + 1) \notin {NL, "EOF"}

(* The newline that ends a number is consumed, a colon is not. *)
ParseInt(i) ==
    IF ~Opens(i) THEN [ok |-> FALSE, value |-> 0, next |-> i + 1]
    ELSE LET end == FieldEnd(i, {":", NL, "EOF"})
         IN  [ok |-> TRUE, value |-> ValueOf(input[i + 1]),
              next |-> IF CharAt(end) = NL THEN end + 1 ELSE end]

ParseStr(i) ==
    IF ~Opens(i) THEN [ok |-> FALSE, value |-> "", next |-> i + 1]
    ELSE [ok |-> TRUE, value |-> input[i + 1], next |-> FieldEnd(i, {NL, "EOF"}) + 1]

-----------------------------------------------------------------------------
(* ParseMetadata, one turn per key.                                          *)

Key(c) == levelPc = "metadata" /\ CharAt(pos + 1) = c

Fail == levelPc' = "idle" /\ level' = NoLevel

Read(field) ==
    /\ pos' = field.next - 1
    /\ IF field.ok THEN UNCHANGED <<levelPc, level>> ELSE Fail

MetadataX ==
    /\ Key("x")
    /\ LET field == ParseInt(pos + 2)
       IN  Read(field) /\ width_' = IF field.ok THEN field.value ELSE width_
    /\ UNCHANGED <<input, height_, tileset_, path_to_tileset_, tiles_, textCount>>

MetadataY ==
    /\ Key("y")
    /\ LET field == ParseInt(pos + 2)
       IN  Read(field) /\ height_' = IF field.ok THEN field.value ELSE height_
    /\ UNCHANGED <<input, width_, tileset_, path_to_tileset_, tiles_, textCount>>

(* Two numbers and a path; those read before one is missing are kept. *)
MetadataT ==
    /\ Key("t")
    /\ LET w == ParseInt(pos + 2)
           h == ParseInt(w.next)
           p == ParseStr(h.next)
       IN  /\ tileset_' = <<IF w.ok THEN w.value ELSE tileset_[1],
                            IF w.ok /\ h.ok THEN h.value ELSE tileset_[2]>>
           /\ path_to_tileset_' = IF w.ok /\ h.ok /\ p.ok THEN p.value ELSE path_to_tileset_
           /\ Read(IF ~w.ok THEN w ELSE IF ~h.ok THEN h ELSE p)
    /\ UNCHANGED <<input, width_, height_, tiles_, textCount>>

MetadataEnd ==
    /\ Key(NL)
    /\ pos' = pos + 1 /\ levelPc' = "delimiter"
    /\ UNCHANGED <<input, metaVars, tiles_, level, textCount>>

MetadataError ==
    /\ levelPc = "metadata" /\ CharAt(pos + 1) \notin {"x", "y", "t", NL}
    /\ Fail
    /\ UNCHANGED <<input, pos, metaVars, tiles_, textCount>>

-----------------------------------------------------------------------------
(* ParseTiles.                                                               *)

DoubleNewlines == {i \in pos + 1..Len(input) - 1 : input[i] = NL /\ input[i + 1] = NL}

(* reserve() is given the product of the tileset's sizes, and throws if it is *)
(* out of reach.                                                              *)
FindDelimiter ==
    /\ levelPc = "delimiter" /\ DoubleNewlines # {}
    /\ pos' = 1 + CHOOSE i \in DoubleNewlines : \A j \in DoubleNewlines : i <= j
    /\ levelPc' = IF tileset_[1] * tileset_[2] >= Huge THEN "threw" ELSE "tiles"
    /\ UNCHANGED <<input, metaVars, tiles_, level, textCount>>

NoDelimiter ==
    /\ levelPc = "delimiter" /\ DoubleNewlines = {}
    /\ Fail
    /\ UNCHANGED <<input, pos, metaVars, tiles_, textCount>>

TileIndex == [c \in {" ", "#", "."} |-> CASE c = " " -> 0 [] c = "#" -> 1 [] c = "." -> 2]

ReadTile ==
    /\ levelPc = "tiles" /\ CharAt(pos + 1) \in DOMAIN TileIndex \cup {NL}
    /\ pos' = pos + 1
    /\ tiles_' = IF CharAt(pos + 1) = NL THEN tiles_ ELSE Append(tiles_, TileIndex[CharAt(pos + 1)])
    /\ UNCHANGED <<input, levelPc, metaVars, level, textCount>>

AfterBadTileKept == tiles_

AfterBadTile == <<>>

BadTile ==
    /\ levelPc = "tiles" /\ CharAt(pos + 1) \notin DOMAIN TileIndex \cup {NL, "EOF"}
    /\ tiles_' = AfterBadTile
    /\ Fail
    /\ UNCHANGED <<input, pos, metaVars, textCount>>

(* The vector is moved into the level, which leaves the builder an empty one. *)
LevelDone ==
    /\ levelPc = "tiles" /\ CharAt(pos + 1) = "EOF"
    /\ level' = <<[tiles |-> tiles_, width |-> width_, height |-> height_, path |-> path_to_tileset_]>>
    /\ tiles_' = <<>> /\ levelPc' = "idle"
    /\ UNCHANGED <<input, pos, metaVars, textCount>>

LevelNext ==
    \/ textCount < MaxTexts /\ \E txt \in Texts : FromText(txt)
    \/ MetadataX \/ MetadataY \/ MetadataT \/ MetadataEnd \/ MetadataError
    \/ FindDelimiter \/ NoDelimiter \/ ReadTile \/ BadTile \/ LevelDone

-----------------------------------------------------------------------------
(* Properties.                                                               *)

(* The place of the empty line that ends the metadata, and of the end of the *)
(* first double newline after it.                                            *)
EmptyLine ==
    CHOOSE i \in DOMAIN input :
        /\ input[i] = NL /\ (i = 1 \/ input[i - 1] = NL)
        /\ \A j \in 2..i - 1 : ~(input[j] = NL /\ input[j - 1] = NL)

BodyStart ==
    CHOOSE i \in EmptyLine + 2..Len(input) :
        /\ input[i] = NL /\ input[i - 1] = NL
        /\ \A j \in EmptyLine + 2..i - 1 : ~(input[j] = NL /\ input[j - 1] = NL)

Gives(key) == {i \in DOMAIN input : input[i] = key}

(* A level is made of its own text: its tiles are those after the double      *)
(* newline, none of them left by an earlier text that was refused half way,   *)
(* and a width, height or path that the text gives is the level's.  What the   *)
(* text does not give is an earlier text's or nobody's; a builder that was    *)
(* never told of a tileset may throw, one that was does not.                  *)
LevelOfItsText ==
    /\ levelPc = "idle" /\ level # NoLevel =>
        LET body == SelectSeq(SubSeq(input, BodyStart + 1, Len(input)), LAMBDA c : c # NL)
        IN  /\ level[1].tiles = [k \in DOMAIN body |-> TileIndex[body[k]]]
            /\ Gives("x") # {} => level[1].width = ValueOf(input[Max(Gives("x")) + 2])
            /\ Gives("y") # {} => level[1].height = ValueOf(input[Max(Gives("y")) + 2])
            /\ Gives("t") # {} => level[1].path = "/p"
    /\ levelPc = "threw" => Gives("t") = {}
=============================================================================
