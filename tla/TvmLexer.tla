------------------------------ MODULE TvmLexer ------------------------------
(***************************************************************************)
(* psy::tvm::Tokenize (src/tvm/tvm.cc), which turns an assembler source     *)
(* into the tokens that Parse reads.  Characters are collected in buffer;   *)
(* separators push it as a token.  A comment pushes nothing, so that a word *)
(* it is written against goes on in the next line.                          *)
(* One character stands for each class that is treated alike.               *)
(***************************************************************************)
EXTENDS Naturals, Sequences, FiniteSets

CONSTANTS
    MaxSource   \* bound on the length of a source

ASSUME SourceAssumption == MaxSource \in Nat

Quote == "quote"
Break == "\n"
Separators == {" "}   \* comma, blank and tab
SourceCharacters == {"w", ";", Quote, ":", Break} \cup Separators

VARIABLES
    source,
    used,         \* how many characters have been read
    buffer,       \* the places of the characters in the buffer
    line_number,
    lexed,        \* the tokens so far, each with its value, its line and its places
    tokenizePc    \* "lex", "done", or "exit" on a string that is not closed

tokenizeVars == <<source, used, buffer, line_number, lexed, tokenizePc>>

TokenizeInit ==
    /\ source \in UNION {[1..n -> SourceCharacters] : n \in 0..MaxSource}
    /\ used = 0 /\ buffer = <<>> /\ line_number = 1 /\ lexed = <<>> /\ tokenizePc = "lex"

-----------------------------------------------------------------------------
Comes(c) == tokenizePc = "lex" /\ used < Len(source) /\ source[used + 1] = c

(* How far is.get goes: to the first of these characters, or to the end. *)
ReadTo(stops) ==
    LET ends == {i \in used + 2..Len(source) : source[i] \in stops}
    IN  IF ends = {} THEN Len(source) ELSE CHOOSE i \in ends : \A j \in ends : i <= j

TokenAt(places, line) ==
    [value_ |-> [k \in DOMAIN places |-> source[places[k]]], line_ |-> line, places |-> places]

(* flush_buffer *)
Flush(places, line) ==
    IF places = <<>> THEN lexed ELSE Append(lexed, TokenAt(places, line))

Comment ==
    /\ Comes(";")
    /\ used' = ReadTo({Break})
    /\ line_number' = IF source[used'] = Break THEN line_number + 1 ELSE line_number
    /\ UNCHANGED <<source, buffer, lexed, tokenizePc>>

(* The quote that opens the string is also the last character read if nothing *)
(* follows it, and is then taken for the one that closes it.                  *)
StringLiteral ==
    /\ Comes(Quote)
    /\ LET end == ReadTo({Quote, Break})
           body == [k \in 1..end - used |-> used + k]
       IN  /\ used' = end
           /\ IF source[end] = Break
              THEN tokenizePc' = "exit" /\ UNCHANGED <<buffer, lexed>>
              ELSE /\ lexed' = Flush(buffer \o IF end = used + 1 THEN <<end, end>> ELSE body, line_number)
                   /\ buffer' = <<>> /\ UNCHANGED tokenizePc
    /\ UNCHANGED <<source, line_number>>

(* The buffer, and the colon itself. *)
Colon ==
    /\ Comes(":")
    /\ used' = used + 1
    /\ lexed' = Append(Flush(buffer, line_number), TokenAt(<<used + 1>>, line_number))
    /\ buffer' = <<>>
    /\ UNCHANGED <<source, line_number, tokenizePc>>

LineOfBufferAfter == line_number + 1

(* The line is counted after the buffer is pushed. *)
LineOfBuffer == line_number

LineBreak ==
    /\ Comes(Break)
    /\ used' = used + 1
    /\ lexed' = Flush(buffer, LineOfBuffer) /\ buffer' = <<>>
    /\ line_number' = line_number + 1
    /\ UNCHANGED <<source, tokenizePc>>

Separator ==
    /\ \E c \in Separators : Comes(c)
    /\ used' = used + 1
    /\ lexed' = Flush(buffer, line_number) /\ buffer' = <<>>
    /\ UNCHANGED <<source, line_number, tokenizePc>>

OtherCharacter ==
    /\ Comes("w")
    /\ used' = used + 1 /\ buffer' = Append(buffer, used + 1)
    /\ UNCHANGED <<source, line_number, lexed, tokenizePc>>

EndOfSource ==
    /\ tokenizePc = "lex" /\ used = Len(source)
    /\ lexed' = Flush(buffer, line_number) /\ buffer' = <<>>
    /\ tokenizePc' = "done"
    /\ UNCHANGED <<source, used, line_number>>

TokenizeNext ==
    \/ Comment \/ StringLiteral \/ Colon \/ LineBreak \/ Separator
    \/ OtherCharacter \/ EndOfSource

TokenizeSpec == TokenizeInit /\ [][TokenizeNext]_tokenizeVars

-----------------------------------------------------------------------------
LineOf(place) == 1 + Cardinality({i \in 1..place - 1 : source[i] = Break})

(* A comment written against the word in front of it. *)
Glued(i) == i \in 2..Len(source) /\ source[i] = ";" /\ source[i - 1] = "w"

(* A token is a stretch of the source and carries the number of the line it    *)
(* stands in, which Parse's messages and rows rely on.  Two sources break      *)
(* this: a comment written against a word, which ties the word to the next     *)
(* line, and a lone quote at the very end, which is doubled.                   *)
TokensInTheirLines ==
    \A k \in DOMAIN lexed :
        LET places == lexed[k].places
            first == places[1]
            last == places[Len(places)]
        IN  \/ /\ places = [i \in 1..last - first + 1 |-> first + i - 1]
               /\ lexed[k].line_ = LineOf(first)
            \/ \E i \in first..last + 1 : Glued(i)
            \/ last = Len(source) /\ source[last] = Quote /\ Len(places) > last - first + 1
=============================================================================
