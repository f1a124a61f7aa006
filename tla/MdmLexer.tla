------------------------------ MODULE MdmLexer ------------------------------
(***************************************************************************)
(* The lexer of mdm (src/mdm/lexer.cc) and Parser::MarkNewlineTokens        *)
(* (parser.cc).  Process reads a character at a time, collects words, and   *)
(* looks up to two characters ahead at a backtick or a hash, going back     *)
(* with seekg.  istream::get at the end of the text leaves its argument as  *)
(* it was, which here is the character that made the lexer look.            *)
(* One character stands for each class that is treated alike.               *)
(***************************************************************************)
EXTENDS Naturals, Sequences, SequencesExt, FiniteSets

CONSTANTS
    MaxText   \* bound on the length of a text

Letter == "a"
Blank == " "
Newline == "\n"
Backtick == "backtick"
Punct == {".", Backtick}
Symbol == {"@", "#"}
Characters == {Letter, Blank, Newline} \cup Punct \cup Symbol

VARIABLES
    text,       \* what the stream holds
    at,         \* how many characters have been read
    word,       \* ss, the word being collected
    linecount,
    tokens_,    \* the tokens so far
    lexPc       \* "lex", "mark" (Parser::MarkNewlineTokens), "done"

mdmVars == <<text, at, word, linecount, tokens_, lexPc>>

Token(value, type, line) ==
    [token_ |-> value, type_ |-> type, line_number_ |-> line, is_first_on_newline_ |-> FALSE]

MdmInit ==
    /\ text \in SeqOf(Characters, MaxText)
    /\ at = 0 /\ word = <<>> /\ linecount = 0 /\ tokens_ = <<>> /\ lexPc = "lex"

-----------------------------------------------------------------------------
(* Lexer::Process *)

Minimum(m, n) == IF m < n THEN m ELSE n

Get(c) == lexPc = "lex" /\ at < Len(text) /\ c = text[at + 1]

(* The collected word becomes a token when c ends it. *)
Flushed ==
    IF word = <<>> THEN tokens_ ELSE Append(tokens_, Token(word, "kWord", linecount))

Emit(value, type, line) == tokens_' = Append(Flushed, Token(value, type, line)) /\ word' = <<>>

Whitespace ==
    /\ Get(Blank)
    /\ at' = at + 1 /\ tokens_' = Flushed /\ word' = <<>>
    /\ UNCHANGED <<text, linecount, lexPc>>

EndOfLine ==
    /\ Get(Newline)
    /\ at' = at + 1 /\ linecount' = linecount + 1
    /\ Emit(<<Newline>>, "kNewline", linecount + 1)
    /\ UNCHANGED <<text, lexPc>>

WordCharacter ==
    /\ Get(Letter)
    /\ at' = at + 1 /\ word' = Append(word, Letter)
    /\ UNCHANGED <<text, linecount, tokens_, lexPc>>

OtherPunct ==
    /\ Get(".")
    /\ at' = at + 1 /\ Emit(<<".">>, "kPunct", linecount)
    /\ UNCHANGED <<text, linecount, lexPc>>

OtherSymbol ==
    /\ Get("@")
    /\ at' = at + 1 /\ Emit(<<"@">>, "kSymbol", linecount)
    /\ UNCHANGED <<text, linecount, lexPc>>

(* Is the n-th character after this one a c?  Beyond the end get keeps c.     *)
Ahead(c, n) == at + 1 + n <= Len(text) => text[at + 1 + n] = c

(* How many of c, up to three, the lexer believes it sees. *)
Seen(c) == CASE ~Ahead(c, 1) -> 1 [] Ahead(c, 1) /\ ~Ahead(c, 2) -> 2 [] OTHER -> 3

AfterOriginal(n) == IF n = 3 THEN Minimum(at + 3, Len(text)) ELSE at + 1

(* Where the stream stands after them: seekg(original), or one further. *)
After(n) == Minimum(at + n, Len(text))

(* Two backticks that a third does not follow are read and become one. *)
Backticks ==
    /\ Get(Backtick)
    /\ IF Seen(Backtick) = 3 THEN Emit(<<Backtick, Backtick, Backtick>>, "kCodeDelimiter", linecount)
                        ELSE Emit(<<Backtick>>, "kPunct", linecount)
    /\ at' = After(Seen(Backtick))
    /\ UNCHANGED <<text, linecount, lexPc>>

Hashes ==
    /\ Get("#")
    /\ LET n == Seen("#")
       IN  /\ Emit([i \in 1..n |-> "#"], <<"kHeader1", "kHeader2", "kHeader3">>[n], linecount)
           /\ at' = After(n)
    /\ UNCHANGED <<text, linecount, lexPc>>

(* The last word has no character after it. *)
EndOfText ==
    /\ lexPc = "lex" /\ at = Len(text)
    /\ tokens_' = Flushed /\ word' = <<>>
    /\ lexPc' = "mark"
    /\ UNCHANGED <<text, at, linecount>>

-----------------------------------------------------------------------------
(* Parser::MarkNewlineTokens.  The first token is marked and passed over, so   *)
(* that a newline in first place does not count for the token after it.        *)
Marked(k) ==
    \/ k = 1
    \/ /\ tokens_[k].type_ # "kNewline"
       /\ k > 2 /\ tokens_[k - 1].type_ = "kNewline"

MarkNewlineTokens ==
    /\ lexPc = "mark"
    /\ tokens_' = [k \in DOMAIN tokens_ |-> [tokens_[k] EXCEPT !.is_first_on_newline_ = Marked(k)]]
    /\ lexPc' = "done"
    /\ UNCHANGED <<text, at, word, linecount>>

MdmNext ==
    \/ Whitespace \/ EndOfLine \/ WordCharacter \/ OtherPunct \/ OtherSymbol
    \/ Backticks \/ Hashes \/ EndOfText \/ MarkNewlineTokens

MdmSpec == MdmInit /\ [][MdmNext]_mdmVars

-----------------------------------------------------------------------------
(* Properties.                                                               *)

Spelled == FlattenSeq([k \in DOMAIN tokens_ |-> tokens_[k].token_])

(* The runs of a character in the text, as the places of their ends. *)
RunsOf(c) ==
    {r \in (DOMAIN text) \X (DOMAIN text) :
        /\ \A i \in r[1]..r[2] : text[i] = c
        /\ r[1] <= r[2] /\ (r[1] > 1 => text[r[1] - 1] # c)
        /\ (r[2] < Len(text) => text[r[2] + 1] # c)}

(* The tokens spell the text, without its blanks and with nothing lost or      *)
(* added, whatever was looked at ahead and given back.  Two kinds of text are  *)
(* excepted, which the lexer misreads: one where backticks come to two after   *)
(* the triples are taken away, and one that ends in backticks or hashes that   *)
(* are no multiple of three.                                                   *)
TokensSpellText ==
    lexPc = "done"
    /\ (\A r \in RunsOf(Backtick) : (r[2] - r[1] + 1) % 3 # 2)
    /\ (\A r \in RunsOf(Backtick) \cup RunsOf("#") :
            r[2] = Len(text) => (r[2] - r[1] + 1) % 3 = 0)
    => Spelled = SelectSeq(text, LAMBDA c : c # Blank)

(* The marks agree with the line numbers, which the lexer counts on its own:   *)
(* a token other than a newline is marked if it is the first on its line; only *)
(* the token after a newline that opens the text is forgotten.                 *)
MarksLineStarts ==
    lexPc = "done" =>
        \A k \in DOMAIN tokens_ : tokens_[k].type_ # "kNewline" =>
            (tokens_[k].is_first_on_newline_
                <=> /\ \A j \in 1..k - 1 : \/ tokens_[j].type_ = "kNewline"
                                           \/ tokens_[j].line_number_ < tokens_[k].line_number_
                    /\ ~(k = 2 /\ tokens_[1].type_ = "kNewline"))

(* Lexer and parser agree with the text on what stands in it and in which     *)
(* line it stands, whatever was looked at ahead.                              *)
LexedAsWritten == TokensSpellText /\ MarksLineStarts
=============================================================================
