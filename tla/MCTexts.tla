------------------------------ MODULE MCTexts -------------------------------
(* The programs and libraries that make something of a text, a command line   *)
(* or a number and then stop: in a behaviour one of them runs, and the others *)
(* are at rest.                                                               *)
EXTENDS CommandLines, MCTinyDb, MdmLexer, TvmLexer, LevelBuilder, UuidText,
        BigInt, Md5

MCArguments == SeqOf(Letters \cup Dates \cup Words, 5)

Pieces == {
    <<"s">>, <<"c">>, <<"t", "rect">>, <<"t", "word">>, <<"h", "word">>, <<"p", "7">>,
    <<"x", "7">>, <<"x", "-1">>, <<"x", "word">>, <<"y", "wide">>, <<"w", "300">>, <<"k", "7">>,
    <<"k", "300">>, <<"r", "300">>, <<"b", "huge">>, <<"g">>, <<"q">>, <<"word">>, <<"-1">>}
MCCommands ==
    {<<"c", "t", "line">> \o FlattenSeq(pieces) : pieces \in SeqOf(Pieces, 3)}
    \cup {FlattenSeq(pieces) : pieces \in SeqOf(Pieces, 2)}

Metadata == {
    <<>>, <<"x", ":", "2", NL>>, <<"x", ":", "2", NL, "x", ":", "1", NL>>,
    <<"x", ":", "2", NL, "x", ":", ":", "1", NL>>, <<"x", ":", "1", NL, "y", ":", "2", NL>>,
    <<"t", ":", "1", ":", "2", ":", "/p", NL>>, <<"t", ":", "1", ":", "2", NL>>,
    <<"t", ":", "1", NL>>, <<"x", ":", NL>>, <<"x", "1">>, <<"x", ":", "2", "y", ":", "1", NL>>,
    <<"y", ":", "1", NL, "x", ":", "2", NL, "t", ":", "1", ":", "1", ":", "/p", NL>>}
Bodies == {
    <<>>, <<NL>>, <<NL, NL, NL>>, <<NL, NL, NL, "#", NL, NL, ".">>, <<NL, NL, NL, "#", "?">>,
    <<NL, "#", NL, NL, NL, "#", ".", NL>>, <<NL, NL, NL, "#", " ", NL, ".">>}
MCLevelTexts == {m \o b : m \in Metadata, b \in Bodies}

(* Two identifiers, with up to two hyphens or one other character put in their *)
(* place, and texts that are too short.                                       *)
Groups(digit(_)) ==
    [i \in 1..36 |-> IF i \in {9, 14, 19, 24} THEN Hyphen ELSE digit(i)]
Identifiers == {Groups(LAMBDA i : i % 16), Groups(LAMBDA i : IF i < 20 THEN 0 ELSE 15)}
MCUuidTexts ==
    {[id EXCEPT ![i] = Hyphen, ![j] = Hyphen] : id \in Identifiers, i \in 1..36, j \in 1..36}
    \cup {[id EXCEPT ![i] = c] : id \in Identifiers, i \in 1..36, c \in {5, Other}}
    \cup {SubSeq(id, 1, 35) : id \in Identifiers}

MCNumerals == SeqOf({0, 1, 8, 9, 10}, 3)

(* Around every boundary of a block and of the padding. *)
MCLengths == {0, 1, 63, 64, 65, 127, 128, 129} \cup 54..57 \cup 118..121

-----------------------------------------------------------------------------
CliRest ==
    /\ argv = <<>> /\ rest = <<>> /\ operands = <<>> /\ outcome = "usage" /\ taken = <<>>
    /\ server_mode_ = FALSE /\ maybe_timestamp_ = {} /\ dump_filepath_ = <<>>
DrawRest ==
    command = <<>> /\ optind = 0 /\ sess = NewSession /\ drawEnd = "nothing" /\ served = <<>>
DbRest ==
    /\ tables_ = <<>> /\ declared = <<>> /\ statement = NewStatement(<<>>)
    /\ running = TRUE /\ statementCount = MaxStatements
MdmRest ==
    text = <<>> /\ at = 0 /\ word = <<>> /\ linecount = 0 /\ tokens_ = <<>> /\ lexPc = "done"
TokenizeRest ==
    /\ source = <<>> /\ used = 0 /\ buffer = <<>> /\ line_number = 1 /\ lexed = <<>>
    /\ tokenizePc = "done"
LevelRest ==
    /\ input = <<>> /\ pos = 0 /\ levelPc = "idle" /\ width_ = 0 /\ height_ = 0
    /\ tileset_ = <<0, 0>> /\ path_to_tileset_ = "" /\ tiles_ = <<>> /\ level = NoLevel
    /\ textCount = MaxTexts
UuidRest ==
    str = <<>> /\ it = 0 /\ arr = <<Zero, Zero>> /\ count = 0 /\ uuidPc = "threw"

BigRest ==
    addends = <<<<>>, <<>>>> /\ ret = <<>> /\ column = 0 /\ carry = 0 /\ sumPc = "threw"
Md5Rest ==
    /\ msg_size = 0 /\ padded = <<>> /\ from = 0 /\ chunk = NoWords /\ op = 0 /\ sums = Fresh
    /\ regs = Fresh /\ mixed = [w \in 0..15 |-> 0] /\ digestPc = "rest"

TextsInit ==
    \/ CliInit /\ DrawRest /\ DbRest /\ MdmRest /\ TokenizeRest
       /\ LevelRest /\ UuidRest /\ BigRest /\ Md5Rest
    \/ CliRest /\ DrawInit /\ DbRest /\ MdmRest /\ TokenizeRest
       /\ LevelRest /\ UuidRest /\ BigRest /\ Md5Rest
    \/ CliRest /\ DrawRest /\ DbInit /\ MdmRest /\ TokenizeRest
       /\ LevelRest /\ UuidRest /\ BigRest /\ Md5Rest
    \/ CliRest /\ DrawRest /\ DbRest /\ MdmInit /\ TokenizeRest
       /\ LevelRest /\ UuidRest /\ BigRest /\ Md5Rest
    \/ CliRest /\ DrawRest /\ DbRest /\ MdmRest /\ TokenizeInit
       /\ LevelRest /\ UuidRest /\ BigRest /\ Md5Rest
    \/ CliRest /\ DrawRest /\ DbRest /\ MdmRest /\ TokenizeRest
       /\ LevelInit /\ UuidRest /\ BigRest /\ Md5Rest
    \/ CliRest /\ DrawRest /\ DbRest /\ MdmRest /\ TokenizeRest
       /\ LevelRest /\ UuidInit /\ BigRest /\ Md5Rest
    \/ CliRest /\ DrawRest /\ DbRest /\ MdmRest /\ TokenizeRest
       /\ LevelRest /\ UuidRest /\ BigInit /\ Md5Rest
    \/ CliRest /\ DrawRest /\ DbRest /\ MdmRest /\ TokenizeRest
       /\ LevelRest /\ UuidRest /\ BigRest /\ Md5Init

TextsNext ==
    \/ CliNext /\ UNCHANGED <<drawVars, dbVars, mdmVars, tokenizeVars,
           levelVars, uuidVars, bigVars, md5Vars>>
    \/ DrawNext /\ UNCHANGED <<cliVars, dbVars, mdmVars, tokenizeVars,
           levelVars, uuidVars, bigVars, md5Vars>>
    \/ DbNext /\ UNCHANGED <<cliVars, drawVars, mdmVars, tokenizeVars,
           levelVars, uuidVars, bigVars, md5Vars>>
    \/ MdmNext /\ UNCHANGED <<cliVars, drawVars, dbVars, tokenizeVars,
           levelVars, uuidVars, bigVars, md5Vars>>
    \/ TokenizeNext /\ UNCHANGED <<cliVars, drawVars, dbVars, mdmVars,
           levelVars, uuidVars, bigVars, md5Vars>>
    \/ LevelNext /\ UNCHANGED <<cliVars, drawVars, dbVars, mdmVars,
           tokenizeVars, uuidVars, bigVars, md5Vars>>
    \/ UuidNext /\ UNCHANGED <<cliVars, drawVars, dbVars, mdmVars,
           tokenizeVars, levelVars, bigVars, md5Vars>>
    \/ BigNext /\ UNCHANGED <<cliVars, drawVars, dbVars, mdmVars,
           tokenizeVars, levelVars, uuidVars, md5Vars>>
    \/ Md5Next /\ UNCHANGED <<cliVars, drawVars, dbVars, mdmVars,
           tokenizeVars, levelVars, uuidVars, bigVars>>

TextsSpec ==
    /\ TextsInit
    /\ [][TextsNext]_<<cliVars, drawVars, dbVars, mdmVars, tokenizeVars, levelVars, uuidVars,
                      bigVars, md5Vars>>

-----------------------------------------------------------------------------
(* Both lexers give the text back, and place its tokens in its lines.         *)
TokensAsWritten == LexedAsWritten /\ TokensInTheirLines
=============================================================================
