------------------------------- MODULE TinyDb -------------------------------
(***************************************************************************)
(* Statements and the schema of tinydb (src/tinydb/statement.cc,            *)
(* schema.cc).  Constructing a Statement parses it, and parsing a create    *)
(* adds its table to the Schema the statements share.  A statement is the   *)
(* sequence of its words; of a column type only what the two regular        *)
(* expressions and strtoull make of it counts.                              *)
(***************************************************************************)
EXTENDS Naturals, Sequences, SequencesExt, FiniteSets

CONSTANTS
    Statements,     \* the statements that may be given, as sequences of words
    MaxStatements   \* bound on how many are given

ASSUME StatementsAssumption == Statements \subseteq Seq(STRING)

VARIABLES
    tables_,        \* Schema::tables_
    statement,      \* the last Statement: its words and what Parse left in it
    running,        \* FALSE once a noexcept function threw
    declared,       \* history variable: the tables of the statements so far
    statementCount

dbVars == <<tables_, statement, running, declared, statementCount>>

NoTable == <<>>   \* table_name_ before it is set

NewStatement(tokens) ==
    [tokens |-> tokens, type |-> "Undefined", error |-> "", wildcard |-> FALSE,
     values |-> <<>>, table |-> NoTable]

DbInit ==
    /\ tables_ = <<>> /\ declared = <<>>
    /\ statement = NewStatement(<<>>)
    /\ running = TRUE /\ statementCount = 0

-----------------------------------------------------------------------------
(* Column types: the words that are types, good or bad.  Any other word is    *)
(* one that has no number in parentheses and is the name of no type.         *)

(* The first number in parentheses, wherever it is in the word. *)
Parenthesised(column) ==
    CASE column \in {"varchar(8)", "nope(8)"} -> {8}
      [] column = "varchar(0)" -> {0}
      [] OTHER -> {}

(* A size of zero is none. *)
ParseColumnSize(column) == IF column = "int" THEN {4} ELSE Parenthesised(column) \ {0}

ParseColumnType(column) ==
    CASE column \in {"varchar(8)", "varchar(0)"} -> {"String"}
      [] column = "int" -> {"Integer"}
      [] OTHER -> {}

-----------------------------------------------------------------------------
(* Statement::Parse, by the first word.                                      *)

Starter(tokens) == IF tokens = <<>> THEN "" ELSE tokens[1]

(* Parse hands over to the routine for the first word. *)
Parse(word, tokens) ==
    /\ Starter(tokens) = word
    /\ statementCount' = statementCount + 1

Constructed(s) == statement' = s

ParseInvalid(tokens) ==
    /\ Starter(tokens) \notin {"insert", "select", "create"}
    /\ Parse(Starter(tokens), tokens)
    /\ Constructed([NewStatement(tokens) EXCEPT !.type = "Invalid", !.error =
           IF tokens = <<>> THEN "empty query" ELSE "bad starter identifier"])
    /\ UNCHANGED <<tables_, running, declared>>

ParseInsert(tokens) ==
    /\ Parse("insert", tokens)
    /\ Constructed([NewStatement(tokens) EXCEPT !.type = "Insert"])
    /\ UNCHANGED <<tables_, running, declared>>

(* Where the iterator stops: on the wildcard, or on the first "from".  There  *)
(* is no test for the end: without "from" it leaves the vector.               *)
ListEnd(tokens) ==
    LET from == SelectInSeq(tokens, LAMBDA word : word = "from")
    IN  CASE tokens[2] = "*" -> 2
          [] tokens[2] # "*" /\ from = 0 -> Len(tokens) + 1
          [] OTHER -> from

List(tokens) == IF tokens[2] = "*" THEN <<>> ELSE SubSeq(tokens, 2, ListEnd(tokens) - 1)

(* The word after the stop is the table: behind a wildcard that is "from".    *)
(* Reading behind the last word is undefined, and taken to end the program.   *)
ParseSelect(tokens) ==
    /\ Parse("select", tokens)
    /\ IF Len(tokens) < 4
       THEN /\ Constructed([NewStatement(tokens) EXCEPT !.type = "Select", !.error = "expecting 4 parts"])
            /\ UNCHANGED running
       ELSE LET end == ListEnd(tokens)
            IN  /\ running' = (end + 1 <= Len(tokens))
                /\ Constructed([NewStatement(tokens) EXCEPT
                       !.type = "Select", !.wildcard = (tokens[2] = "*"), !.values = List(tokens),
                       !.table = IF end + 1 <= Len(tokens) THEN <<tokens[end + 1]>> ELSE NoTable])
    /\ UNCHANGED <<tables_, declared>>

Places(tokens) == {i \in DOMAIN tokens : i > 3 /\ i % 2 = 0}   \* of the column names

DuplicateNeighbours(tokens) ==
    \E i \in Places(tokens) : i + 2 \in Places(tokens) /\ tokens[i] = tokens[i + 2]

Duplicate(tokens) ==
    \E i, j \in Places(tokens) : i # j /\ tokens[i] = tokens[j]

(* The checks in their order, up to the columns. *)
CreateError(tokens) ==
    IF Len(tokens) < 2 THEN "expecting create table"
    ELSE IF tokens[2] # "table" THEN "should begin with create table"
    ELSE IF Len(tokens) = 2 THEN "expecting table name"
    ELSE IF Len(tokens) = 3 THEN "at least one column"
    ELSE IF Len(tokens) % 2 = 0 THEN "bad column definition"
    ELSE IF Duplicate(tokens) THEN "duplicate column names"
    ELSE ""

(* Columns are taken in order until one has no size, which is an error, or    *)
(* no type, which is not looked at (the size is tested twice) and throws.     *)
Unsized(tokens) == {i \in Places(tokens) : ParseColumnSize(tokens[i + 1]) = {}}
Untyped(tokens) == {i \in Places(tokens) : ParseColumnType(tokens[i + 1]) = {}} \ Unsized(tokens)

Columns(tokens) ==
    [k \in 1..(Len(tokens) - 3) \div 2 |->
        [label_ |-> tokens[2 * k + 2],
         size_  |-> CHOOSE n \in ParseColumnSize(tokens[2 * k + 3]) : TRUE,
         type_  |-> CHOOSE t \in ParseColumnType(tokens[2 * k + 3]) : TRUE]]

AddTable(table) == tables_' = Append(tables_, table)

(* What a well-formed create is and declares, said without the checks. *)
WellFormedCreate(tokens) ==
    /\ Len(tokens) >= 5 /\ Len(tokens) % 2 = 1 /\ SubSeq(tokens, 1, 2) = <<"create", "table">>
    /\ IsInjective([i \in Places(tokens) |-> tokens[i]])
    /\ \A i \in Places(tokens) : tokens[i + 1] \in {"int", "varchar(8)"}

Declaration(tokens) ==
    [name_ |-> tokens[3],
     columns_ |-> [k \in 1..Cardinality(Places(tokens)) |->
         IF tokens[2 * k + 3] = "int"
         THEN [label_ |-> tokens[2 * k + 2], size_ |-> 4, type_ |-> "Integer"]
         ELSE [label_ |-> tokens[2 * k + 2], size_ |-> 8, type_ |-> "String"]]]

ParseCreate(tokens) ==
    /\ Parse("create", tokens)
    /\ declared' = IF WellFormedCreate(tokens) THEN Append(declared, Declaration(tokens)) ELSE declared
    /\ LET early == CreateError(tokens)
           unsized == early = "" /\ Unsized(tokens) # {}
               /\ \A j \in Untyped(tokens) : \E i \in Unsized(tokens) : i < j
           throws == early = "" /\ ~unsized /\ Untyped(tokens) # {}
           error == IF unsized THEN "invalid size" ELSE early
       IN  /\ Constructed([NewStatement(tokens) EXCEPT !.type = "Create", !.error = error])
           /\ running' = ~throws
           /\ IF error = "" /\ ~throws
              THEN AddTable([name_ |-> tokens[3], columns_ |-> Columns(tokens)])
              ELSE UNCHANGED tables_

(* std::find_if: nothing keeps two tables from having the same name. *)
FindTableByName(name) ==
    LET k == SelectInSeq(tables_, LAMBDA table : table.name_ = name)
    IN  IF k = 0 THEN NoTable ELSE <<tables_[k]>>

DbNext ==
    /\ running /\ statementCount < MaxStatements
    /\ \E tokens \in Statements :
        ParseInvalid(tokens) \/ ParseInsert(tokens) \/ ParseSelect(tokens) \/ ParseCreate(tokens)

DbSpec == DbInit /\ [][DbNext]_dbVars

-----------------------------------------------------------------------------
(* Properties.                                                               *)

(* The schema holds exactly the tables of the well-formed create statements,  *)
(* column for column and in order: whichever check an ill-formed one trips    *)
(* over, in whichever column, it leaves no table.  And a name goes on meaning *)
(* the table it was first given to.                                           *)
SchemaAsDeclared ==
    /\ tables_ = declared
    /\ \A k \in DOMAIN declared :
        (\A j \in 1..k - 1 : declared[j].name_ # declared[k].name_)
            => FindTableByName(declared[k].name_) = <<declared[k]>>

(* An ill-formed create reports an error, or ends the program; it only ends   *)
(* the program if some column has a size and no type, as in "nope(8)".        *)
CreatesReported ==
    statement.type = "Create" =>
        /\ ~WellFormedCreate(statement.tokens) => statement.error # "" \/ ~running
        /\ ~running => Untyped(statement.tokens) # {}

(* A select that names columns gets them all, and the table after its first   *)
(* "from"; the program only runs off the words when "from" is missing or last. *)
NamesAsWritten ==
    statement.type = "Select" /\ statement.error = "" /\ ~statement.wildcard =>
        /\ running <=> \E i \in 2..Len(statement.tokens) - 1 : statement.tokens[i] = "from"
        /\ running => \E i \in 2..Len(statement.tokens) - 1 :
               /\ statement.tokens[i] = "from"
               /\ statement.values = SubSeq(statement.tokens, 2, i - 1)
               /\ statement.table = <<statement.tokens[i + 1]>>

(* A select with a wildcard names no columns, and its table is the word       *)
(* behind the star, whatever that is.                                         *)
WordBehindStar ==
    statement.type = "Select" /\ statement.error = "" /\ statement.wildcard =>
        running /\ statement.values = <<>> /\ statement.table = <<statement.tokens[3]>>

(* What the statements are taken for: a create as it is written, if it is     *)
(* well formed, and an ill-formed one for nothing; a select that names its    *)
(* columns as it is written; and a select with a wildcard with the word       *)
(* behind the star for its table, which is not the one that is written.       *)
CreatesAndSelects ==
    SchemaAsDeclared /\ CreatesReported /\ NamesAsWritten /\ WordBehindStar

(* What ParseSelect means to do, ignore the "from" and take the word after    *)
(* it: "select * from t" is about t.  tinydb_wildcard violates this.          *)
WildcardSelectsTable ==
    statement.type = "Select" /\ statement.error = "" /\ statement.wildcard =>
        \A i \in 3..Len(statement.tokens) - 1 :
            statement.tokens[i] = "from" => statement.table = <<statement.tokens[i + 1]>>
=============================================================================
