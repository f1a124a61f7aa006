# TLA+ models of sprawl

sprawl is a collection of small C and C++ programs: a calendar daemon, a daemon
that removes files when their time comes, a drawing server, an assembler, an
interpreter, a shell, the beginnings of a database and of a document compiler,
exercises with threads, and the libraries they share.
This directory holds TLA+ models of the programs that carry most of the logic,
TLC configurations for small instances of them, and TLAPS proofs of the
properties that matter most, for every value of the constants.

Run a model with `tlc -workers 2 -config X.cfg M`, check a proof module with
`tlapm M.tla`. `PROJECT.json` lists components, runs, the source lines each
definition models, mutants, hazards, findings and theorems.

## 1. The system

Paths are relative to the repository's root. What is listed without a module is
not modelled; section 7 says why.

| component | state | operations | modules |
|---|---|---|---|
| psycal daemon (`psycal/server.cc`, `server.h`) | priority queue `events_`, vector `old_`, mutex `lock_`, `make_snapshot_`, two worker threads | `Start`, `listen_fn`, `Tick`, `Snapshot` | PsycalServer, EventLedger, PsycalServerProofs |
| psycal files (`psycal/dump.cc`) | `events.psycal` (rewritten), `history.psycal` (appended) | `SaveCurrentEvents`, `SaveOld`, `ReadEventsFrom` | PsycalServer, EventBytes, MessagesProofs |
| psycal messages (`psycal/message.cc`, `event.cc`), UDP (`net/udp.cc`) | datagrams of 508 bytes | `IntoBuffer`, `FromBuffer`, `Send`, `ListenWith` | EventBytes, PsycalServer, MessagesProofs |
| psycal command line (`psycal/main.cc`, `session.cc`, `utils.cc`) | the `Session` the options fill | `getopt` loop, start, dump, send | PsycalCli, CommandLines, TextsProofs |
| common codec (`common/codec.cc`) | - | little-endian 64-bit numbers | LittleEndian, MessagesProofs |
| common granulator (`common/granulator.*`) | `step_`, `grain_`, `num_threads_` | constructor, `Step`, `ResetSteps` | Granulator, GranulatorProofs |
| multi-vector (`misc/multi-vector.cc`) | workers, `MTVector` | cut, spawn, add up, join | SumWorkers, GranulatorProofs |
| fttl (`fttl/fttl.cc`) | map timestamp -> paths, mutex, Consumer thread | `Run`, `InsertPair`, `Consumer`, `send_message_fn` | FileTTL, TTLMessage, FileTTLProofs, MessagesProofs |
| packetdraw (`packetdraw/*.c`) | `messages` array and `messages_len`, no lock; the `session` the options fill | option loop, client send, listener insert, render loop, cleanup | PacketDraw, PacketDrawCli, CommandLines, PacketDrawProofs, TextsProofs |
| lbos (`misc/lbos.cc`) | counter, mutex, two semaphores | atomic and mutex counters, rendez-vous | Lbos, SemaphoresProofs |
| shared memory (`grimoire/shm.c`) | a named object with a semaphore and a buffer, one set of processes | open, `sem_init`, wait, `fgets`, post, unlink | SharedMemory, SemaphoresProofs |
| pshy (`pshy/*.c`) | process table, stdio buffers, growing buffer, tokens | read, split, `exit`, `cd`, fork, exec, wait | Pshy, InterpretersProofs |
| brainfuck (`brainfuck/brainfuck.cc`) | code position, tape | `Run` and the eight instructions, `Validate` | Brainfuck, InterpretersProofs |
| tvm assembler (`tvm/tvm.cc`, `tvmc.cc`) | source, tokens, rows, symbol table, image | `Tokenize`, `Parse`, `BuildSymtab`, `Encode`, `CompileFile` | TvmLexer, Tvm, TextsProofs, InterpretersProofs |
| tinydb (`tinydb/statement.cc`, `schema.cc`) | the statement, the schema's tables | parse `create`, `select`, `insert` | TinyDb, TextsProofs |
| mdm (`mdm/lexer.cc`, `parser.cc`) | stream position, word, tokens | `Lexer::Process`, `MarkNewlineTokens` | MdmLexer, TextsProofs |
| gamejam levels (`gamejam/level_builder.cc`, `utils.cc`) | sizes, tileset and tiles a builder keeps | `FromText`, metadata, tiles | LevelBuilder |
| uuid (`uuid/uuid.cc`) | two 64-bit words | `FromString`, `String` | UuidText, TextsProofs |
| ds (`ds/md5.cc`, `bigint.cc`) | padded message and registers; digits, carry | `PadMessage`, `ExtractChunk`, `Digest`; constructor, `operator+` | Md5, BigInt, TextsProofs |
| libpsyseg, dsu, socktk, misc/udp, misc/algorithm, xdg, filesystem, hexdump, the rest of gamejam and grimoire | | | - |

How they interact: psycal clients reach the daemon through `net/udp` with the
codec's numbers; the daemon's threads share memory under `lock_` and talk to
their successors through the two files; `misc/dsu.cc` reads `events.psycal`
behind the daemon's back. multi-vector takes its ranges from the granulator.
fttl and packetdraw have their own datagrams and share one structure between
two threads each. tvm's Parse reads what its Tokenize pushed; tinydb's statements
share one schema; shm's processes share what they map. The other programs stand
alone.

What is hard about them, and what would make them right:

- **psycal.** Three threads, a kill at any instant, files that are rewritten in
  place, threads that start before the constructor has initialised what they
  use. Right means: an event is archived once and not before its time, what was
  saved stays saved, a save that was asked for happens, and only a kill loses
  anything.
- **fttl.** A sweep under the mutex with a stale clock, registrations that
  arrive meanwhile, failed reads that are decoded anyway, failed removals. Right
  means: no file goes before somebody's time for it has come, no registration is
  forgotten untried, and each is tried in the end.
- **packetdraw.** A data race by design. Right means: the array is the log of
  the accepted requests and never longer than its capacity, at most its newest
  entry is half written, and every request is drawn.
- **granulator / multi-vector.** Off-by-one and wrap-around in the cutting;
  workers that read a loop variable by reference.
- **lbos.** Lost increments, a rendez-vous that may deadlock or be passed early.
- **shm.** Every process initialises the shared semaphore, also over the head of
  one that is inside; processes are interrupted anywhere and unlink the path
  others use. Right means: permits come from nowhere but such an initialisation,
  and none gets lost but with a process that was interrupted inside.
- **pshy.** Forks and execs that fail, children that are stopped, continued or
  killed while the shell waits. Right means: one process reads the terminal at a
  time, each line is taken by one shell, word for word, and the next line is taken
  up whatever became of the last child.
- **The readers of texts** (psycal's and packetdraw's options, tinydb, mdm, tvm's
  Tokenize, levels, uuid). Lookahead at the end of the text, options that swallow
  each other, a parser that keeps what a refused text left behind. Right means:
  what comes out is what a reader of the text would say it contains.
- **ds.** Padding at the edge of a block, carries that run past the first digit.
- **brainfuck.** Nested jumps, and an unsigned position that passes below zero.
- **tvm.** Three passes that must agree about where a row ends, how much room a
  variable takes and which bits an operand gets.

## 2. The modules

State variables carry the source's names (`events_`, `files_`, `messages_len`,
`mCodePos`); each action is one operation, cut where another thread, a kill or
the network can come in between.

**PsycalServer.** `Boot` / `FinishConstruct` / `ReadEventsFrom` / `StartPush` /
`ListenWith` / `Receive` are the main thread, `TickEnter` .. `TickDone` the Tick
thread, `SnapEnter` .. `SnapDone` the Snapshot thread; `Tock`, `SendEvent` and
`Crash` are the environment. Memory-only critical sections take one step per pop
or push; the two saves take one step per record, because a kill leaves on disk
what was written. The constructor starts the threads before `lock_`, `old_`,
`run_server_` and `make_snapshot_` are initialised (server.h:36-41), so `Boot`
leaves the flags arbitrary and `FinishConstruct` resets what the threads may
already have used. Every order is in the one specification. Mostly the threads
enter their loops while the constructor or the load is still at work, sleep a
second and wait for the first snapshot; that does no harm, and all properties
cover it. The history variable `raced` remembers the start-ups that went wrong:
a thread read `run_server_` before it was set and left for good, the condition
variable was constructed under a waiting Snapshot, or a thread took the mutex for
a round of work before Start listened. `TickPop` decides on `event_timepoint`, which Tick read before the pop
and reads again after it, from a queue that may have become empty
(`NextTimepoint`). `StartPush` runs without `lock_`, as Start does; a push that
overlaps a pop of Tick is treated as atomic.

**EventLedger** is the abstract specification of the daemon: accepted once,
upcoming, archived once, perhaps lost, never back. PsycalServer implements it
with `upcoming` mapped to everything in the queue, in `old_`, in a copy or in
`events.psycal` that is not in the history.

**EventBytes** follows the bytes of events through `IntoBuffer`, a datagram of
fixed size that drags heap bytes along or cuts the text, `FromBuffer`, the
records of `events.psycal`, a kill that cuts the file at any byte, and
`ReadEventsFrom`. One filler byte stands for each piece of memory the code reads
beyond its buffers. The round trip of a time through `struct tm` is left out.

**PsycalCli** and **PacketDrawCli** are the option loops of the two `main`s, with
getopt's permutation of operands, and what they do at the end: one step per
option. In PacketDrawCli numbers are narrowed as `strtol`'s caller and the struct
narrow them, with 2048 and 1024 in place of 2^32 and 2^16. **CommandLines** puts the
two side by side.

**LittleEndian** and **TTLMessage** are pure operators: the codec and fttl's
message, with a small base in place of 256.

**FileTTL.** `Run` / `Read` / `ReadError` / `InsertPair` are the main thread,
`ConsumerLock` .. `ConsumerUnlock` the sweep, one step per key and per
`remove()`. The datagrams are what the constant operators `Packed` and
`Unpacked` say; `ConstantsAssumption` asks that the second undo the first, and
the run supplies TTLMessage's operators, whose round trip is a theorem
(`PairsUnpackAsPacked`), for every path that leaves room for the timestamp.

**PacketDraw.** An insertion is a set of independent stores done in any order,
the store of `messages_len` among them: that is the data race. The render loop
reads `messages_len` on every turn. One colour byte stands for three; a line is
stored and sent like a rectangle. `Calls` is what the render loop draws; `Asked`
is what the request says, the fields named by the usage text, and `Shown` the same
with a rectangle's sides exchanged. Stores of the listener after `main` has freed
the server are not modelled: the process ends at once.

**Granulator / SumWorkers.** Arithmetic modulo `W`. SumWorkers extends
Granulator (`StoreHalf` takes the Granulator's `Step`) and keeps the one stack
slot that every worker's reference names.

**Lbos**, **SharedMemory**, **Brainfuck**: one action per statement that others
can come between, and one per character. In SharedMemory a line is copied into
the buffer in two steps, because the others test the buffer outside the
semaphore; `Interrupt` ends a process anywhere. `ShmOpen` is one step for
`shm_open`, `ftruncate` and `mmap`, and a `sem_wait` that returns early with EINTR is
left out.

**Pshy.** Every process of the shell's chain has a record with its place in the
loop, its parent, its tokens and its stdio buffer. `Fork` copies the record, so a
child whose `Exec` fails is a shell with the same unread lines. The growing
buffer is modelled byte by byte (a symbol stands for a run of characters), since
its doubling decides where the string ends. `Killed`, `Stop`, `Continue` and
`Interrupt` are the environment.

**TinyDb.** One step per statement, with the outcome each early return gives it;
the parser's loop over columns is a set of places, each sized and typed by what
the two regular expressions and `strtoull` make of the word.

**MdmLexer**, **TvmLexer**: one step per turn of the reading loop. One character
stands for each class the code treats alike. `get` at the end of the text leaves
its argument as it was, which is what the lookahead then sees.

**LevelBuilder**: one step per metadata field and per tile; a builder reads
several texts in turn and keeps its members. **UuidText**: one step per hyphen
and per pair of digits; a word is the sequence of its bytes.

**Md5**: one step per chunk and per operation on the four registers. A register
is the set of places of the padded message it depends on, so the model keeps the
padding, the order of the words and the turns of the registers and leaves out the
bit arithmetic. **BigInt**: one step per column of the two loops of `operator+`.

**Tvm**: one step per row of each pass. A token is reduced to its type, its
length, the code of its second character and the numbers a stream reads from
it (`Tokens`). Parse joins the assignments of op and operands, each of which moves
on in the tokens, with `|` (tvm.cc:283-286); the order of evaluation, which the language
leaves open, is taken to be from left to right, as the compilers have it. A null pointer
that is followed ends in "crashed", an instruction Parse has no case for in "exhausted".

The MC modules give the constants their values (MCTinyDb the statements, which
MCTexts takes over). Three of them put programs side by side that have nothing to say
to each other: **MCTexts** the seven readers of texts and command lines and the two
parts of ds, **MCThreads** lbos, shm and multi-vector, **MCInterpreters** brainfuck,
pshy and tvm. In each behaviour one program runs and the others are at rest, so the
states are the sum and not the product of the programs' states.

## 3. The runs

| run | checks | shows |
|---|---|---|
| psycal_daemon | TypeOK, QuietMeansSaved, HistoryOnce, KeptUnlessTorn, NotBeforeDue, OnlyCrashLoses, LedgerSpec, EventuallyArchived | the daemon from the moment its threads are started, with two kills; the ledger is implemented whatever the start-up, the others are claimed until a start-up goes wrong (`raced`) |
| psycal_lost | NeverLost (violated) | a kill during a save loses saved events |
| psycal_bytes | ArrivesAsSent, WholeRecordsRead | the bytes, with the file cut anywhere |
| fttl | FilesAsAsked, NoEarlyRemoval, SweepLeavesNoneDue, NoneDropped, EventuallyTried | the daemon, clients, failures, a kill |
| packetdraw | LogInOrder, DrawnFromOneRequest, EventuallyDrawn | listener and render loop racing, up to and beyond the full array |
| packetdraw_rect | DrawnAsAsked (violated) | a rectangle is drawn with its sides exchanged |
| threads | WorkersInBounds, Tiling, EnoughWork (multi-vector), CountersAddUp, ThreadsMeet, MainEnds (lbos), PermitsAddUp (shm) | cutting and adding up; lbos under every interleaving; shm's processes with late starts, interrupts and unlinks |
| sum_total | SumRight (violated) | two workers may add up the same range |
| interpreters | StaysOnTheCode, JumpsToPartner (brainfuck), OneInForeground, EachLineOnce, EveryLineHandled (pshy), VariablesApart, EncodesAsWritten, ProgramsAssemble (tvm) | all short programs; the shell, its children and failed children, on a terminal and on a pipe; short programs over statements and fragments |
| tvm_store | StoresTold (violated) | stores to different offsets become the same word |
| tinydb_wildcard | WildcardSelectsTable (violated) | `select * from t` is about a table named "from" |
| texts | OptionsAsGiven (SentAsAsked of psycal and RequestAsGiven of packetdraw), CreatesAndSelects, TokensAsWritten (LexedAsWritten of mdm and TokensInTheirLines of tvm), LevelOfItsText, UuidRoundTrip, DigestOfMessage, SumOfAddends | the readers of texts and command lines, MD5 and BigInt against what their input says |

### Bounds

- *psycal_daemon, psycal_lost*: two events, times 0 and 1, clock up
  to 2, two kills (one in psycal_lost). Two events are enough for one to be in
  the queue, in `old_` or in a file while the other moves, and for ties and
  both orders in the queue; with two kills the second can hit a daemon that
  loaded what the first left. Symmetry in the two events is used where no
  liveness is checked.
- *psycal_bytes*: base 3, a datagram with room for one byte of text, texts of up
  to two; so texts that fit, just fit and do not fit occur, and a file of two
  records is cut at each of its bytes.
- *fttl*: two paths, a time that is due at once and one that is not, two
  datagrams, one re-created file, one failed read, one kill. Two datagrams can
  share a timestamp or not, arrive before, during or after a sweep, and name the
  same file.
- *packetdraw, packetdraw_rect*: capacity 2 and three datagrams, so the array is full while one
  more arrives; a pixel, a rectangle whose width is not its height, and a request
  without a shape.
- *threads* (multi-vector), *sum_total*: 1 to 10 elements, 1 to 3 cores, threshold 3; sizes
  below, at and above every multiple that decides between one worker and many.
- *threads*: lbos with three turns a loop (the code has 100 and 1000) and up to
  two options; three processes of shm, four starts and two objects, so a process
  comes late to one that holds the semaphore while a third waits, and the path is
  unlinked and created anew under them.
- *interpreters* (pshy): three processes (a shell, its child, and the child of a child that
  became a shell; a fourth cannot be forked), up to three lines of seven kinds, a
  first buffer of two, so that lines of one to four symbols end below, at and
  above the capacity and its double.
- *interpreters* (brainfuck): all programs of up to six characters over `+ > [ ]` and of up to
  three over all characters, two cells modulo 3, positions modulo 16.
- *interpreters* (tvm), *tvm_store*: ten statements that Parse has a case for, two it
  has none for and five lines that are cut short or misplaced, in programs of up to
  three lines; all instructions in programs of up to two. A line that is cut short
  reaches into the next one for its operands; three lines let it do so between two
  others. Two lines are enough for two stores.
- *texts, tinydb_wildcard* (tinydb alone): psycal gets all command lines of up to five words, enough for every
  pair of options with arguments and a text; packetdraw a line request with up to
  three more options and arguments out of nineteen, valid, out of range and not
  numbers, and all pairs of them without it; tinydb two statements on one schema,
  with one, two or three columns, well-formed or not in each way; mdm all texts of
  up to five characters (a run of three and what is around it), tvm's Tokenize all
  sources of up to six; a level builder two texts out of twelve headers and seven
  bodies; uuid two identifiers with up to two misplaced hyphens or one other
  character anywhere, and texts that are too short; MD5 messages of lengths around
  every boundary of a block and of its padding, up to three blocks; BigInt all
  pairs of numbers of up to three digits out of 0, 1, 8, 9 and a character that is
  none.

Deadlock is not checked where the program ends by itself or, in psycal's runs,
where both worker threads may exit for good after they overtook the constructor.

### Fairness

- psycal: weak fairness of the clock and of each of the three threads. The OS
  schedules runnable threads, every wait is on a mutex whose owner goes on, and
  `Main` includes the restart after a kill (a service manager's or a user's).
  Clients and signals are not fair.
- fttl: the same, with strong fairness of `InsertPair`: the Consumer takes the
  mutex again and again but sleeps a second without it each time (fttl.cc:55-58).
- pshy: weak fairness of every process's own steps, the end of a program among
  them. Nobody need continue what is stopped, and fork may fail every time.
- packetdraw, lbos, tvm: weak fairness of each thread. Nothing is fair in the
  other programs, of which only safety is claimed.

## 4. What is proved

Everything here holds for all values of the constants that satisfy the named
assumptions, not only for the runs' instances.

**PsycalServerProofs** (from `ConstantsAssumption`).
`TypeCorrect` has no condition. `HistoryRecordsOnce`: until a start-up goes
wrong, `history.psycal` never records an event twice, whatever the kills.
`HistoryOnce` is not inductive; `OnceInv` (TypeOK, and OnceRest unless `raced`)
adds that before the daemon listens the threads only sleep and wait (PhaseInv), that the pc of
a thread in a critical section and the owner of `lock_` agree (LockInv), that
every event held anywhere was accepted, and what is still on the network was not
(AcceptInv), and that the queue, `old_`, what is still to be loaded or copied, and
the history are apart, with `events.psycal` free of archived events (ApartInv);
and that `old_` itself has no event twice. The order of SaveCurrentEvents and
SaveOld is what keeps ApartInv: an event is out of `events.psycal` before it goes
to the history, so no restart can load it again. Lemma `InOrder` says that a step
which leaves `raced` false takes the mutex for Tick or Snapshot only when the daemon
listens. `NothingExpiresEarly` adds to OnceInv that Tick's reading of the
clock is not ahead and that, while it drains a queue that is not empty,
`event_timepoint` is the time of the top (FreshTimepoint): the value it read
before the pop is not stale because the mutex keeps the listener out and the load
is over.

`QuietIsSaved`, `SavedIsKept` and `OnlyCrashLosesEvents` rest on SaveInv, which
adds to OnceInv, unless `raced`, what relates memory to the disk: while the daemon
loads, the queue and what is still to be loaded are `events.psycal` (LoadInv); between saves the queue and
`old_` hold all that the file holds, and during one the file and the rest of the
copy are the queue (DiskInv), so the
truncation at the start of a save drops nothing that memory does not have;
a difference between memory and the files means that
`make_snapshot_` is set, or that Tick has popped and is about to set it, or that
Snapshot is at work (QuietInv); and what was saved is on disk or, during a save, in the
copy or in `old_` (KeptInv).
The one step that is not a kill and could lose events is that truncation (lemma
`LosesNothing`).

`ImplementsLedger` is the refinement of EventLedger and has no condition: also a
daemon whose start-up went wrong implements it. Its invariant is only TypeOK
and AcceptInv. `Receive` accepts, `SaveOld` archives, and every other step is shown
to hold no more events than before (HoldsNoMore), so it is a `Lose` of those it no
longer holds, or a stutter.

**FileTTLProofs** (from `ConstantsAssumption`, i.e. from the round trip of the
codec). `TypeCorrect`, `FilesStayAsAsked`, `RemovesNoFileEarly`,
`SweepIsComplete` and `DropsNothingUntried` all follow from one inductive
invariant: what is in the map, in the socket buffer and in the main thread's
hands was asked for or is a failed read's pair (FilesAsAsked, InputAsAsked);
during a sweep the mutex is the Consumer's, what is left to visit are keys of
the map and every key already passed is not due (SweepInv); while files are
removed the names still to go are the end of the current key's vector and the
others were attempted (RemoveInv).

**GranulatorProofs** (from `GrainAssumption` and `Sane`). `RangesTile` and
`RangesGiveEnoughWork`, from the invariant that the k-th range starts at
`(k-1) * grain_` and ends where the next one starts or at the last element. The
arithmetic lemmas show that within `Sane` only the last range of the last thread
absorbs the remainder.

The same module has `WorkersStayInBounds`, from SumInv: the ranges handed out so
far are the cuts (CutInv), the end in the slot the workers read is below the number of
elements, also while main has stored only one half of a range (SlotInv), a worker was
spawned for every range but the one main is about to hand out (SpawnInv), and each
worker that is done left one part (PartsInv). SlotInv holds before the first range is
stored and survives each store only because every cut ends inside the vector.

**SemaphoresProofs** (from the assumptions of SharedMemory and Lbos).
`SemaphorePermits`: ShmInv adds the types, and strengthens "nobody waits in vain" to
every process past `sem_init` that has still to wait (NotStuck): only then is it
inductive, because a process arrives at `sem_wait` with nobody watching.
`NoIncrementLost`: CountInv says where each demonstration's threads can be and that
the mutex belongs to the one between its load and its store (PlacesInv), that what it
loaded is still the counter, and that the counter and the turns still owed add up to
the total (TurnsInv). `RendezVousMeets`: a semaphore above zero, and a thread past its
wait, show that the other thread made its first statement (MeetRest); it does not
matter that `Semaphore::wait` takes nothing away.

**PacketDrawProofs** (from `ConstantsAssumption`). `ArrayIsTheLog` for any capacity
and requests: LogInv describes every entry of the array exactly (ArrayInv), as the whole of its
datagram, the part of it that is stored so far, or nothing, and says which insertion is
under way (InsertInv). `DrawsOneRequest` follows, with the rectangle's sides exchanged as
the code exchanges them: an entry half stored is the request with zeros for what is
missing (`CallOfPart`), and the bytes swapped by the
client are swapped back (`SwapsBack`).

**MessagesProofs** (from `BaseAssumption`, `BytesAssumption` and `RoomAssumption`).
Rests on what the codec does for any base: the lowest n bytes of a number decode to
the number, if it is below the weight of byte n (`Weight`, `Decoding`).
`EventsArriveAsSent`, from NetInv: at most one event is under way, and the datagram is
the memory that starts with its encoding. `WholeRecordsAreRead`, from BytesInv: the
file is as long as the records written so far, or shorter once a kill cut it, and holds
each record as far as it reaches (FileInv); a reader whose stream is good stands where a
record ends, and one whose stream is not has just read the record the file ends in
(ReadInv). That each of its reads stays within its record is what makes the cut cost no
more than one event. `PairsUnpackAsPacked` is the round trip of fttl's datagram, which
`ConstantsAssumption` of FileTTL asks for.

**InterpretersProofs**, three programs that take a text step by step.

*pshy* (from `ShellAssumption` and `LinesAssumption`).
`TerminalHasOneReader`: ForegroundInv counts a zombie as busy until it is reaped,
since the parent goes on only then; so `Fork` and `Wait` hand one token back and
forth, until Control-C ends everybody at once. `LinesTakenOnce` adds that the first
shell is never reaped and is the only process in the loop until an `execvp` fails
(PlacesInv), and that what was handled, what the kernel still has and what is in
the reader's stdio buffer make up what was typed (InputInv). It needs
`CStringOfLine`: whatever the length of a line and however often the buffer has
doubled, the string in it is the line.

*brainfuck* (from `ConstantsAssumption`). `NestedProgramsStay` and
`JumpsReachPartner`, for programs of any length. JumpInv says that the counter of a
scan is the depth of the code between the bracket it started from and where it stands, and
that no place in between had depth 0 (RightAt, LeftAt); with nested brackets the
depth must come back to 0 before an end of the code (`ClosedBeforeEnd`,
`OpenedAfterStart`), and the first place where it does is the partner. The step below
position 0 wraps and is taken back by the `++` at the end of the turn (`IncrDecr`).

*tvm* (from `TokensAssumption`). `VariablesKeptApart`, for programs of any number of
lines. TvmInv says that later rows have later labels, so that no row gives an address to
the label of another (LabelsInOrder), and that the offset is behind every variable, unless
an `.ORIG` moved it (OffsetBehind). The theorem has a condition, `Addressable`: the
offset and the numbers in the text stay below 2^16. It is needed: addresses are 16 bits
wide and wrap, and the size of a larger block is clamped to 65535.

**TextsProofs**, the readers of texts and numbers, for inputs of any length.

*BigInt* (from `NumeralsAssumption`). `SumIsRight`: AddedAt says that the first loop
leaves the sums of the columns; CarriedAt that, at each column of the second, the
columns still raw, the carry and the digits already written have together the value of
the sum.

*uuid* (from `UuidTextsAssumption`). `UuidsRoundTrip`: of a text whose hyphens are the
four (`Regular`) UuidInv says which byte the scan has reached and that the two words
hold the bytes before it, shifted to their ends (ScanInv). `RoundTrips` puts the bytes
back into digits and the four hyphens into their places; for the other direction
`HyphenCount` and `PrintedString` count the hyphens of both texts.

*MD5* (from `LengthsAssumption`: less than 2^29 bytes, beyond which `PadMessage`'s
32-bit length wraps). `DigestIsOfMessage`: Md5Inv describes the padded message
(`PaddedOf`) and says that at each chunk the four sums depend on exactly the bytes
before it; MixInv, within a chunk, how often each word went in (TimesIn, from a table of
the place of each word in each round) and which bytes each register has taken in.

*tinydb* (from `StatementsAssumption`). `CreatesAndSelectsTaken`: DbInv is small, and
the work is in the step of a create: its checks in the order of the code refuse exactly
the ill-formed statements (`WellFormedMeans`, `EarlyChecks`), and the columns it adds
are those declared (`ColumnsAsDeclared`). A select gets the columns it names and the
word after its first "from" (`SelectTakenNext`); with a wildcard the theorem says which
word the code takes, the one behind the star, and that this is the wrong one is the
finding of tinydb_wildcard. The proof showed that the guards of the CASE in which
`CreateError` used to be written overlapped; it is now the chain of early returns that
the code has.

*The command lines* (from `CliAssumption` and `CommandsAssumption`).
`EventsSentAsAsked` and `RequestsAsGiven`, together `OptionsAreTaken`: CliInv and DrawInv
say of each field that it holds what the last option for it gave, or its first value if
there was none (LastServed, Holds, Shaped, Moded). RequestsAsGiven takes `strtol` as the
module lists it.

*The lexers* (tvm from `SourceAssumption`). `LineStartsAreMarked`, for mdm: the lines of
the tokens never go down and go up exactly at the newlines (LinesUp), so the first token
of a line is the one behind a newline. `TokensKeepTheirLines`, for tvm: the line is one
more than the line breaks read, and the buffer is a stretch of the source that ends where
the lexer stands, in the line it is in, or a comment was written against it (LexInv).
Both are parts of `TokensAsWritten`.

Induction over data. That the recursive functions (`Filled` of Pshy, `Reading` of
BigInt, `Weight`, `Decoding` and `SizeOfFirst` of the bytes) exist with the values their
definitions give, and what follows for every length, needs it. The library's induction
schemes have an operator parameter no installed prover instantiates; `NatInduct` states
induction for a SET of numbers instead, and is proved from the well-foundedness of
Nat (WFMin of WellFoundedInduction), so each use names the set of lengths for which
the claim holds. Where a library operator is a fold (`FlattenSeq`) or a CHOOSE (`Min`,
`SelectInSeq`), a lemma says what it returns.

What stays with TLC:

- liveness under fairness: `EventuallyArchived`, `EventuallyTried`,
  `EventuallyDrawn`, `MainEnds`, `EveryLineHandled`, `ProgramsAssemble`;
- `EncodesAsWritten`: it reads fields of bits out of sums of words with powers of two,
  which none of the provers computes with;
- `TokensSpellText`, the rest of `TokensAsWritten`: it compares the tokens' text with a
  `SelectSeq` of the source, modulo the runs of backticks around every place, so it would
  take an induction over both at once;
- `LevelOfItsText`, which is about the texts of the run: it finds the sizes and the tiles
  by the places of keys and of double newlines, a reading that is right for texts whose
  fields do not contain such keys themselves;
- the violated properties.

## 5. Findings

- `psycal_lost`: the README of psycal promises that unexpired events are stored
  and old ones preserved; a kill between the truncation of `events.psycal` and
  the end of the save loses them (dump.cc:73).
- `sum_total`: workers get a reference to `range`, which the next turn of the
  loop overwrites (multi-vector.cc:113); the total may be wrong.
- `packetdraw_rect`: the usage text offers `-w` for the width and `-k` for the height
  (packetdraw/main.c:54-55); `draw_rect` takes the first for the height and the
  second for the width (graphics.c:55-56).
- `tvm_store`: Parse gives `ST` the two operands "ST SR1 LABEL" (tvm.cc:300); Encode
  puts the first one into the word twice and the second not at all (tvm.cc:523-524).
- `tinydb_wildcard`: with `*` ParseSelect is still on the star when it means to step
  over "from" (statement.cc:74), and takes "from" for the table.

Met while modelling, and kept as conditions of the properties instead of runs:

- Granulator: with no elements the last index wraps; with more cores than the
  threshold the tail may not be covered. Both are outside `Sane`.
- psycal: once a thread has worked on a queue that is half loaded, or left for good
  before `run_server_` was set, `KeptUnlessTorn`, `QuietMeansSaved` and
  `HistoryOnce` need not hold; a text read from a file may pick up bytes that
  follow it in memory (dump.cc:43); a torn record is loaded as an event with a
  smaller time (dump.cc:29); `-p` has no argument in the option string
  "x:pshft:" although README.md:24-27 gives it one; `-d` (README.md:6-8) and
  `-m` (README.md:16) are refused.
- fttl: a file that could not be removed is forgotten (fttl.cc:72-77).
- packetdraw: an unknown option prints the usage and main goes on; `-s` wins over `-c` wherever
  it stands.
- lbos: the usage text offers `-c`, which is refused (lbos.cc:174).
- tvm: programs without `.ORIG` assemble, although the comment at tvm.cc:249 and
  the fixture bad-no-orig want them refused (`ProgramsAssemble` is silent about
  them); `LDI` and `JMP` are complete statements that never leave Parse;
  a label in front of an unknown segment (`SIX .FILL x0006` in simple.asm) is
  overwritten and BuildSymtab then follows a null `op_` (`ProgramsAssemble` leaves these three
  out); labels encode as
  the number behind their first character, mostly 0, because Encode does not use
  the symbol table; `ADD R1, R1, 5` without the hash adds 0
  (`EncodesAsWritten` speaks of literals with a hash and of no label); an unlabelled
  `.STRINGZ` counts for 2 words only (`VariablesApart` is about labelled ones); `LDR` puts nothing into the image; a comment
  written against a word glues it to the text of the next line; a lone quote at
  the end of a source is doubled.
- pshy: after a failed `execvp` there is a shell under the shell, and with a pipe
  as input both take the same unread lines (EachLineOnce excepts that); a line of
  spaces is read through NULL; a bare `cd` has two tokens, so its usage text is
  never printed; builtins match by prefix, so `exitnow` exits; the end of the
  input prompts for ever.
- tinydb: the test of the column type tests the size again (statement.cc:138-140), so
  `nope(8)` ends the program instead of being reported, which `CreatesReported`
  allows for such a column alone; a second table of
  the same name is accepted and never found; without "from" the parser runs off
  the vector.
- mdm: of two backticks one is lost, one at the end of the text becomes three; a
  newline at the very beginning hides the mark of the token behind it.
- gamejam: a builder's sizes are uninitialised until a text gives them and stay
  for the next text; `LevelOfItsText` compares both sizes with what the text gives, and
  with the kept ones where it gives none.
- uuid: misplaced hyphens are accepted and shift the digits; a text that then ends in
  the middle of a pair is read past its end. The test of uuid.cc:35-41 means to refuse
  such texts; `UuidRoundTrip` allows the overrun to texts with a fifth hyphen alone.
- shm: every process initialises the semaphore, so a late one lets a second
  process in; a line typed as "end" keeps its newline and does not end the loop;
  an unlink may remove the object of a later generation.

## 6. Abstractions

- Wall clocks only go forward, in units of the timestamps.
- An `ofstream` is written record by record in PsycalServer; EventBytes has the
  cut at any byte.
- The bounds (`MaxClock`, `MaxCrashes`, `MaxSends`, `MaxCreates`, `MaxErrors`,
  `MaxEvents`, `MaxArgs`, `Rounds`, `MaxLines`, `MaxStarts`, `MaxObjects`,
  `MaxStatements`, `MaxText`, `MaxSource`, `MaxTexts`) stand in the guards of the
  actions or the initial conditions they bound; the proofs hold for all of those
  their modules have. `Arguments`, `Commands`, `Statements`, `Lines`, `Texts`,
  `UuidTexts`, `Numerals`, `Lengths`, brainfuck's `Codes` and tvm's `Sources` are the sets inputs are taken from.
- What the proofs ask of the constants is what the program's types give: shm's
  processes are finitely many; packetdraw's shapes have four 32-bit numbers, as
  four bytes each, and a colour; brainfuck's programs are sequences of characters, shorter than a
  `size_t` can count; a line typed to pshy has no NUL; a numeral given to
  BigInt is a sequence of digits and characters that are none; psycal's times fit into
  64 bits and its texts have no NUL; a message given to MD5 has fewer than 2^29 bytes;
  tvm's tokens have the fields and ranges `Tokens` lists, and an instruction is one of
  those its regular expression knows; an argument of psycal is not an option, a date
  and a word at once.
- pshy's kills hit a process that is not waiting; an interrupt hits all. A kill of a
  nested shell in `waitpid` (shell.c:80) would leave its child and its parent in the
  foreground together, which `OneInForeground` does not speak of.
- `range_slot` keeps its value after the spawning loop, since main only joins;
  a compiler that reads `rng.second` once gives a behaviour the model has.
- Output, logging, wording and formatting are left out.

## 7. Not modelled, and the plan

Left out for good: xdg, filesystem and hexdump (plain I/O), misc/dsu, socktk and
misc/udp (print what they read), misc/algorithm (calls of the standard
library), the SDL part of gamejam, libpsyseg's sample and the single-call
exercises of grimoire (signal, mmap, dup), the bit arithmetic of MD5 and the
hashes of ds (no state, tested against known values), BigInt's `operator-` (unfinished
in the code), tinydb's `Execute` (always a
failure) and its prompt (not connected to the parser), the parser rules of mdm
that are empty, the generators of uuid (they return zeros) and its comparisons
(one expression each).

Two hazards have no property: a path that leaves no room for its timestamp in
fttl's datagram (fttl.cc:221, the client's own memory is overrun) and packetdraw's
listener writing while main frees the array on its way out (packetdraw/main.c:127).
A `hardware_concurrency()` of 0 (granulator.h:36), by which the constructor divides,
is outside `Sane`.

Worth adding: a proof of `TokensSpellText`, and of `EncodesAsWritten` after its fields
of bits are written as quotients by constants.
