# A verification development for sysprak11

`src/` is a small file-sharing system in C. A **server** keeps one list of the
files its clients share; a **client** sends its list, searches the server's
list, and copies files from other clients. Both are built from processes that
`fork` for every longer task, share memory and semaphores (System V), and talk
over TCP sockets and pipes. This directory holds a TLA+ model of that system,
the configurations that check it with TLC on small instances, and proofs that
TLAPS checks for all instances.

Paths below are relative to `src/src/`; line numbers are those of the commit in
`src/`.

## 1. Inventory

| component | code | state it keeps | operations |
|---|---|---|---|
| shared file list | `array.c`, `recvFileList` and `sendResult` in `connection.c`, `filelistAction` and `searchAction` in `server_protocol.c` | `struct array` in a shared memory segment (`itemcount`, slots), `SEM_FILELIST` | append (one worker process per FILELIST command, under the semaphore), iterate (one process per SEARCH, without it) |
| semaphores | `semaphores.c` | one System V set, an undo adjustment per process | create, wait, signal, remove |
| heap arrays, child table | `array.c`, `childprocesses.c` | a `malloc`ed `struct array`; in the client the table `cpa` of children | init, add (with `realloc`), remove, get, iterate, clear; add a child, remove a child, signal children |
| tokenizer, line buffers | `tokenizer.c`, `buffer.c` | `struct buffer` (`buf`, `buflen`, `bufmax`) | search and extract a token, read a token from a stream or a buffer, read and write a buffer |
| server session | `comfork` in `server.c`, `protocol.c`, `server_protocol.c` | `combuf`, `comline`, `comword`, `comfd` of one connection, and copies of them in every forked worker | read, split into lines, dispatch a command, run its action |
| server main loop | `main` in `server.c`, `initap`, `freeap` in `protocol.c` | listening socket, signal descriptor, the resources of `ap` and `sap` | accept and fork, take a signal, shut down |
| list transfer | `client_sendlistAction`, `parseDirToFD`, `recvFileList` | the stream of name and size lines | walk a directory, send, receive |
| client main loop | `client.c`, `client_protocol.c`, `stdin_protocol.c` | `combuf` (shared by server replies and user input), protocol table, `cpa` | poll, reply codes, user commands, uploads, signals, exit |
| search results (client) | `client_resultAction`, `recvResult`, `stdin_resultsAction`, `stdin_downloadAction` | a second shared `struct array`, no semaphore taken | clear, receive, list, download |
| file copy | `advFileCopy`, `handleUpload` | bytes so far, exit status | copy, progress on SIGUSR1, stop on SIGINT |
| logger | `logger.c` | a pipe, `SEM_LOGGER`, a child process | log a message, copy the pipe to the file |
| consoler | `consoler.c` | two pipes, the prompt, the line being typed, `SEM_CONSOLER` | print a message, edit a line and hand it to main, leave with the client |
| configuration | `config.c` | `struct conf` | parse, check, default |
| utilities, network, formatting | `util.c`, `sharedmem.c`, `signalfd.c`, `network.c`, `writef.c`, `ttyraw.c` | none | conversions and wrappers |

How they interact. The server's main process accepts a connection and forks a
**session** (`comfork`). The session reads lines and runs actions; FILELIST and
SEARCH fork again: the **worker** opens its own port, receives the list of the
client (or sends results) and ends. All of them share the list, the semaphore
set and the pipe of the logger process. On SIGINT the main process runs
`freeap` (which removes the semaphores) and `freesap` (which marks the segment
for removal) and leaves; sessions and workers may live on. The client's main
process serves two streams, the server's replies and the lines of the consoler
process, and forks a child for each search answer, list and download. The
children that receive search answers write a second shared array, which main
lists and downloads read, and nobody takes the semaphore made for it. All
processes of a client print through the consoler: messages go to it through one
pipe under a semaphore, the lines the user typed come back through another.

What is hard here: workers killed at any instruction, semaphores that vanish
under a waiting process, readers without a lock, writers without a lock,
command lines and records cut anywhere by TCP, a forked worker that inherits
the parent's buffers, an array that moves when it grows, an entry that is
replaced between two reads of it, a loop that leaves on a value nobody assigned,
pipes that fill up in both directions, signals that arrive before anybody
asks for them, and calls that the kernel may refuse and whose failure ends a
loop or is not looked at. The `hazards` of `PROJECT.json` name them line by line.

What makes each of them correct:

- the shared list: one worker at a time changes it, nothing added is lost, a
  search sees whole entries of a list that only grows;
- lines: the same lines whatever the pieces, and an end that is told from an
  error;
- the transfer: names and sizes stay together, a good end is a complete list;
- a session: every command once and in order, an end for a cause, a worker that
  inherits what was read ahead and nothing else;
- the child table: no write behind its block, no child lost;
- the client's loop: no typed line lost or taken twice, an end that the user
  asked for or that has a cause;
- results and downloads: an answer arrives as it was sent, RESULTS lists
  entries, a download copies the file it looked up, a success is a whole file
  unless a write took less than it was given;
- the logger: messages whole and kept, the semaphores live as long as the
  server;
- the consoler: lines arrive as they were edited, messages are shown in order,
  the terminal is reset, and it leaves with the client.

## 2. Plan

Order of the work, most important behaviour first. What is built:

1. `Semaphores`, `FileList`: the shared list, the one structure many processes
   change at once; `AppendLog`, what it promises; `FileListProofs`.
2. `Tokenizer`, `LineStream`: how a stream becomes lines, which every other
   component relies on.
3. `ListTransfer`: the client's walk and the worker's loop, joined by a stream
   of lines; `StreamProofs`, about the transfer and about `LineStream`.
4. `ServerSession`: one connection with the workers it forks;
   `ServerSessionProofs`.
5. `ChildTable`: the heap array and its growth.
6. `ClientMain`: the client's loop with its two streams and its children;
   `ClientProofs`, about both.
7. `ServerLife`: main, sessions, logger, and the life of the semaphore set;
   `ServerLifeProofs`, which begins with what a semaphore does for whoever
   brackets code with it.
8. `Results`: the second shared array, written and read without a semaphore.
9. `FileCopy`: one copy with its signals and its unassigned
   status.
10. `Downloads`: the composition of the two, as `stdin_downloadAction` makes
    it; `DownloadsProofs`, about all three.
11. `Console`, `ConsoleProofs`: the terminal, its two pipes and the end of the
    client.
12. `SeqFilter`, `SequenceLemmas`: the filter in which several properties are
    stated, and what the proofs need to know of sequences.

What is left, in this order:

1. **Compositions**: `ServerSession` with a `ListTransfer` per worker, so that
   the inherited lines come from a session and not from a constant; `FileList`
   fed by `ServerLife`, whose logger is what removes the set; `ClientMain` with
   the pipes of `Console`.
2. **Words**: the matching of command words against a protocol
   (`processCommand`) and of keys in `config.c` as pure operators.

## 3. The modules and the code

**`Semaphores`** is `semaphores.c`: one semaphore of the set as a record
(`live`, `val`, `adj`, the undo adjustment of each process). Operators, no
variables; `FileList`, `ServerLife` and `Console` each hold one such record in
`sem`.

**`FileList`** is `recvFileList` from the moment it has a file, `addArrayItem`
and `sendResult`. `wpc` is the place of each worker: `recv`, `wait` (in
semWait), `test`, `copy`, `copying`, `load`, `store` (the accesses of
`addArrayItem` to shared memory, in the order of the code), `post` (semSignal),
`exit`. `itemcount++` is a load and a store, `memmove` begins and ends and
leaves the slot `Torn` in between. A worker can be killed at each of these
places. `semWait` can fail because the set is gone or because the wait was
interrupted; the code logs that and goes on, which the model does too and
remembers in `breached`. Searches take no semaphore: `rpc`, `pos` and `sent`
are the iterator and the output of `sendResult`. Variables below "history" are
read by no action.

**`FileListInv`** holds the inductive invariant, **`AppendLog`** the abstract
specification (a log that grows by whole entries, searches that answer in one
step), **`FileListProofs`** the theorems. The refinement mapping is `ListLog`,
`Answer` and `~breached`, at the end of `FileList`.

**`Tokenizer`** has `searchToken` and `extractToken` for the separators
`"\n"`, `"\r\n"` as pure operators; **`LineStream`** is the loop around them,
with `readToBuf`, entered at `read` (`processIncomingData`) or at `search`
(`getTokenFromStream`). The stream is a sequence of bytes out of CR, LF and two
letters; `read` takes any prefix that fits.

**`ListTransfer`** is `parseDirToFD` in the child of the client and
`recvFileList` in the worker of the server, with the lines between them. A
share is a sequence of steps of the walk: a file, a directory to descend into,
an entry that cannot be read. A size goes through `AsInt`, which is what `"%d"`
keeps of it, and comes back through `Strtol` (`my_strtol`). `Inherited` is what
the buffer of the session held when the worker was forked.

**`ServerSession`** is `comfork`, `processIncomingData` and every action of
`server_protocol.c`. A line is a record of its first word and the rest; a line
of `bufmax` bytes and more has the word `long`, of which `combuf` holds what
fits until a read of no bytes ends the session (`BufferFull`). The session is at
`poll` or in the loop over `lines`; `failed` says which call of the loop the
kernel refused (`poll`, the read of the `signalfd`, a result of `poll` that the
code does not know), and `client` is `none` when `accept` had failed before the
fork. A worker is a record with the copy of `combuf` it got by `fork`, and waits
in `accept` (`deaf` when `createPassiveSocket` failed and it polls descriptor
-1), works, or has ended; `behind` and `upTo` remember how many lines the
session had taken and read at the fork. The workers' own transfer is in
`ListTransfer` and `FileList`.

**`ChildTable`** is `addChildProcess` with `addArrayItem` on the heap: two
sizes, `memsize` in the struct and `alloc` as `realloc` was asked, the items,
and `extent`, one past the last byte ever written. The caller that ignores the
new address is `held`: what follows when the block has moved is not defined by
C and not modelled.

**`ClientMain`** is the loop of `client.c` with the actions of
`client_protocol.c` and `stdin_protocol.c`. A reply of the server has a head
(with its code) and a tail, which may arrive later; a line of the user is one
piece. Both are read into the one `combuf`; a line without an end that it has no
room for is `full`, and ends the loop (`BufferFull`). `consolemsg` writes
(`Shown`) or returns -1 (`Refused`), because the set was removed by another
process (`set`) or the wait was interrupted (`failed`); what main does then
depends on the action that called it: a reply ends the loop at once, RESULTS and
HELP set `shellReturn`, EXIT does not look. A write to an end that is gone kills
main by SIGPIPE (`BrokenPipe`). `children` are the processes with the state SHOW
depends on (`setup` until the child has its signal descriptor), `cpa` is the
table of them as the code fills it in.

**`ServerLife`** is `main` of `server.c`, `logger.c`, `initap` and `freeap`.
Every process that logs goes through `wait`, `head`, `tail`, `signal`: the two
writes are two pieces of one message, because `write` may split what is longer
than PIPE_BUF. The logger reads, writes, and after its loop runs `freeap`,
which removes the semaphore set, before it closes its end of the pipe; from
then on a writer gets SIGPIPE. `Leaves` is the end of a process: undo of its
semaphore operation, SIGCHLD for main. What a session does besides logging is
left out (it is in `ServerSession`), so a session may log, end or be killed at
any time.

**`Console`** is `consoler.c` with what main and the children do at its two
pipes. The consoler is at `poll`, behind an escape (`esc`, where it blocks in
`read` until a further character), or writing a line (`send`). What it shows is
the sequence `shown`, what was read and has no line end yet is `stdoutbuf`, and
the line being typed is `stdinbuf`, drawn again behind the prompt (`prompt`)
after every message. `consolemsg` goes through `wait`, `write`, `post`; main and
every child can be in it. A pipe has a reader as long as the consoler listens,
and the other one as long as somebody of `Holders` lives, since every child
inherits main's ends. Main is reduced to what concerns the terminal (its loop is
in `ClientMain`): it shows replies, takes lines, forks, and on its way out
removes the semaphores, closes its ends and waits for the consoler. A reply may
be a text without an end, as the `OK` of `client.c:114` is. A line that
`stdoutline` has no room for makes the consoler fail and return through
`initcap` into main's error path, which is `Fail`. `eof` is what has become of
stdin: at an `end` that `poll` calls readable (a terminal or a file) every round
reads nothing and flushes what was typed (`StdinGone`), and at a closed pipe
(`hup`) the consoler leaves.

**`FileCopy`** is `advFileCopy` between a socket and a file: bytes are counted
(`arrived`, `sizeSoFar`, `fbuf`, `written`), a write may fail or take less than
it is given (`lost` counts, as history, what it did not take), signals wait in
`sigfd`, which nobody `hears` when the `signalfd` could not be made: its signals
are blocked all the same. The variable that the loop tests and
returns is assigned on some paths only (`connection.c:314`, tested at 398), so
that a chunk or a progress report stays in the loop or leaves it with any status
(`TestUnassigned`). `cause` remembers, as history, what ended it.

**`Results`** is the client's results array: `client_resultAction` and
`recvResult` in a child per RESULT line, `stdin_resultsAction` in main. The
children change `count` and `slots` in the steps `clearArray` and `addArrayItem`
have, and no one takes SEM_RESULTS. An answer is a stream of pieces, seven to a
record: one for the address, one for the port, three for the name and two for
the size, because the first line of a record is waited for and the other three
are words of what has arrived by then. `got` and `taken` are how far it was
read and used, a token is the range of pieces that ended up in `comline`
(`NextWord` is `getTokenFromBuffer`). A record (`Record`) says behind which
pieces of its name there is a space and which of them are digits. A token is a
number if all of it is digits, wherever it stands, so the second word of a name
can be taken for a size; `SizeTaken` is what `my_strtol` makes of it, and the
slot keeps the int that `AsInt` leaves (`Number`). Records whose name does that
are those that `Misleads` describes; searches with one of them, or with a
record that was cut, are `Astray`. A text that is no address or no port is what
`parseIP` follows its unset pointer for. A slot is `Blank`, `Torn` (half copied,
or copied by two), or an entry.

**`Downloads`** composes `Results` and `FileCopy`: `dpc` walks a child of main
through `stdin_downloadAction`, one read of the shared entry at a time (`used`),
with the store of the port into that entry that `connectSocket` makes and the
`getSigfd` that may fail, up to the copy. `mixed`, `cut`, `spoiled`, `disturbed`
and `wiped` are history: which searches met another one, which had a record that
was not whole when it was taken, and what was replaced under a reader. The
properties are conditional on them, which says where the code needs luck.

**Proof modules.** `FileListProofs`, `ServerSessionProofs` and `ConsoleProofs`
are about the module they are named after; `StreamProofs` is about
`ListTransfer` and `LineStream`, `ClientProofs` about `ClientMain` and
`ChildTable`, `ServerLifeProofs` about `Semaphores` and `ServerLife`,
`DownloadsProofs` about `FileCopy`, `Results` and `Downloads`.
`SequenceLemmas` has what several of them need. `SeqFilter` defines the filter
`Only(s, S)`, the elements of `s` that are in `S`: `SelectSeq` of the standard
modules takes a test as a parameter, which no theorem could name, and the run of
`ServerSession` checks that the two agree (`FilterIsSelectSeq`). The modules
whose names begin with `MC` give constants their values for TLC.

Common abstractions: messages, file names, ports and words are model values;
texts, lengths of messages, addresses and the log's wording are left out;
`malloc` succeeds except where its failure has a path of its own
(`ChildTable`). A pipe is a bounded sequence of messages.

## 4. The runs

Every run is TLC on one `.cfg`. "Violation" runs are disagreements between the
code and what it says of itself; each checks one property.

| run | what it asks | bounds |
|---|---|---|
| `filelist_append` | mutual exclusion in `addArrayItem`, no write outside the segment, nothing lost or doubled, a published entry never changes | two workers, two files each, room for three: an append meets a full list, and each worker can be killed and the set removed at every step |
| `filelist_search` | a search without the semaphore reads whole entries and answers for a prefix that contains what was there when it began; the list implements `AppendLog`; workers and searches end | two workers with one file each, one search between their steps |
| `line_stream` | whatever the pieces, the lines handed on are those of the whole stream; the loop ends without an error only at the end of the stream; a line too long stops it in front of that line; the buffer keeps its bounds | every stream of up to six bytes over CR, LF and two letters; a buffer of five bytes, tokens of two: lines fit into both, into the buffer only, or into neither |
| `list_transfer` | names and sizes never change places; a good end is a complete list; both ends come to an end | every share of up to three items, sizes inside, outside and wrapping round an int of four values, a name that is a number, two open directories |
| `list_transfer_mixed` | violation of `ListsFilesOnly` | the same, with one inherited line |
| `session` | commands taken once and in order, nothing behind QUIT, answered in order, ends for a cause, a worker inherits exactly the lines read ahead, none missing; a session that was hung up on ends; every line is taken | every conversation of two lines with every command and a line too long for the buffer, every cut, two workers; a third fork would fail; a `poll`, a `signalfd` and an `accept` that fail |
| `child_table` | no write behind the block, no child lost or moved | thirteen children, an initial size of one and a half items: the table grows twice |
| `client` | no typed line lost or taken twice, the client ends for a cause; EXIT and a closed server end it | one reply that may arrive in two pieces, two lines of the user out of six kinds, one connecting client, a line that fills the buffer from either side, a message that is refused, a `poll` that fails, a write that nobody reads |
| `client_mixed` | violation of `OneStreamPerLine` | two replies, two lines |
| `server_life` | messages whole in the log, what was reported as logged is in the file, the set lives as long as the server and not longer, everybody ends after SIGINT | main and two sessions with one message each, a pipe and a logger's buffer of one piece; kills of every process, a full disk, a failing fork or poll |
| `console` | typed lines arrive as they were edited, messages are shown in order, the terminal is reset but for one case, a message and the client come to an end but for named cases | three keys out of `E`, Return, Backspace and a lone escape, or two and the end of stdin of either kind; one reply, which is a line, a line too long or an open text; one child with a message of one line; either pipe holds one item; kills of the child, a server that closes |
| `downloads` | an answer arrives as it was sent, RESULTS lists entries, no crash and no write behind the array, a download copies one file, a success is a whole file unless a write took less, a copy ends | ten plans: two searches under a RESULTS; more records than slots under two RESULTS; a download beside two searches; a download with a copy of up to three bytes after a search with cuts; cut records with a space in a name; cut records with a name that is all digits; a name whose second word is a number, under a RESULTS; a name with two words of which the second is a number; a size that wraps to another one and one that an int makes negative, under a RESULTS; cut records under a RESULTS |

Why these bounds are enough. The races of the list need two workers and, for
the searches, one reader: a third worker meets the same semaphore, and the
proofs cover every number. The room for three items with four appends makes the
full list happen. Lines: a CR LF pair, an empty line, a line of the token's size
and one above it, and a buffer full without a line all fit into six bytes. For
the session two lines are enough for a command that is read together with the
one before it, which is where the inherited buffers matter. The client's two
streams meet with one reply in two pieces. In `server_life` two pieces are
the smallest message that can be cut, and one slot in the pipe is the smallest
that makes a writer wait inside the semaphore. In `console` three keys make a
line of one character, one that is edited, an empty one, EXIT, and a line that
waits behind another one; pipes of one item are full after one. In `downloads`
every plan is one kind of disturbance, because their product adds nothing: two
searches cover two that mix, and the third record is the first that a segment of
three slots refuses. `MaxSays`, `MaxSent`, `MaxReplies`, `MaxInputs`,
`MaxUploads`, `MaxAdds`, `MaxWorkers`, `MaxStream`, `Files`, `MaxPresses`,
`MaxKidSays`, `MaxBytes` and `Plans` are bounds of the model, named in each
module; `MaxWorkers` is also the number of processes beyond which `fork` fails.
`PipeSize`, `BatchSize`, `PipeRoom`, `LineRoom`, `Cap` and `Room` stand for sizes
that the code or the kernel has, made small.

CHECK_DEADLOCK is FALSE everywhere: all instances stop when their processes have
ended or their bounds are used up, and the liveness properties say that the
right things happened before.

**Fairness.** Weak fairness only, and only of running code: the steps of a
worker or a search (`FileList`), sender and receiver (`ListTransfer`), the loop
of the session and the first step of a worker (`ServerSession`), the main loop
(`ClientMain`), the logger, main and a process inside `logmsg` (`ServerLife`),
the consoler, main and a process inside `consolemsg` (`Console`), the copy of a
download (`Downloads`). The operating system
schedules runnable processes, `poll` returns when there is something to do, and
`semop` wakes a waiter. Weak fairness of the wait is justified by the bounds on
the other processes' messages; the kernel's queue would give more. Never fair:
users, peers, signals, kills, failing forks, disks that fill up, servers
that have to answer. That a client sends its list to the end is assumed in
`AllEnd` and `TransferEnds`, which are about the server's side. `AllEnd` also
needs that nobody stops the worker that holds the semaphore for ever.
`ServerEnds` needs that connections do not arrive without end: main looks at the
listening socket before it looks at signals (`server.c:198`, 232), and the model
has as many connections as `Sessions`. `MessageEnds` and `ClientLeaves` say
themselves when the code hangs: two full pipes, a lone escape, a child that
never ends, a stdin whose end `poll` calls readable. `CopyEnds` expects a copy
to stop only for a signal that it can hear. What the kernel may refuse (`poll`,
`accept`, `signalfd`, a wait that is interrupted) is an action without fairness:
it may happen at any time and need not.

## 5. What is proved

For all values of the constants that satisfy the named assumptions. Each
argument is an inductive invariant, one lemma per action or group of actions,
and a theorem that concludes by temporal logic.

**`FileListProofs`** (`FileListAssumption`: the sizes are naturals, an item has
at least one byte, the two special slot contents are no entries). Any number of
workers, searches and files, any segment. Theorems: `TypeCorrect`, `Exclusion`,
`InSegment`, `OnlyWholeEntries`, `AddedIsListed`, `SearchSeesPrefix`,
`ListGrows` and `Refinement` (the list implements `AppendLog`).

None of the properties is inductive: that no worker tests the room while another
changes `itemcount` follows only from the semaphore, whose value says nothing
without the kernel's adjustments. `IInv` (in `FileListInv`) adds: as long as the
set exists, `adj[w]` is 1 exactly for the worker inside and the value is 0
exactly if there is one (`SemInv`); the worker inside sees the `itemcount` it
tested, holds the slot just above the list, and has copied its file before it
counts it (`WorkerInv`); a file is reported once (`FreshInv`); the published
slots are exactly what was reported (`ListInv`); a search has sent what matches
below its iterator (`SearchInv`). All of it is conditional on `~breached`: a
worker that went on without the semaphore voids it (section 6). `Refinement`
maps `CountStore` to `Publish`, the end of a search to `Search`, a failing send
to `CutOff`, the ignored failure of semWait to `Distrust`, and all else to
stuttering.

**`ClientProofs`** is about two modules. In `ChildTable`
(`ChildTableAssumption`) `addArrayItem` grows a heap array with a size that does
not agree with what it then records, and tests with room for one item to spare.
`TableInv` says that `memsize` is never more than one item ahead of `alloc`
(`SizesAgree`); with the test's own slack it follows that no item is written
behind the block, however often it grows (`NeverPastTheBlock`).
`ChildrenKeepTheirPlace` is the action property. The arithmetic (multiplication
of naturals by a constant) is in four lemmas.

In `ClientMain` (`ClientMainAssumption`) any number of lines of the server and
of the user go through the one `combuf`, whole or in two pieces.
`TypedTakenOnce`: the pieces of the user that were taken, those in the buffer
and those on the way are, in this order, what was typed (`OnceInv`, a filter of
a flattened sequence of lines). `EndsForAReason`: `PairInv` follows the pieces
of the server from the buffer to the wire. A head is followed there by the tail
of its own line (`Paired`); when poll is called, nothing but a head of the
server is left in the buffer; and if nothing is cut, what the server's loop
finds begins with a head (`Whole`), so that no line taken begins with a tail.
`EndInv` keeps the reason of each way out, from the step that sets
`shellReturn` to the end of the loop: the server is gone, a line without its
head or a fork that failed, a message that had to be shown and was refused, a
full `combuf`, a failing `poll`.

**`StreamProofs`** is about two modules. In `ListTransfer`
(`ListTransferAssumption`) any share with any names and sizes, any width of an
int, any number of directories the walk may hold open. The theorems assume
`Inherited = {<<>>}`, a worker whose buffer is empty when it is forked: without
this they are false, as the other run shows (section 6). `NamesAndSizesStay`:
the names in the list are the names of shared files in the order of the walk.
`WholeListWhenOk`: a transfer that ends well on both sides has listed all of
them. The invariant `TransferInv` says where the two sides stand towards one
another: of the files sent so far (`Sent`) the worker has read `r`, and what is
on the stream is the rest of them, name and size in turn, beginning with the
size if the worker waits for one and ending with a name if the walk was cut
there (`Pairs`); the list is what of the first `r` files has a size that
survives the int (`Listed`), with at most one name more (`Torn`). `Endings`
relates how the two sides end.

In `LineStream` (`LineStreamAssumption`) any stream, cut by `read` in any way,
any buffer and any token. Theorems: `StreamTyped`, `LinesInOrder`,
`EndTellsWhy`. The reference looks at a whole stream: it cuts at every LF, drops
one CR and forgets empty lines. The code looks at a buffer: it skips separators
and finds the next one. `StreamInv` brings them together at a place `b` of the
stream that is its beginning or behind an LF: the buffer is what was read behind
`b` (`Stands`), the stream goes on behind that (`Follows`), and what was handed
on is the lines that end at `b` or before, each at its rank (`UpTo`).
`NextToken` is the lemma that carries it: the leading separators of a buffer end
no line but empty ones (`BlankLines`), and the token `searchToken` finds is the
next line, CR and all. That the lines up to a place are those of the bytes up
to there (`PrefixLines`, `UpToPrefix`) then gives `LinesAsSent`, and that a
buffer that fills up in front of a missing line is one the stream does not fit
(`FitsLeavesRoom`) gives `EndsRight`.

**`ServerSessionProofs`** (the assumptions of `ServerSession`). Any lines, cuts
and number of workers. Theorems: `SessionTypes`, `TakenInOrder`,
`EndsForItsCause`, `WorkersReadAhead`. `InOrder` speaks of a concatenation of
three sequences that read and dispatch shift into one another. The invariant
says instead where each of them stands in the lines sent (`Part(s, t, b)`: s is
in t behind the first b lines): the lines taken at 0, `combuf` behind them, the
unread ones behind that (`LinesInv`), and the buffer of each worker behind the
line it was forked for (`WorkersInv`). That buffer has as many lines as were read
and not taken at the fork, so that it is all of them and no other
(`PartExact`): `WorkersReadAhead` is an equality. `PlaceInv` adds that a session
that polls has nothing in `combuf` but a line that is too long for it, which is
what makes the end of a stream either the end of its lines or a full buffer
(`EndsForCause`), and `QuitInv` that nothing follows a QUIT.

`RepliesInOrder` says that the session's own replies answer the commands it took
one by one and in their order, whatever the workers send in between: the
replies are a filter of `out`, the answers a flattened sequence, and each of the
eight commands appends to both what belongs together (`ActionAnswers`); a reply
of a worker is none of the session's.

**`ServerLifeProofs`** (the assumptions of `ServerLife`). Any number of sessions
and messages, any size of the pipe and of the logger's buffer. It begins with
lemmas on `Bracketed`: processes that bracket code with semWait and semSignal
are inside one at a time, also when they are killed there and while the set is
removed. `SetOutlives` needs only who is where when the set is gone (`SetInv`,
`LoggerInv`). `WholeLines` and `KeptWhenReported` look at file, buffer and pipe
as one sequence, `Kept`: with `Bracketed` at most one process is between its two
halves, and its first half is the last piece of `Kept` (`HeadAtEnd`,
`BothAtEnd`); a removal of the set does not end this, because a process that
cannot get the semaphore does not write.

**`DownloadsProofs`** (`ResultsAssumption`, `FileCopyAssumption`,
`DownloadsAssumption`). First `FileCopy` alone, with any file, buffer and peer
and any size announced: `CopyTypes`, `WholeOnSuccess` (property `FileIsWhole`:
the success of a finished transfer means that the file has every announced byte
once, unless a write took less), and `OnlyWhatArrived`, which says that no byte
of the file was made up. The invariant (`CopyInv`) is an account: what was read
is in the file, in the buffer or lost, and the buffer is empty whenever the copy
polls. A success tests what was read against what was announced, so that the
account is what makes it a statement about the file.

Then `Downloads`, with any number of searches, any plans, slots and numbers
typed. Theorems: `AloneSafe`, `EntriesListed`, `ThatFile`, `DownloadedWhole`,
`AnswerFound`.
There is no semaphore to reason from, so the invariant is about luck: a search
whose records arrived whole and do not mislead stands between two records
(`AlignInv`), and therefore crashes on no text that is no address; as long as
no two searches met, the one that is active counts what is in the array
(`SoloInv`, `CountInv`), stays below the last slot (`BoundInv`) and publishes
whole entries (`EntryInv`); what RESULTS has listed is still there as long as
nothing was cleared (`ListInv`), and what the child of a download has read is
what it looked up (`ChildInv`). The list of a RESULTS and the reads of a
download survive a search that only adds; a search that clears sets the history
variable that each of them is conditional on. `CopyInv` is carried over into
`Spec` of `Downloads`, whose steps either leave the copy alone or are steps of
it.

`AnswerFound` (property `FoundAsSent`) needs a second invariant, `FoundInv`: a
search that cleared the array last and met no other one is alone with it, and
while it is not `Astray` it has used seven pieces for every record it counted
(`FetchedInv`), so that the next four words are those of the next record. That
is the lemma `WordsOfRecord`: they are the record whole, or its name ends at a
space and the next word of the name is taken for the size, which is no number
because the record does not mislead. A slot has the size that an int keeps of
the one that was sent, which is that size if it fits (`Kept`). What the slots
hold is said only as long as no download stored a port into one of them.
`TakeRecordFound`, `QuietFound`, `ClearCountFound` and `FillFound` are the steps
of the owner, `OwnerMoves` says that those are all that matter.

**`ConsoleProofs`** (`ConsoleAssumption`). Any number of children, messages and
keys, pipes of any size. `ShownAsSaid`: as long as the consoler works, what was
written is what was shown, then what it holds back, then what is in the pipe
(`ShownInv`), and what it holds back has no line end. `ResetAtTheEnd`: a process
that has closed its ends does not get them back, so a consoler that died of
SIGPIPE stays one that nobody could hear (`TerminalInv`).

`TypedAsSent`: what main has taken of the user is what the user typed, as the
editing keys left it. `Edited(keys)` folds the keys into the lines typed and the
one that is being edited; `TypedInv` says that a line is in one place, taken, in
main's buffer, in the pipe or about to be written, and that while the consoler
edits, its buffer and, as long as somebody can type, its prompt are the line of
the fold; the end of stdin is in the fold as what drops that line.

**`SequenceLemmas`.** The library states induction with an operator as its
parameter, which none of the provers instantiates. What is needed here goes
without: a set of naturals has a least element (`WFMin` of the library), so a
set of naturals with 0 and with each successor is all of them, and a set of
sequences over `A` with the empty one and closed under `Append` is all of
`Seq(A)` (`SequenceInduction`). A property becomes a set, and an instance of the
lemma is first-order. With the same means a function defined by recursion over
the naturals exists and has its values (`IsRec`, `Recursion`), which gives the equations of
`Only`, `FlattenSeq` and the folds: for the empty sequence, for an appended
element and for a concatenation.

## 6. Where the code disagrees with what it says

With a run and a finding:

- commands sent right behind FILELIST become names of files
  (`connection.c:223`; `ListsFilesOnly`);
- a partial reply of the server and a line of the user become one line
  (`client.c:357`, 138; `OneStreamPerLine`).

Seen while modelling. The models have the behaviour; where a property is named,
it says under which condition things go well, the others have none.

Server:

- After a `semWait` that failed the append goes on without the semaphore
  (`connection.c:245-248`), and an entry reported as added can be lost. The
  properties of `FileList` are conditional on `~breached`, which is this.
- QUIT "closes the connection cleanly" (`server_protocol.c:50`), but a worker
  that waits in `accept` keeps a copy of the descriptor
  (`server_protocol.c:149`, 199): the client sees no end until it has gone.
- `recvFileList` assigns `file.size` only when the conversion failed
  (`connection.c:235-241`): a listed size is whatever the struct held.
- Sizes are written with `"%d"` and read into an int (`directoryParser.c:65`):
  beyond 2^31 they are dropped or wrong.
- `iswhitespace` never returns 1: the `continue` leads to the end of the text,
  which is no white space (`util.c:28-40`). A SEARCH for nothing forks a worker
  (`server_protocol.c:124`).
- PORT sets `comport`, which `filelistAction` overwrites with the port of the
  connection it accepted (`server_protocol.c:219`); PORT with a text ends the
  session.
- `searchAction` tests `sendResult` for -1, which returns -3
  (`server_protocol.c:157`): its status is always -2.
- `filelistAction` tests `!sockfd` where a failure is -1
  (`server_protocol.c:187`), `browseAction` reads the client's member of a union
  that holds the server's (`server_protocol.c:89`).
- A logger that cannot write removes the semaphores of the whole server
  (`protocol.c:198-201`), SEM_FILELIST among them, and ends every process that
  logs after it by SIGPIPE. `SetOutlivesServer` names it as a legal cause.
- When the listening socket cannot be made, main logs after `freeap` has removed
  the semaphores and closed the pipe (`server.c:172-174`): the message is lost.

Lines and arrays:

- A full buffer without a line makes `readToBuf` ask for nothing, and the 0 is
  taken for the end of the stream (`buffer.c:61`, `tokenizer.c:165`). A session
  whose client sends 4095 bytes without a newline ends with status 0
  (`protocol.c:56`), a client that gets such a line leaves its loop
  (`client.c:146`, 362). `EndsForCause` and `WhyItEnds` name it.
- `extractToken` lets a token of exactly `bufmax` characters pass and puts its
  NUL behind the buffer (`tokenizer.c:127`, 136).
- `addChildProcess` may move the table; no caller keeps the new address
  (`client.c:92`, `client_protocol.c:91`, 144, `stdin_protocol.c:165` against
  `util.h:89-91`). The child that sends the list is entered as the consoler
  (`client_protocol.c:144`).

Client:

- SHOW signals every download, also one that has not set up its signal
  descriptor and is ended by SIGUSR1 (`stdin_protocol.c:47`, 149).
- EXIT leaves the switch, not the loop over the lines (`client.c:373-376`): the
  lines behind it are still acted on.
- A message that `consolemsg` refuses, because the semaphores are gone or its
  wait was interrupted, ends the client as a failure: a reply at once
  (`client.c:113-125`, 173), RESULTS and HELP after the lines of the read
  (`stdin_protocol.c:68-73`, 90-93); EXIT does not look at it. `WhyItEnds` names
  it.
- Nobody ignores SIGPIPE: a reply that is shown when the consoler has gone, or a
  line passed on to a server that has, kills main.
- The client polls two of four descriptors (`client.c:329`): other clients and
  signals are never served.
- A walk that fails sends a partial list that the server takes for a whole one,
  and no directory is closed (`directoryParser.c:20-80`).
- SEM_RESULTS is created and never taken. Two RESULT lines run two searches into
  one array: entries mix, the second clears under the first, and the read back
  of an entry follows a null pointer (`connection.c:205`). `AloneIsSafe` and
  `FoundAsSent` hold without that.
- Only the first line of a record is waited for (`connection.c:168`): a record
  cut by a read becomes a wrong entry, and its rest the next record.
- The words of a record are split at spaces as well, and any number will do for
  a size (`connection.c:185-189`, `util.c:15`). A name with a space ends its
  search, unless its second word is a number: that is the size then, and the
  rest of the name and of the record are the next one. Of `song 7 x.mp3` the
  word `x.mp3` goes to `parseIP`, which follows a pointer that `getaddrinfo` did
  not set (`network.c:32-53`): a lone search of a whole answer crashes
  (`Misleads`).
- The size of an entry is what an int keeps of it (`connection.c:188`): a size
  that wraps round to one that is not negative is stored wrong, and one that
  becomes negative ends the search. `FoundAsSent` is exact for sizes that fit.
- `connectSocket` stores the port into the address it was given, which for a
  download lies in the shared array (`connection.c:111`); by then it may be the
  address of another file.
- All failures of a download end it with status 0 (`stdin_protocol.c:98-144`).
  The file is opened without O_TRUNC, so an older and longer one keeps its end.
- The child of a download never sends the name of the file, which
  `handleUpload` waits for; `handleUpload` itself gives up when `fstat` succeeds
  (`connection.c:278`).
- `advFileCopy` tests and returns a variable it has not assigned
  (`connection.c:314`, 398): a copy may end after any chunk, as a success or
  not. `writeBuf` writes once and forgets what was not taken: the bytes are
  counted all the same, and the copy calls itself a success without them
  (`connection.c:359`, 365). `FileIsWhole` is about the zeros the code assigned,
  and has that exception.
- A `getSigfd` that fails leaves the child with its signals blocked and no
  descriptor to hear them by (`stdin_protocol.c:149`): SHOW and SIGINT have no
  effect on that copy (`CopyEnds`).

Terminal:

- EXIT with a child that runs on never ends the client: main waits for the
  consoler (`client.c:454`), the consoler for the last writer of its pipe
  (`ClientLeaves`).
- After a lone escape the consoler waits for the next character
  (`consoler.c:67`), and nothing is shown until it comes.
- When the pipes are full in both directions, main and the consoler try again
  for ever (`MessageEnds`): both descriptors do not block, and both loops wait
  for the other.
- At the end of stdin every round of the consoler finds it readable, reads
  nothing and drops what was typed (`consoler.c:187`, 197); it never looks
  whether its pipe is closed, so the client cannot end (`ClientLeaves`). If stdin
  is a pipe, its end is an unhandled result of `poll` and the consoler leaves
  (`consoler.c:205`).
- A consoler that reads a line of more than 1024 characters leaves through main's error
  path and removes the semaphores of the running client (`consoler.c:178`).
- A consoler that sends a line when everybody has left dies of SIGPIPE with the
  terminal in raw mode (`TerminalReset` names it).

Configuration (`config.c`, not modelled):

- Keys are compared up to the length of what the file has, so that a prefix
  such as `s` or `l` is the first key that begins with it.
- The result of `strcasecmp` is tested as if it were true on a match: `rr`
  selects the priority scheduler and every other word round robin.
- Ports are accepted up to 645536 and cut to 16 bits; `schedTimeSlice` tests
  `bc_interval`.

## 7. Only model-checked

Every invariant and every action property that a run checks is also a theorem
(section 5). What stays with the runs:

- All liveness (`AllEnd`, `TransferEnds`, `SessionEnds`, `LinesTaken`,
  `ClientEnds`, `ServerEnds`, `MessageEnds`, `ClientLeaves`, `CopyEnds`): the
  prover has no rules for fairness.

## 8. Not modelled

- `handleUpload`: the client never accepts the connection it would serve
  (section 6).
- The configuration file: one process parses it before there is another one, and
  its result is a constant of all the models.
- The matching of command words and `searchString`: sequential functions over
  texts; the models take the command as given.
- `remArrayItem`, `remChildProcess`, `semVal`: no caller in the program.
- Start-up: the initial states are those after `initap`, `initcap` and
  `connect`; of a session also the one in which `accept` gave no connection.
- `network.c`, `writef.c`, `ttyraw.c`, `util.c` and the wrappers of system
  calls: no state of their own. What `parseIP`, `my_strtol` and the terminal
  modes do is modelled where it matters.
- A short write to a pipe: a process that is stopped inside `write` may leave
  half a message. The log has messages in two pieces (`ServerLife`) and files
  short writes (`FileCopy`); in the other models the kernel takes everything.
- What happens to a child table its owner has lost, and to a process that
  crashed, beyond its end.
- Memory that runs out, except in the child table.
