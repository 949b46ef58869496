# A verification project for `system-programming`

The repository is a collection of systems programs in C: thread primitives, a
parallel `make`, a chat server and client, an allocator, an `epoll` file server and
its client, a shell, a map-reduce over pipes, a file system, a virtual memory unit
and a dozen smaller libraries and tools. They share no state and hardly any code;
each directory is a program of its own. This project models them in TLA+, checks
them with TLC on small instances and proves the central ones with TLAPS for every
value of the constants: any number of threads, rules, clients, any heap.

Source paths below are relative to `src/`.

## 1. Inventory

### Modelled

| Component | State | Operations | What is hard | What makes it correct |
|---|---|---|---|---|
| bounded queue, `critical_concurrency/queue.c` | linked list, `size`, `max_size`, one mutex, one condition variable | `queue_push`, `queue_pull`, `queue_destroy` | pushers and pullers sleep on the *same* condition variable and only two transitions broadcast | an atomic FIFO; limit kept; no lost wakeup; every call returns |
| reusable barrier, `critical_concurrency/barrier.c` | `count`, `n_threads`, `times_used`, mutex, condition variable | `barrier_wait` | broadcast after the unlock; `times_used` read without the mutex; the next round starts while the last one leaves | nobody passes early; all rounds complete; the return value is the caller's round |
| semamore, `critical_concurrency/semamore.c` | `value`, `max_val`, mutex, condition variable | `semm_wait`, `semm_post` | one signal per post, posts and waits on one condition variable | value within bounds; units are claimed |
| parmake, `parallel_make/parser.c`, `parmake.c` | the rule graph; two queues (rules to do, rules done), `state` and counters of each rule, file times | parsing; cycle removal; workers; main loop; one pill to stop | reports arrive in any order; failures spread over several paths; shutdown | dependencies first; at most once; success means built; failures reach the root; it returns |
| chat server, `charming_chatroom/server.c`, `utils.c` | `clients[]`, `clientsCount`, mutex, sockets, `endSession` | accept, register, read, broadcast, leave, SIGINT | limit tested without the mutex; socket closed before its slot is cleared; descriptors reused | the count is the table; a slot is always found; one order of messages; delivery |
| allocator, `malloc/alloc.c` | headers in two doubly linked lists, `tail`, `freehead`, the break | `malloc`, `calloc`, `free`, `realloc` | long sequences of legal calls; splitting at its threshold; merging both ways; `sbrk` failing, or its argument wrapping | no overlap; callers keep their memory; both lists exact; neighbours merged |
| file server, `nonstop_networking/server.c`, `common.c` | a job per connection (state, buffer, offsets), the directory, `file_list` | edge-triggered `epoll` loop; PUT, GET, DELETE, LIST | partial reads and writes, yields in mid-request, answers that fail, two jobs on one file | files stored and delivered exactly; every request answered |
| shell, `shell/shell.c` | history, list of background processes, children, pending SIGCHLD | reading lines, built-ins, `&&` `\|\|` `;`, fork and wait, the handler, exit | the handler runs between any two steps, also in the middle of a change of the list, and reaps any child; history commands recurse | the list follows the children; history records what was run; exit reaches the children; every line ends |
| virtual memory unit, `ideal_indirection/mmu.c` | page directories, page tables, the TLB, the current process; frames and swap of the kernel | `mmu_read_...`, `mmu_write_...`, `mmu_add_process`, `mmu_remove_process` | one TLB for all processes; evictions behind the unit's back | a page holds what its process wrote last; no access goes through another process's tables |
| scheduler, `savvy_scheduler/libscheduler.c` | `job_info` of each job, the priority queue, three totals | new job, expired quantum, finished job, six schemes | `used_time` is settled only at evictions and ends, while the queue is ordered by it | keys never change inside the queue; what a job is charged is what it ran; totals are sums |
| minix file system, `finding_filesystems/minixfs.c` | inodes with direct and indirect blocks, a directory, the data map | create, write, read, chmod, chown, virtual read | ranges across block ends and across the direct/indirect border; a full disk | every read returns what was written; each block has one owner |
| vector and sstring, `vector/` | an array of owned objects, its size and capacity; a string and its length | all that change them | shifting and moving slots in any order of calls | a sequence of distinct living objects, none leaked |
| mini valgrind, `mini_valgrind/mini_valgrind.c` | list of records, two totals, a count of invalid frees | `mini_malloc`, `mini_calloc`, `mini_realloc`, `mini_free` | a list that is followed through memory the program changes | requested minus freed is what the caller holds |
| text editor, `text_editor/` | the lines of a document, the file | insert, append, write, delete, merge, split, search, save, load | escapes removed while scanning; a search around the end | saved text is read back; both unescapings agree; a search skips nothing |
| password cracker, `password_cracker/` | task queue; between barriers: parts, `find`, `stop`, counts | workers, main | one pill for all workers; unlocked reads kept apart by two barriers | each password found exactly if it is there, hashes counted exactly, all threads end |
| mapreduce, `mapreduce/` | processes, who holds which pipe end, pipe contents, data store | main, splitters, mappers, reducer | the end of a pipe depends on every process's descriptors; parts cut at line ends | the output counts the input; it ends |
| thread exercises, `teaching_threads/par_reduce.c`, `critical_concurrency/rendezvous.c` | a shared counter; two texts and two semaphores | threads | a data race; printing what another thread changes | no thread leaves the list; whole texts are printed |
| nonstop client, `nonstop_networking/client.c`, `common.c` | the answer read so far, the local file, exit status | one request | answers cut anywhere, connections reset, a file that changes | an exit status of 0 is the truth |
| chat client, `charming_chatroom/client.c`, `chat_window.c` | socket, two threads, what is typed and shown | writer, reader, SIGINT handler | threads cancelled and the socket closed in mid-message | what is sent and shown is a prefix of what should be |
| rpc resolver, `rpc/dns_query_*_impl.c` | caches, the static response, datagrams | client, server procedure | lost datagrams, repeated calls, late answers | nobody is told another query's address |
| tools: `extreme_edge_cases/camelCaser.c`, `mad_mad_access_patterns/`, `know_your_tools/`, `utilities_unleashed/` | the text rewritten; a place in a tree; lines and the file shredded; environments and children | `camel_caser`; both lookups; `secure_move`; `env`, `time` | rewriting in place, references between variables, failures in the middle | agreement with a reference definition |

How they interact: `parmake` and `cracker1` use a queue with the interface of
`queue.c` (as a library); the chat server and the file server meet their clients
over sockets only; everything else is independent.

### Not modelled

Drawing with ncurses (`chat_window.c` but for what is typed and shown), the parsing of
command lines, messages and their formats (`format.c`), the hooks that delay library calls for
tests, the pointer exercises (`perilous_pointers`: straight-line functions that
print), the body-less `deadlocked_diners`, the pi example of mapreduce (floating
point, and a header that is a table of digits: 1244 of the repository's lines), and the
vendored headers of libraries that are not in the repository (`includes/`, `libs/`:
vector, dictionary, set, graph, queue, callbacks). `merge` and `mergeprev` of
`alloc.c` are never called. `PROJECT.json` lists every part with its reason.

## 2. Modules

| Module | Models | Variables ↔ code |
|---|---|---|
| `Queue` | `queue.c`, one action per stretch of code run under the mutex | `items`, `size` the structure; `waiting` the threads asleep on `cv`; `inside`, `left` which call each thread is in and owes |
| `Fifo` | what a bounded queue promises | the items in it |
| `Barrier` | `barrier.c`, with the unlock, the broadcast and the return as separate steps | `count`, `times_used`; `pc`, `waiting`; `arrived`/`passed` rounds of each thread |
| `RoundBarrier` | what a barrier promises | rounds arrived at and passed |
| `Semamore` | `semamore.c`, several semaphores, each thread with a script of calls | `value`, `waiting`, `pc` |
| `MakefileParser` | `parser_parse_makefile`, one action per kind of line | vertices, edges, commands, `curr`, `inBlock`, `firstRule` |
| `RuleGraph` (extends `MakefileParser`) | `detectCycle`, `find_useful_nodes` and the loop over the goals | the graph, the goals still to look at |
| `ParMake` | workers, the two queues, the main loop, the pill | `jobs` and `checked` the two queues; `state` and `satisfied` of each rule; `mtime`; `wpc`, `job`, `cmd` of each worker |
| `ChatServer` | `run_server`, `process_client`, `write_to_clients`, `close_server`, `cleanup` and the retry loops of `utils.c` | slots and descriptors, `clientsCount`, the mutex, what each client has sent and received; `half`, `torn` the two writes of a message |
| `Malloc` | `malloc`, `calloc`, `free`, `realloc` and helpers as operators on a heap record | the header fields by address, `tail`, `freehead`, `brk`; `live` what each caller asked for; `wrapped` |
| `NonstopServer` | `epoll` loop, job states, `reader`/`writer` | a job's state, buffer and offsets; the directory; sockets as counts of units in flight; `listed`, `freed` whose name is in `file_list`, and whose is freed |
| `Shell` | `shell.c` | `hist`, `bkgd`, `idx`/`len` how far a command has come in it, `cur`/`logic`/`stack` the calls in progress, `child`, `sig`/`handling` the signal; `mixed`, `erased` what the handler took away meanwhile |
| `Mmu` | `mmu.c` | `page_directories`, `pde`, `pte` the tables by frame; `tlb`; `mem`, `swap`, `freeFrames` the kernel's; `lastWritten` history |
| `Scheduler` | `libscheduler.c` | `pqueue`, `info`, `running`, totals; `cpu`, `waited`, `firstRun` history |
| `MinixFs` | `minixfs.c`; reads are operators on the state | `inode`, `dirBlocks`, `entries`, `data`; `written` history |
| `Vector` | `vector.c`, `sstring.c` | `array`, `size`, `capacity`; `alive`, `value` the objects; `source`, `len` |
| `MiniValgrind` | `mini_valgrind.c` | `mvHead`, `mvNext`, `request_size`, totals; `asked` history; `mvBroken` |
| `Editor` | `editor.c`, `document.c` | `document`, `file` |
| `CamelCaser`, `Lookups`, `SecureMove`, `Utilities` | the tools | their local variables |
| `Crackers` | `cracker1.c`, `cracker2.c` | the shared fields, who waits at which barrier, program counters |
| `ThreadLabs` | `par_reduce.c`, `rendezvous.c` | `thread_part` read and written in two steps; `quote`, `sem` |
| `MapReduce` | `mapreduce.c`, `splitter.c`, `core/`, `mappers/`, `reducers/sum.c` | `status`, `ends`, `pipe`, `unsent`, `datastore`; `older` the size of the file that was there, `output` |
| `NonstopClient`, `ChatClient` | the clients, against any peer | `clStep`, bytes read and sent; `wire`, `screen`, the threads |
| `Resolver` | `dns_query_clnt_impl.c`, `dns_query_svc_impl.c` | datagrams as sets, `res` the static response, `fds` |
| `BarrierProofs`, `ParMakeProofs`, `ChatServerProofs`, `NonstopServerProofs`, `ShellProofs` | theorems, each about the module it is named after (section 5) | |
| `MemoryProofs` | theorems about `Malloc` and `Mmu` (section 5) | |
| `PipelineProofs` | theorems about `Queue` and `MapReduce` | |
| `ProgramProofs` | theorems about `Semamore`, `Resolver`, `ChatClient`, `ThreadLabs`, `Crackers`, `NonstopClient`, `Scheduler` and `Editor` | |
| `MC*` | constants of the instances. `MCLibraries` and `MCPrograms` compose components that do not interact: a behaviour picks one at its start (`library`, `program`), the others keep their initial state | |

Conventions. A step is what one thread does between two points where another
can interfere (a lock, a wait, a system call, a signal). `pthread_cond_wait`
puts a thread into `waiting`; it may leave without being signalled
(`SpuriousWakeup`, external). Text is abstracted to what the program tells
apart: a makefile line to its kind and names, a command to its kind, a file to
its units and their origin, a request header to the request. Variables marked
"history variable" are read by properties only. A definition whose comment
says "mutant" is a plausible wrong version of the next one; each property of a
passing run is violated when one of them is put in its place, which shows that the
property depends on the code.

Some modelling decisions worth knowing:

* `Malloc` works in units; a header takes `META` of them, `sbrk` fails beyond
  `HeapLimit`, and the product of `calloc` wraps modulo `SIZE_MOD`. So does the sum of
  header and size that `malloc` gives to `sbrk`, which takes a signed number: for sizes
  near `SIZE_MAX` the break grows by too little or moves down, and a block is returned
  all the same. `Wrap` is that call; it sets `wrapped`, and the model ends there.
* `ChatServer`: a message is two writes to each slot, the size (`WriteSize`) and the
  bytes (`WriteBody`). A thread that leaves closes its descriptor without the mutex
  (`server.c:226`), so between the two the number may pass to a newcomer. `torn` has
  who got bytes without a size; what such a client makes of its stream from then on is
  not followed (its `inbox` stops). A write takes all its bytes at once: a number that
  passes on in the middle of the bytes is not a case of its own.
* `NonstopServer`: `disturbed` marks a job whose file another job wrote or removed
  meanwhile; the code then mixes their data, and `FilesAreFaithful`
  excludes it. `Starved` marks a GET whose buffer was read over because a full send
  buffer took nothing of it (`server.c:421`): it never ends. An answer that cannot be
  written leaves its job in the loop, and the next event dispatches it again, although
  `write_err` has freed the job's name (`server.c:67`), or `handle_delete` the job's and
  the list's (`server.c:379`). `freed` has these jobs; `UseFreedName` is the dispatch that
  opens, compares or frees such a name. It sets `ruined`, and the model ends there.
  After a `remove`, the rest of the loop in `handle_delete` compares with the freed name
  (`server.c:378`); this is taken to find nothing. The input of a client that is gone ends
  with an end of file; that `reader` may report `ECONNRESET` instead, upon which `put`
  leaves an incomplete file as it is, is not modelled.
* `Shell`: `waitpid` that is blocked and whose own child dies returns before the
  signal is delivered; in every other case the handler may come first. `setpgid`
  fails when the child has already called `exec` or has been reaped. At the end of
  input `fgets` leaves an uninitialized buffer: `Garbage` is what it may hold. A
  popped empty vector and a stack that overflows are crashes. The model always has
  a history file (`-h`). Commands that work on the list of background processes go
  through it in steps, and the handler may run between any two: `kill(2)`, the search
  by `get_process`, in `rm_process` the test of an entry (`shell.c:159`), the `free` and
  `vector_erase` by index (160, 161), within `vector_erase` and `vector_push_back` the
  reading of the size and what is done with it, and each look of `ps`, `stop`, `cont` and
  `kill_zombies`. An entry that `rm_process` has freed keeps its place, with `freed` set, until
  it is erased. The vector is a library of which the repository has the binary only
  (external): the moving of all entries behind the erased one and the storing of the new size
  are one step.
  Not modelled: a write of `ch_process` to a struct that the handler frees between the
  last look and the write, a reallocation within `vector_push_back`, and a handler
  that interrupts the allocator itself.
* A pid, and a connection, is used once; descriptors are reused.
* `Mmu`: the kernel's frame allocator, its eviction and the swap files are
  external; a page is one datum. `mmu_write` with a read-only segment, faults on the
  directory and on the table, and the flush at a switch are steps of the same
  action, as in the code.
* `MinixFs`: a write that starts in a direct block and ends behind the direct ones
  copies a whole last block (`minixfs.c:298`), reading past the caller's buffer:
  `Garbage`, which must never lie inside the file.
* `MiniValgrind`: the first record's `next` is uninitialized (`Null` or `Wild`), and a
  `realloc` that moves a block leaves its old address in the list. Following either
  sets `mvBroken`; the property speaks of the calls before.
* `ThreadLabs`: `thread_part++` without a lock is a read and a write.
* `MapReduce`: only write ends decide when a reader sees the end; the parent keeps
  all read ends, so no writer gets SIGPIPE. `broken` is what
  fails: a fork, the input, the first mapper or the reducer. Where one of the last two cannot be
  executed, whoever writes to its pipe fills it and main waits for ever (`PipeOverruns`), unless
  it all fits. The output is
  opened without `O_TRUNC` (`mapreduce.c:41`): `output` is the counts and the `tail` that an
  `older`, longer file leaves behind them.
* `ChatClient`: a cancelled thread ends at its next cancellation point, or inside the call it
  is blocked in.

## 3. Runs

| Run | Instance | Checks |
|---|---|---|
| `queue` | 3 pushers, 2 pullers, 2 slots, 6 items | `NoLostWakeup`, `ImplementsFifo` (refinement of `Fifo`), `EveryCallReturns` |
| `barrier` | 4 threads, 3 rounds | `NobodyPassesEarly`, `SleeperHasReason`, `ReturnsRound`, `ImplementsBarrier` (refinement of `RoundBarrier`), `AllRoundsComplete` |
| `semamore_full` | 1 unit, 2 posts, 1 wait | violation of `PostIsNotStuck` |
| `parmake` | 2 workers, a diamond of 4 rules under the root, all file times, any command failing | `RunsInOrder` (types, dependencies first, at most once), `ResultIsTrue` (success means built, failures reach the root), `DecidedForGood` (a verdict is never taken back), `Terminates` |
| `parmake_failure` | the same | violation of `DescendantsStillRun` |
| `rule_graph` | every makefile of up to 4 lines over 3 names (symmetric), without goals or with all targets as goals | `ParsedRight` (the last recipe wins, the graph is the makefile's), `PreparedRight` (cyclic goals dropped, exactly the useful vertices kept) |
| `chat` | 3 clients, 2 slots, one leaves, SIGINT | `TableIsSound` (the count is the table, a slot is always found), `BroadcastOrder` (one order for all; every sender's messages once and in order; only newcomers' streams are ever broken), `EveryMessageDelivered` |
| `chat_write` | 2 clients, one leaves | violation of `WriteFailureReturns` |
| `nonstop` | 2 clients: a PUT of two chunks or a GET, next to any request, or a DELETE next to a PUT; buffers of 2 units, a send buffer of 3 | `FilesAreFaithful` (PUT and GET), `EveryRequestAnswered`, with the exclusions below |
| `shell` | 18 sessions of up to 4 lines, 3 children, 2 initial histories | `BackgroundListed` (the list misses at most as many as the handler came into the middle of a change, and is exact without that), `HistoryIsExpansion`, `ExitSkipsOnlyErased`, `EveryLineIsDone` |
| `libraries` | each sequential library and tool, every sequence of calls within the bounds of `MCLibraries.cfg` | `MemoryIsSafe`, `ListsAreSound` (malloc), `PagesKeepTheirData`, `VectorIsSound`, `LeaksAreCounted`, `EditorKeepsText`, `ScheduleAccounts`, `FileSystemIsSound`, `ToolsMatchReference` |
| `programs` | each program of several threads or processes and each client, with failures | `SemamoreIsSound`, `CrackersAreExact`, `ThreadLabsAreSafe`, `OutputCountsInput`, `ClientIsTruthful`, `ChatClientInOrder`, `ResolverIsRight`, `ProgramsEnd` (they end; a `semm_wait` is not stuck) |

A property that names several parts (`RunsInOrder`, `MemoryIsSafe`, ...) is the
conjunction of definitions above it in its module, each with its own comment; for instance, `ScheduleAccounts` is `BooksAgree` (list, jobs and what a running job has left) and
`TotalsAgree` (the three sums), and `OutputCountsInput` is `CountsWholeInput` (what is
written at the end) and `NothingAfterEnd` (what the reducer may conclude from the end of its pipe). Where a
part has a wrong version of its own, `PROJECT.json` lists that mutant as well.

What the properties leave out. Some hazards are defects of the code: the model has them,
and the property says what holds as long as they have not struck. They are told here
and in section 6, and no property catches them:

* `MemoryIsSafe`, `ListsAreSound`: calls after an argument of `sbrk` has wrapped (`wrapped`).
  The run has a size that wraps (254 of 256), so this end is reached.
* `FilesAreFaithful`: jobs on a file that another job wrote or removed (`disturbed`).
  `EveryRequestAnswered`: such GETs, a GET that is `Starved`, and a server that has come to use a
  freed name (`ruined`).
* `HistoryIsExpansion`: history commands as parts of a logical line (`Clean`).
* `BackgroundListed`, `ExitSkipsOnlyErased`: entries lost to the handler are bounded by the
  number of times it came in between (`mixed`, `erased`), which is not zero.
* `PagesKeepTheirData`: the null pointer and the use of an absent entry on a read
  (`mmu.c:63`) change no page, so this property does not see them.
* `LeaksAreCounted`: calls after the list is broken (`mvBroken`). `FileSystemIsSound`: a disk on which
  a full directory has got an entry (`fsBroken`).
* `ToolsMatchReference`: a `secure_move` whose destination cannot be opened.
* `ThreadLabsAreSafe`: the result of `par_reduce` when two threads took the same part;
  that they stay inside the list is checked always.
* `OutputCountsInput`: the tail of a longer older file; `ProgramsEnd`: `PipeOverruns`.
* `ClientIsTruthful`: an answer cut inside its size (`SizeCut`).

Why the bounds are enough to be interesting. *queue*: more pushers than slots
and more pullers than one, so both kinds sleep and several threads are woken for
one slot; a fifth thread makes two sleepers of one kind next to one of the other.
*barrier*: three rounds let a fast thread return twice while a slow one is
still leaving. *parmake*: a shared dependency is reached along two paths, and
one goal has a second dependency, so counts above one and both orders of reports
occur. *malloc*: requests lie below, at and above the splitting threshold
(`sz + 3` headers) and up to five blocks fit, so that free blocks have neighbours of
every kind. *chat*: one client more than slots, so a slot and a descriptor are reused, also between the two
writes of a message, and the limit is met. *nonstop*: a PUT spans two buffers, input may end early or
be too long, a GET is larger than the send buffer, and a freed name is used after a failed answer to a PUT, a GET and a DELETE. A server that is out of inodes
(`FreeInodes`, a bound of the model) starts no new file; eight of them are never used up here. *shell*: three children, so two
may die before one handler runs, and an exit can skip one entry and reach another.
*libraries*: fewer frames than two processes need, so pages are evicted; two direct and two
indirect blocks of two bytes and writes of 3 and 7 bytes, so a write crosses every
kind of border and the disk fills up; documents of two lines; three jobs whose
priorities and run times are not in the order of arrival, under all six schemes;
vectors that grow twice; all texts of up to four characters and sentences of five.
*programs*: three workers for three tasks, one of them with fewer candidates than
workers; three mappers for inputs with an empty line, no final newline and fewer
lines than mappers, pipes of one item, one failure of each kind (a fork, the input, a mapper,
the reducer), an output file that is new or was longer; answers cut at every
place that matters; two lines typed and two received with up to two SIGINTs; four
resolvers for hosts known to the client, the server, the authority and nobody,
each call sent twice and any datagram lost. The semaphores are one with room for every
post (3 threads) and one that holds a single unit (2 threads).

## 4. Fairness

* Threads (`queue`, `barrier`, the semaphores of `programs`, `parmake`): weak fairness of every
  thread's step, that is, the scheduler runs a thread that can run and a
  mutex is eventually granted. Nothing is assumed of spurious wakeups.
* `chat`: weak fairness of the main loop and of every client thread while the
  process lives; nothing is assumed of clients.
* `nonstop`: strong fairness of serving a client (`epoll_wait` returns events of
  all ready descriptors in turn, so a client that is ready again and again is
  served), weak fairness of the clients that send and read, until the server is stopped or has
  used a freed name.
* `programs`: besides the semaphores, weak fairness of the steps of the program
  that was picked, all its threads and processes together. These programs make
  no endless loop of steps (each step consumes input, work or a bound), so progress of the
  whole is progress of each process that can move, which is what the scheduler
  gives. Nothing is assumed of users, servers, name servers, the network or other programs.
* `shell`: weak fairness of the shell's steps, those inside a change of the list included, of
  the delivery of a signal and its handler, and of the end of *foreground* commands; background children may run for ever.

`CHECK_DEADLOCK FALSE` is set for the two servers (one that nobody connects to
waits, and after SIGINT it stops) and for `libraries` and `programs`, whose programs
end and whose libraries need not be called again; that a program ends *properly* is
`ProgramsEnd`. The other modules have an explicit final step.

## 5. Proofs

All proofs are for arbitrary constants.

`PipelineProofs`, first part, `Queue` (any sets of pushers and pullers, any limit, any numbers of calls):
`IInv` is `TypeOK`, *inside owes a call*, *destroyed is quiet*, *size counts the list
and the limit holds*, and `NoLostWakeup`. The last one is the reason the others are
needed: that a broadcast happens when a slot becomes free relies on `size` being
exact at that moment. Theorems: `TypeCorrect`, `NeverLosesWakeup`, `KeepsLimit`, and
`RefinesFifo` (only `Push`, `Pull` and `Destroy` change what `Fifo` sees).

`BarrierProofs` (any finite set of threads, any number of rounds): `IInv` adds
`Counting` (`count` is determined by how many threads are in the inner
loop, in the two phases of a round) and `InRound` (which round each thread is in, compared with
`times_used`) to the type invariant and the properties. Cardinality facts come
from `FiniteSetTheorems`. Theorems: `BarrierHolds`, `ResultIsRound`, `NoWakeupLost`,
`RefinesBarrier`.

`ParMakeProofs` (any acyclic rule graph, any number of workers, any file times, any
command failing). The invariant follows one rule through the program: `OnePlace` (it is
in `jobs`, with one worker, in `checked` or nowhere), `ReportedOnce`, the count (the
dependencies a rule has counted are exactly those that were reported and taken
from `checked`), `ReadyFirst` (a rule is handed out when all are counted), `FailedForReason`
(a failed rule has a failed command or a failed dependency below it) and `FilesInOrder`
(what was run is newer than what it was made from). `RunsInOrder` and `ResultIsTrue` follow:
that success means built needs the count to be exact, and that in turn needs each rule to
be reported once although failures spread along several paths. `DecidedForGood` is an
action property proved from the same invariant. The constants are a graph as
`RuleGraph` leaves it (acyclic, closed under dependencies, every rule below the root), which
is what `PreparedRight` checks.

`ChatServerProofs` (any connections, slots and messages): `SlotsAreOwned` (each slot in
use belongs to one thread, and only that one clears it), `DescriptorsHold` (which descriptors are
open, and whose), `MainHolds` (between main's test of the limit and its search for a
slot the table only gets emptier), `OnePlace`, `WriterIsLast` (the thread in a
broadcast holds the mutex, and its message is the last one sent), `InboxesInOrder` and
`SendersInOrder`. For the two writes of a message: `AudiencesAccepted` (whoever a broadcast is for was accepted
before it began), `HalfWritten` (whose size was written is behind the slot, or has left it) and
`NewcomersTorn`: a client in the audience has a connection that nobody else's number can turn into, so bytes
without a size only ever reach one that was accepted since. A free descriptor for `accept` comes from the pigeonhole theorem of
`FiniteSetTheorems`, the least free slot from the well-foundedness of `<`.

`NonstopServerProofs` (any clients, requests, sizes of buffer, header and send window, and any
order of events): the invariant follows one job. `PutJob`: the file of a PUT that nobody
disturbed holds the units it counts, and a PUT whose answer is left over for a later event has a client that
is gone. `GetJob`: its file is as it was opened and known by no other name (`FileKept`), and
`Sent` relates what was sent to the buffer, the count and the offset of the file. `Sent` has
two cases because a full send buffer makes `handle_get` read over a buffer it has not sent: then the
offset runs ahead of the count for good, and the job can never be closed as complete. `JobKept` is
the frame: a step of another job, or of a client, keeps all this. An empty file that
was deleted may share its inode with a new one, so `FileKept` is claimed for files
that are not empty. `FilesAreFaithful` alone says nothing about jobs that are not finished.

`MemoryProofs`, first part, `Malloc` (any header size, heap limit and requests): `Good(H)` says of a heap that
blocks lie side by side below the break, that `next` and `prev` are the neighbours in
memory, that the free list visits every free block once with `freeprev` leading
back, and that no two neighbours are free. `GoodBut(H, p)` is the heap in the middle of
`free`, when `p` is free and on no list. Each helper has a lemma for the fields it changes and one
for the part of `Good` it keeps; `malloc`, `free` and the merge inside `realloc` are
composed of these. `MemoryIsSafe` alone is not inductive: that a block from the free list is
free, and that merged blocks touch, is what the lists say. `FreeAt` is a recursive
function; that it is the walk along `freenext`, and that the walk ends, is proved without an
induction theorem, by the least place where it would fail and by the pigeonhole theorem.
`ListsAreSound` and `NoOverlap` hold for all requests up to one whose argument of `sbrk` wraps: the model
ends there (`Wrap`). In every other case the sum that `sbrk` gets is header and size, or `sbrk` fails, as
`LimitAssumption` (the heap takes at most half of the addresses) says. `MemoryIsSafe` is proved
under `ProductsFit`, because `calloc` multiplies without looking for overflow: a
product that wraps gives a caller less than it asked for, on intact lists.

`MemoryProofs`, second part, `Mmu` (any processes, pages, frames, TLB size, and any choice of the page that
is swapped out): `PageInv` says that every frame has one use (`RootsApart` for directories and
tables, `PagesApart` for pages, and nothing in use is free), that only frames of tables
have present entries or swap files, that every page holds what was written to it last, and that each
TLB entry is the entry of its page in the tables of the current process. It is stated for
a memory, directories and tables as parameters, because a handler asks the kernel
several times: between two calls a frame is handed out and has no use yet (`Fresh`).
One lemma says what the kernel's answer keeps, one each what a page fault, a new directory, a
new table and a store keep; the actions are composed of these. `PagesKeepTheirData`
alone is not inductive: that a new table's pages hold nothing relies on
swap files being empty for frames that are no table.

`ProgramProofs` has the smaller programs. `Semamore` (any threads, semaphores and scripts):
where the scripts' posts always find room, the number of posts still to come bounds the
value from above, so no post sleeps; hence whoever sleeps is a wait, and the one signal of a
post reaches a wait. Without the first part the one signal could wake a post: the run
`semamore_full` is what happens then. `Resolver` (any hosts, caches, clients and limit of
descriptors): every datagram on its way answers what its receiver asked, so that lost and
repeated ones do no harm; that the static response is the one of the call being answered
needs `ServerHolds`, what the server knows in each of its steps. `ChatClient` (any lines and
messages): `WriterHas` and `ReaderHas` say after how many frames each thread is at which
step, cancelled or not. `ThreadLabs`: `PartsSafe` (the counter never exceeds the number of
threads that have written it, whatever increments are lost, so `thread_part` is
below `num_threads` for whoever reads it before writing) and `TextsPrintedWhole`. `Crackers`:
the rounds of `cracker2`; `Together` says which steps main and the workers can be in at once, as the
two barriers allow, and `HasTried` what a worker that is past a candidate knows about it.
For `HashesAreExact`, `HashInv` relates what each worker has counted to its loop counter, and the
parts of all workers sum to the candidates. `cracker1` (`Cracker1Inv`): the queue is
the lines and the pill that nobody has taken yet, every line taken is counted or is being
hashed by one worker, and main has summed the workers it has joined. The sum of
`par_reduce` (`ReduceInv`): a thread that is done has the sum of its part, the parts tile the list,
and if no two threads took the same part then all parts were taken (`FS_Injection`).

Sums over finite sets and sequences are folds of the library, which are recursive functions.
That adding one element adds its value (`FoldIsSum`, `SumOfMany`, ...) is proved without an induction
theorem, from the smallest number at which it would fail; the proofs about totals,
hashes and lists all cite these lemmas. `PipelineProofs` states the few it needs again: `Queue` and
`Semamore` both have an `Init` and a `Next`, so no module can extend both.

`NonstopClient` (any peer, request, cuts of the answer and local file): `ClientInv` says for
each step of the client what it has sent of its file (`SenderHolds`) and what it has
taken from the answer and written (`ReceiverHolds`), so that an exit status of 0
means what it says. `Scheduler` (any jobs, arrival times, priorities and quantum, all schemes): `SchedInv`
is the types, `PlacesHold` (a job is in the queue, on a core, finished or not yet there,
and its record fits) and `BooksAgree`; `TotalsInv` adds the sums over the finished
jobs. `Editor`: `SearchIsExact`, that the search from a position finds the first place
in the order of the code and none is passed over, for every document.

`PipelineProofs`, second part, `MapReduce` (any number of mappers, any input, any of the four mapper
programs, any size of pipe, with failures): `PortionsTile`, that the splitters' parts are whole lines
and make up the input; `NothingLost`, from `PipesInv`: in which order main forks (`ForkOrder`),
who therefore holds which pipe end (`EndsHeld`), and that a mapper that ended has passed on all
it was sent (`Drained`). `EndsHeld` is the point: the reducer sees the end of its pipe only because
every process closed the ends it inherited. `OutputExact` is both parts of `OutputCountsInput`, for runs whose mapper and reducer can be executed;
that the file is the counts and nothing else is claimed where the older one was not longer. Its
invariant `CountInv` adds `AllCounted`, a balance for every key: what the reducer has stored, what is in its
pipe, and for each part the lines its splitter has not written, those in its pipe and the pairs its mapper has not
written sum to what the mapper makes of all lines of the input. Each step moves one item
from one place of this sum to another; at the end only the store is left. That the balance holds
before the first fork is `PartsTally`: cutting at line ends and splitting each portion into
lines gives the lines of the whole, though empty lines are dropped (`LinesOfPart`, `RunsJoin`), and a mapper's
pairs for lines joined are the pairs for each, joined (`TallyJoin`). `WaitsHold` is what main's waits have
shown when it reports success: a splitter that failed would leave its lines out.

`ShellProofs` (any sessions, any histories a shell can have written, any pids, the handler between any
two steps, in the middle of a change of the list too): `ChildInv` has four parts. `ListTypes` and `Places` say what
each step of a command on the list may rely on whatever the handler does: that the list starts with the shell, how far the
indices go, that a child about to be removed was sent its signal. `CountInv` is the balance: the children
the list should have and has not (`Lost`) are at most `mixed`, the number of times the handler took
an entry away in the middle of a change; where a removal by index may hit a wrong entry, one unit is in hand
because the handler has come between the test and now; and those the killing loop will not meet any more
(`Unseen`) are at most `erased + mixed`. `Exact` is the sharper invariant while `mixed` is zero: different pids, each entry of a
child that was forked, the entry under the index the one tested, every child that is due entered with its
status.
`BackgroundListed` alone is not inductive: it says nothing of the child that is not entered yet, nor
of the index that a removal or the killing loop continues with. `HistoryInv`: the history, with
what the command that runs next will still add to it, is the history before the line and the
expansion of the line; it also says that a history command is never one of the commands that
are still to run, which is why it runs on the history its line was typed at.

Only model-checked: liveness under fairness (all `~>` and termination properties); the parser and the graph
algorithms (`ParsedRight`, `PreparedRight`: `RuleGraph` is recursive, as the code is); `Vector`;
`MiniValgrind`, whose list is a recursive walk through memory that the program may overwrite; the
round trip of `Editor` through a file; reads and writes of `MinixFs`; and the tools (`ToolsMatchReference`), whose algorithms are compared with a
reference for all inputs up to a bound.

## 6. What the models show about the code

Disagreements between the code and its own texts, each with a run that shows it:

* `semamore.c:37`: `semm_wait` signals nobody, so a `semm_post` that blocked at the
  maximum stays blocked after there is room (`semamore_full`).
* `parmake.c:214`: one early failure ends the main loop; rules that nothing
  prevents are never run, against `test_makefiles/testfile7` (`parmake_failure`).
* `utils.c:70`: a write to a closed socket is retried for ever, with the mutex
  held, where the header promises -1 (`chat_write`).

Behaviours no text of the repository rules out, which the models have and the
properties step around, as said in their comments:

* chat: SIGINT between the test of `endSession` and `accept` ends the server only
  after one more connection; a descriptor can be reused while its old slot is
  not cleared, and the new client is then written to twice; a newcomer that gets a closing thread's descriptor
  between the two writes of a message gets bytes without a size, and reads its stream wrongly from then on.
* nonstop: two PUTs of one name mix their data; a PUT that truncates a file under a
  GET, and a full send buffer at the wrong moment, leave the GET in an endless loop; a
  failed PUT leaves its name in the list; a LIST that is taken up again sends
  uninitialized text; an error answer, or the answer to a DELETE, that cannot be written is
  tried again with a freed name, which is freed a second time (`server.c:67`, `server.c:379`).
* malloc: the bytes between the requested and the real size of a reused block
  are lost; `calloc` does not look for overflow, nor does `malloc` when it adds the header
  (`alloc.c:142`): a size near `SIZE_MAX` gets a block that reaches over the break.
* shell: the handler may reap the foreground child first, and the shell then ends with
  "wait failed"; a child reaped before it is listed stays listed; `kill_zombies`
  passes over an entry when the handler removes an earlier one; a `kill` into which the handler comes
  frees and erases the entry of another child, which then lives on unlisted (`shell.c:159`); a history
  command inside a logical line removes an entry that is not its own, pops an empty
  history or recurses without end.

* mmu: a read that misses the TLB prepares the page table through a null pointer
  (`mmu.c:63`) and uses an absent entry without a page fault.
* minixfs: a directory whose blocks are exactly full gets its next entry in a
  block it does not have (`minixfs.c:120`); a write inside a file cuts it off at its end.
* mini valgrind: see section 2; mapreduce: a mapper that cannot be started leaves its
  splitter, and main, waiting when its part does not fit the pipe, and a reducer that cannot be started
  (`mapreduce.c:95`) leaves the mappers and main so (`PipeOverruns`); the output file keeps the tail of a
  longer older one (`mapreduce.c:41`).
* nonstop client: an answer that ends inside the size is taken for one of that
  size (`SizeCut`); an answer without a line keeps the client in its header loop; a
  file that shrinks after its size was sent keeps PUT in its loop.
* chat client: SIGINT before the threads exist cancels threads that do not
  exist (`client.c:181`); a failed `connect` is not the end, although the comment at
  `client.c:50` says so.
* secure_move: `fd < -1` is never true, so a destination that cannot be opened loses
  the text, the source being shredded by then. par_reduce: two threads that lose the
  race on `thread_part` reduce one part twice. rpc: the server polls for a lost answer for
  ever and never closes its sockets.

## 7. Plan

All components with state are modelled. What is left is proof, in this order:

1. `Vector`: distinct living objects, for any capacity and element values.
2. `MinixFs`: `BlocksAreOwnedOnce`, then that a read returns what was written.

## 8. Running it

    tlc -config MCQueue.cfg MCQueue      # and so on for every MC module
    tlapm PipelineProofs.tla             # and so on for every *Proofs module

`PROJECT.json` lists runs, mutants, the map from definitions to source lines,
hazards, findings and theorems.
