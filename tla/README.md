# A verification project for Standard-Lib

Standard-Lib is a small C runtime for x86-64 Linux that talks to the kernel
directly: an allocator, `printf`, string and number functions, single-key
terminal input, and processes. This directory holds TLA+ models of the parts
that have state and protocols, TLC runs over small instances of them, and proofs
that TLAPS checks for every instance.

Much of what the library does is not what its comments say. The models say what
the *code* does. A property that holds is one of the promises the code does keep
(often weaker than the comment); a comment that the code breaks is either a run
that must end in a violation, or is listed under "Known deviations".

## 1. The system

| Component | Source | State | Operations | What is hard |
|---|---|---|---|---|
| allocator | `lib/src/malloc.c` | page list, current page and block, a byte counter, the list of freed blocks and the page its nodes live on; all global, in pages that the kernel maps | `malloc`, `free`, inside them `insert_fragment`, `remove_fragment` | long sequences of legal calls; an `mmap` that fails in the middle; pointers to pages that are gone; counters at their limits |
| terminal input | `lib/src/io.c` 55-96, `lib/src/termios.c` | the terminal's flags, shared by all processes on it; each call's copy of them | `getc`, `getc_mute` | two system calls around every change of the flags, other processes in between, signals, the end of the input |
| processes and commands | `lib/src/os.c`, `lib/src/proc.c` | the kernel's process table; where each process is in `cmd` | `cmd`, `system`, `fork`, `execve`, `wait4`, `exit`, `kill`, `raise`, `sigaction` | parent and child in any order, pids that are used again, interrupted waits, failed forks and execs |
| strings | `lib/src/str.c`, `util.c` | the two loops of `splitstr` and its array | `findspaces`, `splitstr`, `strcpy`, `strcat`, `strln` | two loops that must agree, ends of strings, memory that was used before |
| numerals | `lib/src/io.c` 128-216, `str.c` 25-100, `util.c` 4-13 | digits written so far | `printint`, `printbyte`, `printhex`, `itos`, `hexstr8`, `hexstr64`, `abs` | zero, the sign, the first digit |
| printf | `lib/src/printf.s`, `printf.c` | the global argument list `ap`; array, buffer and expansions of a call | `printf`, `printf_expand_d` | three passes that must agree, state kept between calls, who frees what, an allocator that it may empty |
| memory primitives | `lib/src/mem.c` | the program break | `memcpy`, `memset`, `memcmp`, `brkto`, `sbrk`, `mmap`, `munmap` | overlapping areas; the order of evaluation in `brkto` |
| output and files | `lib/src/io.c`, `lib/calls.h` | none | `print`, `print2`, `newl`, `input`, `fopen`, `fcreate` | results nobody looks at |
| the rest | `entry.s`, `entry.c`, `args.s`, headers, `build`, `main.c`, `mmap64_decomp.c`, `lib/py/t.py` | none | | |

How they interact. `printf` calls the allocator (array, buffer, one string for
each expansion through `itos` and `hexstr64`) and frees everything again,
strings of its caller included. `system` calls `splitstr`, which calls the
allocator, and then `cmd`. `cmd` calls `fork`, so the heap, whose pages are
mapped `MAP_SHARED`, is shared with the child while the globals that describe it
are not. `getc` and `getc_mute` change flags of a terminal that parent and child
share. Nothing in the library is a thread; all concurrency is between processes
and with the kernel.

What makes each part correct:

- allocator: blocks in use never overlap and lie inside their page; the list of
  freed blocks holds free blocks only; the byte counter never promises more than
  the page has; use counts match the blocks charged to a page; a call that fails
  leaves the page list as it was; `malloc` and `free` are the ones of a textbook.
- terminal input: when all calls are over the terminal is as it was; a waiting
  call gets a key and not a line; line mode comes back.
- processes: `wait4` finds the child; `cmd` leaves no child behind; one process
  at a time runs the program; `cmd` returns.
- strings: tokens are counted, stored inside the array, in order; the program
  that `system` starts gets them as its arguments.
- numerals: what is written is the numeral of the argument.
- printf: the passes agree on the formatters; the buffer is large enough; the
  arguments follow each other; each area is freed once; its blocks on the
  allocator's page do not overlap.

## 2. Modules

```
AbstractHeap  <== refines ==  Heap <- HeapProperties <- HeapInvariant <- HeapRules <- HeapProofs
                                         |                                  |            |
                                     PrintfHeap, ForkedHeap <- ForkedHeapInvariant <- ForkedHeapProofs
                                         |
  PrintfHeapProofs -> PrintfHeapInvariant (and HeapProofs, HeapRules; with INSTANCE Printf, PrintfProofs)
Memory <- Strings <- SystemCommand <- StringsProofs      Process  <- ProcessProofs
Printf <- PrintfProperties <- PrintfProofs               Terminal <- TerminalProofs
                                                         Numerals <- NumeralsProofs
```

The `MC` modules give the constants that a `.cfg` cannot write.

### Heap, HeapProperties, AbstractHeap

`Heap` is `malloc.c`. A call is a sequence of steps, each named after the label
of the C code it starts at: `FirstSetup`, `FindAvailableFragment`,
`NoGoodFragments`, `OpenPage`, `UndoOpenPage`, `LinkPage`, `FixBlockHeader`,
`LargeBro`; `FreeCall`, `LargeFreeBro`, `DropUsage`; `InsertFragment` is shared
by `malloc` (for the rest of a page) and `free`, as in the code. Between two
calls `pc` is "idle" and the client makes any legal call.

| Model | Code |
|---|---|
| `mapped`, `CanMap`, `MapAs`, `Unmap` | `mmap` of any unmapped run of pages, or its failure; `munmap` |
| `page_hdr`, `blocks` | `page_header_s`, `block_header_s` where they lie in memory |
| `first_page_ptr`, `current_page`, `current_block`, `current_page_free_bytes` | the globals of lines 72-86 |
| `first_fragment_list_header`, `free_spaces`, `nodes_taken`, `fragments` | the fragment page, its header, its nodes, and the list from `fragments_list_head` |
| `touched` | no variable of the code: how much of the current page was ever client data, so that a header read there is known to be old data |
| `handle`, `req`, `block`, `next_page_ptr` | arguments and locals of the call in progress |
| `live` | the client's pointers |

The addresses are kept (pages, offsets, the sizes of the three headers), the
contents of blocks are not. What the code reads without having written it is
nondeterministic: the type of a header in old client data is FREE or something
else (STALE). A dereference of an unmapped page ends the run as "segv", one of a
page that is now something else, or of the uninitialised `new`, as "wild".
Subtractions that wrap in the code are integers here, with `AsU64` at the one place
(line 434) where the wrapped value is compared.

What a write may destroy is part of the model. Between two calls a client may write
to any byte of its blocks (`ClientWrites`); if one of these is a byte that the
allocator is going to read (a header of a block in use, of a listed one or of the
current one, the head of a page, a node of a fragment page: `Overwrites`), the run
may end as "clobbered". So does one in which `malloc` itself writes a header past
the end of a page (460, 501) onto a page that is mapped, where the code goes on.
After such a write the sizes, types and links that the code reads are anything, and
the model stops. A property holds of the *code* therefore only where "clobbered" is
shown not to happen: `HeadersIntact`, which the rules below are for, is proved for
clients that keep them (as part of `FaultsExplained`, and of its own for
`ForkedHeap`), and every property of the allocator but the type invariant is stated
for these clients only. Without any one of the rules blocks come to overlap or to
lie behind their page; nothing is claimed then.

`Rules` is the set of rules the client keeps. No doc asks for them; a property
that needs one is a property the library does not have without it:
*keep_last_block* (do not free the newest block), *keep_page_used* (do not free
the last block charged to a page), *spare_header* (do not call `malloc` with
fewer than 24 bytes on the counter).

`HeapProperties` states what holds. `AbstractHeap` is what callers take the
allocator for: a pointer gets an interval of bytes that shares none with an
interval in use, and gives it back. `Heap` implements it with `held` of a pointer
the bytes of its block, header included; all steps inside a call but the one
that hands the block out, or takes it, are stutters.

### ForkedHeap

The allocator on pages that two processes share: `Fork` is `cmd`, whose child
returns into the caller's code when `execve` fails and allocates there while its
parent waits. The pages are `MAP_SHARED`, so `blocks` and `page_hdr` keep what
the child wrote to its parent's pages; the globals, mappings and pointers are the
parent's again when the child ends, at whatever step of a call that is. What the
child leaves on a page is old data for the parent (`TouchedByBoth`). Children come
one after the other, as `cmd` waits; a child's own children are not modelled.

Parent and child do not interleave within `cmd`: the parent is in `wait4` while the
child runs. (Only a handler that interrupts the wait lets both run; no property
covers that, see section 5.) What does interleave is every end of a child with every
step of its calls, and what it leaves on the pages with all that the parent does next.

Four rules come on top of the three, because without them the parent's heap is
gone: fork only while there is no fragment page (its nodes are shared, the list's
head is not: the parent would follow links that its child changed); do not fork
before the current page has a block, which is so after a first `malloc` that mapped
its page and then failed (the child's blocks are carved where the parent's first
one is to be, and the header that the parent finds there moves it into the middle
of the child's data, or past the room its counter promises); and a child frees
nothing that it has from its parent (the parent's count of uses would go down, and
the page away under its blocks); and where there has been a child, a call that fails
is the last one (`StopsOnError`: a `malloc` that fails half way in `OpenPage` can
leave a current block whose type is old data of the child, and the next block's
header would be written behind the page, malloc.c:501). `ForkedHeapInvariant` says what these rules keep,
`ForkedHeapProofs` proves it.

### PrintfHeap, PrintfHeapInvariant, PrintfHeapProofs, MCPrintfHeap

`Printf` with its areas on the pages of `Heap`, next to a block of the program:
both modules unchanged, `Printf` as an instance. Where `printf` calls `malloc` or
`free`, `Ask` starts the call, `Allocator` takes the allocator's steps, and
`Answer` is `printf`'s step, which fails if and only if the allocator's call did.
A formatter with several x makes as many strings before `printf` goes on: `hexes`
counts them, `NextOption` is the loop over the options (printf.c:86), and `Made`
are the strings that the loop has replaced. The client keeps no rules, since
`printf` keeps none.

A string for %s is the program's block, or where it was: `pointer` keeps the address
when the block has been freed. `printf` frees it, and a program that gives one string
to two %s, uses it again or frees it itself frees it a second time: `FreeAgain`. What
`free` finds at the pointer then is the header that is still there, or, if another
block lies over it, whatever its client wrote ("clobbered"). `PrintfHeapInvariant`
says what holds of the first page all the same, until a block is freed twice.

### Terminal, TerminalProofs

Processes that call `getc` and `getc_mute` on one terminal. `TcGets`,
`ResetBits` and `SetBits` are the two ioctls of `termios_reset_bits` and
`termios_set_bits`; between them another process may do anything. `Read` ignores
its result as the code does, and leaves `c` uninitialised at the end of the
input. External, modelled from their use: the line discipline (`partial`,
`ready`: keys of an unfinished line become readable when ICANON changes), the
keyboard (`Key`, `Enter`), `HangUp` and a signal that ends a process (`Die`). The
ioctls of the model do not fail: the code ignores their results, and a failed TCGETS
would write back what was on the stack.

### Process, ProcessProofs

`cmd` over a process table with zombies, orphans and pids that are used again.
`Forked` and `NotForked` are the outcomes of `fork` (after a failed one the
parent waits for a pid of -11, as the code does), `Execve` may fail and return
into the caller's code, `Wait4` fails without a child, `Kill` ends a process or,
if it has a handler, interrupts its `wait4`, because `sigaction` sets no
`SA_RESTART`. A child that runs the caller's code is a full process of the
model: it may itself call `cmd`, exit or be killed. Assumed of the kernel: no
process group has the number 11, so `wait4(-11)` fails.

### Strings, Memory, SystemCommand, StringsProofs

`findspaces` and `splitstr`, one step per iteration; `fresh` tells whether
`malloc` returned memory that was never used, and every `malloc` may fail: without
the array (`NoArray`) the first store faults, a token that got none leaves the error
code in its slot and faults in `memcpy`. For the empty string the code reads
`str[-1]`, which may fault; if what is there is not the separator, a "token" of
undefined length goes to the only slot, the last one (`EmptyEnd`). `strln`, `strcpy`, `strcat` and, in
`Memory`, `memcpy`, `memset`, `memcmp`, `brkto` and `sbrk` are operators on
memories (functions from addresses to bytes) and on the program break; they are
compared with what they should compute, and with what they must leave alone, in the
initial states of the run. `memcpy`, `memset` and `memcmp` are their loops, which run
from the end, and `brkto` takes the order in which its
comparison is evaluated as a parameter. Assumed (`StringsAssumption`): the
separator, the NUL and what lies in memory that was used before are told apart
from the characters of a token, which are any others.

`SystemCommand` is `system`: `splitstr` makes the argument vector, its blocks lie
in memory one behind the other with the allocator's header before each, `execve`
reads them up to a NUL, and the next command comes with everything still
allocated. Without an array `argv[0]` is read through an error code (`NoVector`).

### Numerals, NumeralsProofs

Every function that writes a number, one step per digit, for numbers of `Bits`
bits. `itos` and `printint` share the decimal loop as their texts do; `printhex`
has the flag for leading zeros and the padding on the right. `NumeralsAssumption`
leaves the width open: any multiple of four bits from eight on, 64 in the code.

### Printf, PrintfProperties, PrintfProofs, MCPrintf

`printf` step by step: `CreateStrArray` (first pass), `ExpandFormatter` and
`CountText` (second), `CopyFormatted` and `CopyText` (third), `Write`,
`FreeBros`. The argument list `gp_offset` survives a call as `ap` does. A string
is its length, memory the set of areas that are allocated; `malloc` and `free`
may fail. A bad formatter ends in "panic" (the `ud2`), the sixth argument in
"segv" (`overflow_arg_area` is 0), a failed allocation in "wild" (the clean-up
frees locals that were never set). The copy looks for the NUL of an expansion again
(`LengthsNow`): behind a number that fills its block, to which `itos` writes no NUL,
lies the next block's header or what was written there since, so that its text may
have changed since the second pass, and the copy may write behind the buffer
(`CopyPastBuffer`, "clobbered"). A failed `free` inside the copy calls functions that
do not save the registers the loop lives in: the run goes on as if nothing were, or
ends in "wild". All calls are made at one stack depth, since
the code keeps the frame of the first one.

## 3. Runs

Twelve runs. Deadlock checking is off everywhere, since every one of these
systems may really stop (a crash, the end of the program or of a string, an idle
client with the bounds used up).

| Run | Bounds | Distinct states | Shows |
|---|---|---|---|
| heap_any | page 88, 3 pages, 3 handles, sizes 0, 5, 16, 32, 100, no rules | 526 thousand | type correctness |
| heap_rules | page 192, 5 pages, 3 handles, sizes 8, 24, 72, 130, 330, all rules | 2.2 million | `AbstractHeap` is implemented; a list of one free block, a sound counter, blocks in their pages, exact use counts, linked pages, explained faults and nothing overwritten, huge blocks backed |
| forked_heap | page 192, 3 pages, 3 handles, sizes 24, 104, 120, 150, 2 children, all rules | 605 thousand | blocks stay disjoint in parent and child, nothing is overwritten, their pages stay under them |
| printf_heap | page 512, 4 pages, 2 calls, 6 formats, failing `mmap`, second frees | 1.4 million | one page is safe; an emptied heap is gone |
| terminal_shared | 2 processes, both calls, all starting flags, 2 keys, deaths and hang-up | 359 thousand | bits come back, keys are read, line mode returns (liveness) |
| process_all | 3 pids, exit codes 0 and 7, signals, handlers, failures | 400 thousand | the child is there, nothing is left, one process runs, `cmd` returns (liveness) |
| system_all | 2 commands of up to 6 characters over two letters and the separator, words of 2 bytes, failing `malloc` | 91 thousand | tokens, arguments; `strcat`, `memcpy`, `memset`, `memcmp`, `brkto` |
| numerals_all | 12 bits | 88 thousand | decimal and hexadecimal numerals, and the shape of a negative number |
| printf_formats | 2 calls, all formats of up to 3 characters and longer ones, failures, numbers that fill their blocks | 1.7 million | the passes, the arguments, the memory |
| heap_claim_free | page 192 | violated | malloc.c:333: the list holds a block that is in use |
| terminal_claim_echo | 2 processes | violated | io.c:88: the bits are not what they once were |
| system_claim_end | strings of up to 3 characters | violated | str.c:164: the array is not ended by 0x00 |

### What the allocator's properties mean

Without any rule (`heap_any`) only the types are claimed. The run shows that every
step, fault and full fragment page (four nodes) of the model is reached.

With the three rules (`heap_rules`): what one expects of an allocator, as
`ImplementsAbstract`. Huge blocks are part of it: five pages hold two of them,
of two pages each, or one between pages of small blocks. `UsagesExact` counts a block on
the page in its header, which for a fragment that is used again is not the page it
lies on. `FaultsExplained` leaves two causes for a fault; the first, a failed
`mmap` whose error code stays in `first_fragment_list_header`, occurs in this run,
the second (a full fragment page) does not: before eleven nodes are lost the
counter is below zero, where `MaxDebt` = 0 ends the calls of `malloc` (`heap_any`
has the full page). Its third conjunct, `HeadersIntact`, makes the others mean what
they say. `HugeBacked` excepts the sizes whose header has no room. `SingleFragment`
is the sober form of "list of all memory areas that have been freed": an insertion
into a list of one node drops the old node, so freed memory is lost, but never linked
twice. `FreeBytesSound` and `BlocksInPage` say that the counter, though it is charged
for blocks on other pages too, errs on the safe side. `heap_claim_free` drops
*keep_last_block* and shows that the rule cannot be spared.

`ForkedHeap!UsesCovered` is all that is left of `UsagesExact` after a child: the
blocks it allocated on its parent's page are counted for ever, so that the page is
never unmapped; that is a leak and no danger. `HeadersIntact` is what the seventh rule
is for: without it TLC finds a child of which old data stays on the page, a `malloc`
of the parent that fails in `insert_fragment`, and one that writes header and block
over the page behind.

`FirstPageDisjoint` is about the client that `printf` is: one that frees the
newest block. As long as the heap has one page, nothing comes of that, because
`printf` frees its array last, when nothing else is left behind the program's
block, so that nobody is handed a block that lies where another one does. That holds
until a call leaves a string on the page (`NothingLeft`, each formatter with several
x does): then the array that this call frees is carved again by the next, as a block
of the same place that is still on the list, and handed out twice (`%dxx` and then
`%d%d%d`: without `NothingLeft` the run fails).
It is about one block of the program: with two, a free of the newest one is the case
of `heap_claim_free`. And it ends with the first block that is freed twice (`again`).
`EmptyHeapGone` says what becomes of a heap that `printf` has to itself: the page
that the allocator goes on using is unmapped. It says nothing of the pointers that
are left to it; in the model the next small `malloc` faults. It excepts a page whose
first block was never made because another `mmap` failed. On a second page blocks may
overlap, and then a run ends when a header is overwritten.

### Why the bounds are enough

Pages of 88 to 192 bytes keep all headers at their real sizes; the classes of
sizes are: an error (0), one that is rounded up (5), small, one that fills a
page, one that needs pages of its own (100 of 88, 330 of 192, both with room for
the header). Three handles allow a free between two live blocks. `MaxDebt`
stops calls of `malloc` once the counter is far below zero. `LastPage` bounds the
address space, so `mmap` also fails for want of pages. What holds in `heap_any`,
`heap_rules` and `forked_heap`, and in `system_all`, `numerals_all`,
`printf_formats` and `printf_heap`, is proved for all bounds, so there the runs show only that the
properties can fail, by their mutants. Two children give a page that two
of them have written to. The sizes of `forked_heap` are one of which a page holds
several, two of which it holds one and a rest that is large or small, and a huge
one, so that what would be written past the end of a page has something to hit. Two processes on a
terminal are enough to have one inside the other's two system calls; that two
suffice is not assumed for the safety properties, which are proved for any
number. Three pids give a program, a child and a grandchild, and pids that are
used again. Six characters hold up to three tokens with separators at both ends
and in rows, and with words of two bytes tokens that fill their words and tokens
that do not. Twelve bits give three hexadecimal and four decimal digits; the loops
treat digits alike. Two calls of `printf` are what the kept argument list needs,
and six formatters in one call run out of registers.

### Fairness

`Terminal!FairSpec`: the kernel runs every process that can run (weak fairness of
each process's steps inside a call) and the user types on (weak fairness of
`Key`). Nobody is forced to call, to press Enter, to hang up or to be killed.
`Process!FairSpec`: each process that can run `execve` or `wait4` does, and a
program that `cmd` started ends. That is an assumption about the program; `cmd`
has no time limit and cannot return otherwise. A child whose `execve` failed is
not assumed to end, so `CmdReturns` says nothing while there is one.

## 4. Proofs

TLAPS checks these for every value of the constants that meets the named
assumptions, of which the models' modules state the reasons.

| Module | Theorem | Property |
|---|---|---|
| HeapProofs | TypeCorrect | `TypeOK`, for every client |
| | RulesInvariant | `RInv` |
| | ListOfOne, CounterSound, InsidePages | `SingleFragment`, `FreeBytesSound`, `BlocksInPage` |
| | BlocksDisjoint, ListApart, HugeBlocksBacked, FaultsAreExplained | `DisjointBlocks`, `ListedAreFree`, `HugeBacked`, `FaultsExplained` |
| | Refinement | `ImplementsAbstract` |
| | UsesAreExact, PagesAreLinked | `UsagesExact`, `PagesLinked` |
| ForkedHeapProofs | ForkedInvariant | `FHInv` |
| | ForkedBlocksDisjoint, ForkedListApart, ForkedHugeBacked | `DisjointBlocks`, `ListedAreFree`, `HugeBacked` of `FHSpec` |
| | ForkedHeadersIntact | `HeadersIntact` of `FHSpec` |
| | ForkedUsesCovered | `UsesCovered` |
| TerminalProofs | TypeCorrect, BitsComeBack, AloneReadsKeys | `TypeOK`, `CommonBitsBack`, `ReadsKeys` |
| ProcessProofs | TypeCorrect, WaitHasChild, LeavesNothing, OthersWait | `TypeOK`, `ChildIsThere`, `NothingLeft`, `OneRuns` |
| PrintfProofs | PrintfTotal, PrintfPasses | `TotalOverByNuls`, `PassesAgree` |
| | PrintfArguments | `ArgsInOrder` |
| | PrintfLeaks, PrintfFrees | `NothingLeaked`, `FreesOwnOrStrings` |
| PrintfHeapProofs | EmptiedHeapGone, FirstPageApart | `~again => EmptyHeapGone`, `FirstPageDisjoint` |
| StringsProofs | SplitstrFits, SplitstrTokens | `ArrayFits`, `TokensInOrder` |
| | ArgvReads | `ArgumentsApart` |
| | BytesAreExact, BrkReports | `BytesExact`, `BrkHonest` |
| NumeralsProofs | DecimalWrites, NegativesAreShaped | `DecimalRight`, `NegativeShape` |
| | HexWrites | `HexRight` |

*Heap.* Assumed: pages are a multiple of 8 bytes and hold their header and two
block headers (`PageAssumption`); the debt bound leaves no second wrap of a u64
(`BoundAssumption`); `ClientAssumption`. Any number of pages and handles, any
sizes, any subset of the rules, every failing `mmap`. `IInv` is inductive whatever the
rules, but up to "clobbered" only, and says something of the code to the end of every
run only together with `HeadersIntact`; so `TypeCorrect` is all that is stated of it
alone, and `ListOfOne`, `CounterSound` and `InsidePages` assume `RulesKept`, as the
theorems of the next paragraph do. The counter is compared with the header of the
current block, which `free` and a later `malloc` rewrite through the list, so `IInv` carries
`CounterBound` (the counter is bounded by the room at the current block, and by
the room after it unless the block's type is old data, in which case the block
reaches to the end of the page), `CounterInCall` (a page is only left while the
counter is at least a header's size), `AllInPage` and `HeadersPositive` for every
header in memory, `ListHasOne`, and what holds before the first page. One lemma
per action shows that it keeps `IInv`.

*Heap under rules.* Assumed on top (`RulesKept`): the client keeps the three rules,
and its huge requests leave room for the header (otherwise two huge blocks may
really overlap by up to 24 bytes, malloc.c:518). The invariant `RInv` (module
`HeapRules`) is a picture of the memory in every step of a call:

- `HeadersThere`: every header lies in its page with its data. `Tiled`: the blocks
  that are somebody's (`Taken`: the client's, the list's, and a fragment that `malloc`
  has taken off the list) do not overlap. This is what the rules buy: only a block that
  is carved again leaves a header inside another block, and `keep_last_block` forbids it.
- `CurrentIsLast`: the next block is carved behind all of these; `PagesThere` and
  `NextPageFresh` say so of the pages. Headers that are nobody's any more, or old
  data, may lie behind the current block: a child leaves such. A process without
  children has none (`NoOldData`, proved next to `RInv`), which the faults, the uses
  and the links need.
- `LiveHeaders`, `ListFree`: a block in use is described by its header, a listed one
  is free, and no two pointers share a block. The step inside `free` in which a block
  is FREE and still the client's is the exception (`Dropping`).
- `HugeApart`: huge blocks have their pages to themselves.
- `MallocCalled`, `FreeCalled`: what the steps of a call owe the next one, so that
  `spare_header` is still known where the rest of the page is carved
  (`NoGoodFragments`), and `keep_page_used` where the uses are counted
  (`DropUsage`).

One lemma per action; the lemmas above them (`KeptHeaders`, `KeptLive`, ...) say
which variables a part depends on. `BlocksDisjoint` follows from `Tiled`, with the
arithmetic of addresses on different pages (`Pages`, `PagesHold`); `Refinement`
maps each step to `malloc`, `free` or a stutter and uses `BlocksDisjoint` of the
state after it. No client's write reaches a header of another block, a page's head
or a fragment page: that is `Tiled` and `HugeApart` again (the step `ClientWrites` is
never enabled), and with `NoOldData` and `CurrentFits` no header is written past the
end of a page. Three more invariants rest on `RInv`: `NodesBounded` for the
faults, `UsesCounted` for the uses (with the number of pointers finite), `LinksKept`
for the pages, which must also know that the page being opened is not linked yet.

*Forked heap.* Assumed: `RulesKept` and `ForkAssumption`; for `UsesCovered` also that
the pointers are finitely many. `FHInv` is `IInv` and `RInv` of the process that runs,
and in a child `ParentKept`: the parent's pages are what they were (`ParentPages`);
its blocks have the headers they had, none of them is being freed, and none lies
behind its current block (`ParentBlocks`); its counter promises no more than is
there behind the header of its current block, which the child may only have made
larger (`ParentArena`); and what the child has, and where it goes on, is on pages
of its own or behind that block (`ChildBeyond`). The allocator's steps keep the first
two parts by the lemmas of `HeapProofs`; for each of them a lemma says that it writes
headers only `Beyond`, which leaves the parent's blocks alone (`Undisturbed`), and
that it goes on there (`ChildGoesOn`). When the child ends, at whatever step, the globals
are the parent's again and the headers what the child left: `ParentKept` is then what
`IInv` and `RInv` say (`EndRestores`, `EndInv`). For `UsesCovered` the lemmas that prove
`UsagesExact` are stated with a surplus for each page (`UsesSteady`): a step adds
to the count of a page what it adds to the blocks charged to it, and a child's end
takes blocks away and counts not. `ForkedHeadersIntact` rests on `StaleFails`: a
current block whose type is old data is what a `malloc` left that failed, so that with
`StopsOnError` nobody goes on from it, and the headers that are written lie on their
pages (`WrittenInPage`). The other theorems of `FHSpec` hold to the end of every run
because of it.

*Terminal.* `BitsComeBack` rests on an invariant that names the process that owes
the terminal its bits: if a common bit is off, some process is inside a call from
which it will set it, or is dead. `AloneReadsKeys` adds what the flags are while
the other processes have not come further than reading them.

*Process.* `WaitHasChild` is inductive with types. `LeavesNothing` needs
`ParentsRun` (parents are running processes), `OnlyOwnChild` (a process without
handlers has no child but the one it waits for) and `ExecAlone` (a process before
`execve` has no child): a process without handlers never had them, since they are
inherited at `fork` and taken away only at `execve` and at the end. `OthersWait` is
a count over the same invariant, for finitely many pids: the running processes
that have a parent are mapped one to one to parents that wait.

*Printf.* Any formats, any number of calls, any lengths, with or without failing
`malloc` and `free`. `PInv` is `TypeInv` and three parts that are inductive with it:

- `PassesInv`. The third pass must meet the formatters that the second one met,
  though each finds its own way through the format. `SecondPass(t)` says that t is
  the way of the second pass: the positions it stopped at, each with the total
  that it had there; where one stop is, the format alone tells the next and what it
  adds. The invariant claims that such a t exists (`SecondPassGoesOn` extends it by
  one stop) and that the third pass is at one of its stops, with as many entries used as
  the second pass had made (`Copied`) and, as long as every expansion ends inside its
  block, as many bytes written as it had counted. That gives the use of every entry,
  and the total under that condition. The first pass counts percent signs and the
  second formatters: `BeforeFormatter` shows that a formatter holds one percent sign,
  its first character.
- `ArgsInv`: the place in the argument list is the one behind the newest entry's.
- `MemoryInv`: whose the strings of the entries are (`Strings`), which areas are
  allocated, still in use, and freed or not (`Allocated`, `InUse`, `Freed`).

*printf on the heap.* Any formats, page sizes, programs and failing `mmap`, with a
pointer variable for each area `printf` may ask for and another one for the program
(`PrintfHeapAssumption`). A step of an allocator's call goes on with the same
pointer, fails, gives the block to that pointer or takes it away (`CallMoves`), and
until it returns the pointers in use are what they were. So `PHInv` is a lockstep:
while `printf` waits, the areas it knows of are the blocks in use before the call;
when the call is over, after it; `Answer` brings the two together again. That needs
all of `PInv`, taken from the instance of `PrintfProofs`: an area about to be
allocated must not be in use already, and one about to be freed must be, be no
other than the one `printf` means, and not be one whose free has failed before
(`OwnInv`, `ReportedInv`). This is no property of the code, only what the two
invariants below rest on; it ends with the first block that is freed twice
(`again`), and so do the theorems.

*The uses of the current page.* For every client, of finitely many pointers, until a
block is freed twice or a header overwritten. The
count of uses is exact only for a client that keeps the rules (`UsesCounted`);
without them a header may be overwritten or lost with its page, and its block is
charged to nobody. What is left is `UsesInv`: the current page counts no more uses
than there are blocks in use whose header names it or names no page (`UsesBounded`),
and at least one use unless its first block is still to be made (`UsesSome`). With no
block in use both cannot hold of a page that ever had a block, hence `EmptyHeapGone`.

*The first page.* `FirstPageApart` assumes finitely many pointers and that the array
of a format's entries has room on a page (`ArraysSmall`): on the real page that is
252 percent signs, and `printf` stops at the sixth argument anyway. `MCPrintfHeap`
evaluates it for the formats of the run. The client may free the current block, so
`RInv` does not hold, and the invariant `PageInv` has these parts:

- `PagesInv`, of every state: the first page is the only one for small blocks
  (`OnFirstPage`), or the allocator has gone on to another (`FirstPageLeft`), or it
  was unmapped (`FirstPageLost`). From the last two there is no way back to a heap of
  one page: of a lost page the list keeps a block, and the next `malloc` of a small
  block reads its header and faults.
- `InOrder`, on one page: the blocks in use, the listed one and the one `malloc` has
  taken off the list do not overlap (`Tiled`), none lies behind the current block
  (`CurrentIsLast`), and their headers are what they were made.
- `ListBehind`: when `malloc` looks at the current block, the list does not hold it.
  That is all `InOrder` needs to be kept (`OrderInStep`), since a block is carved over
  the current one only if that is free. It says what `printf` does: it makes no
  string after it has freed one, and when the program's turn comes, the array has
  been freed. If that was the current block, it was the last one in use and the page
  has gone with it (`LastBlockGoes`), or it was not put on the list.
- `ArrayLast`, for which the order of the calls matters: while the array is the
  current block and no formatter is %s, there is a string to come. The strings are
  carved behind the array then, or take a listed block first: one at most, because
  the list has one (`NoString`, `OneString`), and with a single formatter none fits
  (`NoneFits`), for the array, smaller than a string, would have taken it. A %s frees
  the program's block before the array (`StringsFreed`), so that the array is the
  last in use, or the fragment page is missing and nothing is listed any more.
- `AskedFor`, `ArraySmall`, `NoneListedFits`: what the call in progress was asked for.

TLC checked the parts as invariants of formats and page sizes like those of
`printf_heap` before they were proved.

*Strings and system.* Any characters, words and numbers of commands. `SInv` says
that `findspaces` has counted the tokens that end before its position
(`CountInv`, a cardinality: `EndsBeforeGrows` adds one at each end of a token), that
`splitstr` has stored these in the array, in order, and knows where the token it is
in began (`SplitInv`); where `malloc` fails, what was stored before is still there. What a copying loop
leaves in memory is shown for each length by induction (below). For
`ArgumentsApart`, the memory that `execve` reads is a sequence of blocks joined
one behind the other: `JoinsGrow` says that what was joined stays where it is, so
each token lies where its block does, and is read up to the first NUL, which in
fresh memory is in its last word or, if it fills its words, in the header behind it.

*Numerals.* Any width that is a multiple of four, from eight bits on. `NInv` relates
the digits written so far to the magnitude that is left: `DecimalInv` says that the
numeral of the digits written, and what is still below the power of ten of the next,
make up the magnitude; `PrinthexInv`, `FixedInv` and `Hexstr8Inv` that the digits are
those of the part of the argument above the nibble that is next. The smallest
number, whose sign cannot be taken away, is no exception for `printint`, because a
power of two is never ten times a power of ten.

*Recursion and induction.* The library's induction theorems take an operator as a
parameter and cannot be used; `InductionInSet` is induction over a *set* of numbers,
from the least element of its complement (`WFMin`), and serves instead. From it
follows that the functions that the models define by recursion exist and satisfy
their equations (`RecursionExists`), which is what the numerals and the loops of
`Memory` need.

Only model-checked: all liveness, which TLAPS does not reach.

## 5. Not modelled

`realloc`, `memmov`, `hexstr`, `hexstr16`, `hexstr32` and `setup` have no body.
`args.h` stops the compiler (`#error`), and nothing calls `args.s`. Output and
files (`print`, `newl`, `input`, `fopen`, ...) are single system calls whose results
are dropped: there is no state to relate. `vfork`, `getpid` and `signalfd` are
wrappers that nothing in the library calls. `_start` calls `main` and `exit`.
`main.c` is a demonstration, `mmap64_decomp.c` a decompiled function of another
library, kept for reference.

`geterrname` is `abs` and a list of names: there is no state, and with `abs` as it is
the name of a negative code is another error's.

What follows a write over a header of the allocator is not modelled (the runs end in
"clobbered"), nor the message that a failing `free` prints, since `check_free_errors`
compares 64 bits of which `free` returns 32: it may be printed or not.

A parent and a child that run at the same time on one heap are not in `ForkedHeap`:
`cmd` waits unless a handler interrupts it, and a program that calls `fork` itself
and allocates on both sides has no promise left, since both carve the same bytes of the same page. Nor is what the
clean-up of `printf` (printf.s:68) does with the locals it never set: the run ends
there in "wild".

## 6. Known deviations

Found while reading and modelling. Those with a run are marked.

- `util.c` 11: `abs` adds the sign mask that has to be subtracted; `abs(-5)` is 3,
  `printint(-5)` writes "-3" (`NegativeShape` leaves these digits open), and
  `geterrname(-22)` names error 20, against error.c:11, "accept all format for error codes".
- `malloc.c` 434: the unsigned comparison wraps with fewer than 24 bytes left, and
  a block past the end of the page is handed out (327: "long enough").
- `malloc.c` 518, 564: a huge request is mapped without room for its header, and
  only one of its pages is given back.
- `malloc.c` 202-221: the list loses its only node at the next insertion.
- `malloc.c` 66-70: a freed current block is carved again and stays on the list
  (**heap_claim_free**).
- `malloc.c` 557: the last free of any page unmaps the current page
  against 554, "update the page list". A `printf` that is the first user of the heap ends
  that way (`EmptyHeapGone`), and the next allocation faults.
- `malloc.c` 136: a failed `mmap` leaves an error code as fragment page (545: "we
  haven't really done anything at all").
- `malloc.c` 143, 190: a full fragment page counts one free node.
- `termios.c` 10-12: read, change and write are not atomic
  (**terminal_claim_echo**); the bits are set whatever they were before; a process
  killed in `read` leaves them off; a second `getc` that ends turns line mode on
  under the first; at the end of the input `getc` returns an uninitialised char.
- `os.c` 21-22: a child whose `execve` fails runs the caller's code; 26: a handler
  makes `cmd` return an uninitialised status and leave the child; 43: the argument
  vector leaks.
- `str.c` 170: the array of `splitstr` is not ended by 0x00, against 164
  (**system_claim_end**), and its tokens have no NUL: in fresh memory a token that
  fills its words is read on into the next block's header and gets a character too
  many (`ArgumentsApart` allows it). `itos` writes no NUL either (96): in a block that
  was used before, the text behind the number is part of the string, to the end of the
  block and beyond.
- `str.c` 170, 195, 208: failed allocations are not looked for.
- `str.c` 205: an empty string is read at -1, and a token of undefined length may go to
  the slot that should end the array.
- `str.c` 30-31: `hexstr8` writes digits above 9 wrongly. `io.c` 213: `printhex(5)`
  writes "0x50".
- `printf.c` 33: the second call's arguments go on after the first's; 41: the sixth
  faults; 74: the caller's strings are freed; 117: `%%` dies although printf.h:8
  documents it.
- `printf.s` 68: a format without `%` ends in a free of uninitialised locals; 115:
  one byte of garbage is written after the text for every expansion.
- `mem.c` 8: in `brkto` either side of the comparison may be evaluated first.

## 7. Plan

Order of the work, most important behaviour first. All of it is done.

1. `Heap` with its properties, `IInv` and its proofs.
2. `Terminal`: interleavings on shared flags, proofs for any number of processes.
3. `Process`: `cmd` against the process table, proofs for any number of pids.
4. `Strings`: the two loops of `splitstr`.
5. `Numerals`.
6. `Printf`: the three passes over an abstract memory.
7. `AbstractHeap`: `Heap` under the three rules implements it.
8. `PrintfHeap`: `Printf` with its areas on the pages of `Heap`.
9. `ForkedHeap`: a child on its parent's pages.
10. `SystemCommand`: `splitstr` and the argument vector together.
11. `Memory`: copies, and `brkto` with both orders of evaluation.
12. Proofs: the properties of `heap_rules` for every page size, `OneRuns`, the
    refinement in 7.
13. Proofs: all properties of `Printf`, `Strings`, `SystemCommand`, `Memory` and
    `Numerals`.
14. Proofs: the lockstep of `printf` and the allocator (`PHInv`).
15. Proofs: `RInv` of a process and its children, and what follows for `ForkedHeap`.
16. Proofs: `UsesInv`, and what follows for a heap that is emptied.
17. Proofs: `PageInv`, and what follows for `printf` on the first page.
18. Writes over the allocator's headers (`ClientWrites`, `WritePast`), and the proofs
    that clients who keep the rules never see one; failing allocations in `splitstr`;
    numbers without a NUL in the copy of `printf`; blocks that are freed twice.
