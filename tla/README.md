# libsensible: specifications and proofs

TLA+ models of the libraries in this repository, TLC configurations that check
them on small instances, and TLAPS proofs of what matters most for every
instance. Paths of source files below are relative to the repository.

## 1. Inventory

libsensible is a set of small single-threaded C libraries. They share a macro
header and are otherwise used separately: sensible-test keeps vectors of its
own, sensible-args a vector of strings of its own. No library starts a thread,
sends a message or persists anything. What is hard lies elsewhere: linked lists
that are joined and reused, values computed before a state change and used
after it, several buffers that must stay in step, callers that drive a library
through `for` loops, and the operating system (malloc, signals, clocks).

| component | state it keeps | operations |
| --- | --- | --- |
| sensible-arena (`sensible-allocators/sensible-arena`) | `top`, `bottom`, the list of chunks in use (behind the current chunk), the list `fresh_chunks`, a header per chunk | `senarena_new`, `alloc` with `alloc_more`, `clear` with the join of the lists, `free` |
| sensible-test | the record (`actions`, `strs`, `str_starts`), the path and its segment lengths, `depth`, three flags, three counters | group and test start, continue and end behind the loop macros, failing asserts, `sentest_finish` |
| sensible-args | the cursor into argv, the current bag of arguments, the vector of subcommands, the caller's data | `senargs_parse`, with its printing of help |
| sensible-bitvec (`sensible-data-structures/sensible-bitvec`) | block, length in bits, capacity in cells of `CHAR_BIT` bits | new, get, set, push, pop, free |
| sensible-timing, POSIX | locals only; the clocks and the sleeping thread are the system's | `seninstant_now`, `seninstant_subtract`, `sentiming_microsleep` |
| sensible-timing, Windows | locals only; the performance counter is the system's | the same three |
| sensible-macros | none | macros, most of them vendored (hedley) |
| build, CI; tests, benchmarks | none | none of their own |

### How they interact

The arena calls malloc and free and exits when malloc fails. sensible-test is
called back by nobody: its caller is a program of nested loops whose start,
condition and end are calls of the library, and `sentest_finish` reads back what
those calls recorded. sensible-args reads argv once and writes through pointers
the caller gave it; the program in `examples/example.c` then greets whom they
name, or asks for the help. sensible-timing is one of two implementations of the
same interface; on POSIX it is interrupted by signals inside nanosleep.

### What is hard, and what makes each component correct

* **Arena.** Chunks move between two lists in `senarena_clear`, which walks both in
  step and links the shorter in front; `alloc_more` computes a padding from one
  chunk and may use it in another; `free` reads a header before it releases it.
  Correct: allocations that the caller holds never overlap and lie in memory
  that is malloced and not waiting for reuse; every chunk is on exactly one
  list; free gives all of them back; every call ends; allocations are aligned.
* **Test.** All loops share the flags `should_exit_group` and `in_test`; the path
  is one buffer that is cut back and written over; names and messages are
  recorded apart from the actions and matched again by counting; totals are
  computed backwards and consumed forwards; five macros assert through two
  tests of one condition, one of them inverted. Correct: bodies run once; a filter
  selects what its path names; failures are reported under their tests; counts
  and exit code say what happened; buffers are large enough.
* **Args.** Every way through three parsers must move the cursor by the right
  number of elements; subcommands change what names mean. Correct: what is
  stored, and how the call ends, is what argv means; the call ends.
* **Bitvec.** Cells, slots and growth have boundaries at multiples of 8 and at the
  capacity; memory from malloc and realloc holds anything. Correct: it is a
  stack of bits.
* **Timing.** Signals, a remainder to sleep, a borrow in unsigned arithmetic, two
  clocks that drift apart; on Windows a count that is no whole number of
  nanoseconds, milliseconds for microseconds, and 32 bits for 64; on both, integers
  that become doubles and integers again. Correct: a sleep that reports success
  lasted as long as asked and not needlessly longer; a difference of readings is
  exact, or as exact as doubles are; together they measure the sleep.

`PROJECT.json` lists every hazard at its line, with the properties that would
catch it, or why none does yet.

## 2. Modules

| module | models | state and actions |
| --- | --- | --- |
| `Region` | abstract: what an arena promises | blocks owned, regions held; open, allocate, clear, close and give back block by block |
| `Arena` | `sensible-arena.c`, `.h` | the struct's three fields, `ptr` and `capacity` of each header, `heap`; one action per path of a call, one step per iteration of each loop (`JoinStep`, `FreeStep`, `MoreReuse`) |
| `ArenaWidth` | the arithmetic of the arena in machine words | EXTENDS `Arena`; no actions: the tests of the two allocation paths in `uintptr_t` and `intptr_t`, next to those in integers |
| `SenTest` | the calls of `sensible-test.c` made while tests run | the harness's fields by their names, and `bodies`, the caller's loops; one action per call and outcome; `MakeAssertion` is every assertion macro |
| `SenTestReport` | `sentest_finish`: printing, scan, totals, JUnit file | EXTENDS `SenTest`; one step per action of the record that a loop handles; `OpenFails` when the file cannot be opened |
| `SenTestBuffers` | the vectors under `SenTest` in their blocks of memory | data, length and capacity of four vectors; one action per push and pop |
| `SenArgs` | `sensible-args.c` | `parse_state` and the caller's data; one action per branch of `parse_long`, `parse_short`, `parse_noprefix` |
| `SenArgsExample` | `examples/example.c` | EXTENDS `SenArgs`; what main does when `senargs_parse` has returned |
| `BitStack` | abstract: a stack of bits, readable in the middle | |
| `BitVec` | `sensible-bitvec.c`, `.h` | length, capacity, cells; push is one action with room and one with growth |
| `Timing` | `sensible-timing-posix.c` and a program that measures a sleep | the locals, two clocks; the kernel's sleep, signal and wake-up are external actions |
| `TimingWindows` | `sensible-timing-windows.c`, and `sensible-timing.c`, which chooses | EXTENDS `Timing`; the same program with the counter and `Sleep`; `platform` says which one is compiled |
| `Doubles` | the arithmetic of C's `double`, external | rounding to the nearest, and the conversion to an unsigned integer |
| `MC...` | the small instances for TLC | |
| `ArenaProofs`, `SenTestProofs`, `SenTestTotalsProofs`, `SenTestBuffersProofs`, `SenArgsProofs`, `BitVecProofs`, `TimingProofs` | theorems and their proofs | the invariants they rest on; `TimingProofs` is about both platforms, `SenArgsProofs` about the example too |
| `SequenceLemmas` | nothing: facts about sequences, counting and flattening that several proofs use | |

`Arena` implements `Region` and `BitVec` implements `BitStack`, by refinement
mappings at the end of the two modules. `SenTestReport` composes with `SenTest`
by extending it, since `sentest_finish` works on the same struct; `SenArgsExample`
composes a caller with `SenArgs`, and `TimingWindows` both implementations behind
the one interface, in the same way. Both use `Doubles`.
`SenTestBuffers` is a lower level of two parts of `SenTest`: there the path and the
strings are sequences, here they are cells of blocks that move.

Definitions called `Wrong...` are variants of the definition after them, with a
mistake as it could be made in the code. No specification uses them; putting one
in the place of its original makes TLC report the property it is listed with in
`PROJECT.json`, which shows that the property can fail.

Abstractions, beside those named in the modules' heads:

* Arena: addresses are integers of no fixed width, and `ArenaWidth` shows for which
  requests that is what the words compute. `live` follows up to
  `MaxWatched` allocations, every choice of them; the properties are about pairs.
  Chunks other than the followed ones are exact.
* SenTest: strings are sequences of characters, so that substrings and stale ends
  are exact. An assertion has the condition its caller computes; what it compares
  and prints is the reason. Console colours and indentation, times, and XML
  escaping are left out.
* SenArgs: an element of argv is its kind, name, inline value or letters. The
  recursion into subcommands is a loop, because the calls around the innermost
  one return as soon as argv is read. The reallocation to zero bytes may return NULL,
  with which the first push crashes, or a block, with room for some pointers or none
  (`room`), as C allows both. Later pushes do not reallocate; the one that has no room
  left may crash (`PushCrashes`) or go unnoticed (`Subcommand`). `Atoi` is what the
  constant `Numerals` says of elements that start with a number, among them `-5`, an
  option by its prefix. What is assumed of the constants holds of a caller's tables: each argument is known
  by an id of its own, numerals stand for integers, and no bag of arguments leads back
  to itself (`SubcommandsLeadDown`), or `preprocess_and_validate_args`, which follows
  them all, would not end.
* BitVec: what malloc and realloc leave in cells is arbitrary.
* Timing: the kernel wakes a sleeper late by at most `MaxLate`; the raw clock
  strays from the other by at most `Slew` a step. `Sleep` is taken not to end
  before its time.
* Doubles: a `double` is a natural number of the smallest positive one, and
  results are rounded to the nearest, ties to even, as IEEE 754 has it and every
  platform of the two implementations. Negative numbers and overflow do not
  occur. A conversion to an integer that is too small for the result is undefined in
  C: it may yield anything (`ToUnsigned`). `secs * 1e9` and the conversion
  of counts are then computed operation by operation as the code does
  (`Seconds`, `NanosOf`), and how exact they are is derived, not assumed: a product of
  seconds is exact up to 2^62 ns, 146 years, since 1e9 is a multiple of 2^9
  (`TwosInSec`); counts are off by four parts in 2^53.

## 3. Runs

Every run but the violations is exhaustive for its bounds.

| run | question | bounds |
| --- | --- | --- |
| `arena_regions` | are allocations disjoint, inside owned chunks, apart from free memory; is the contract kept; does it hold in words? | 3 chunks, sizes below and above the limit of large requests, alignments 2 and 4, two allocations followed; 256 addresses, with amounts around the room of a chunk, around addresses and around half of 256 |
| `arena_chains` | do the lists own every chunk once, through joins and frees; does every call end? | 5 chunks: the fewest with which the loop of the join goes on, with either list the shorter |
| `sentest_runs` | does the library know where its caller is, and report what happened? | 5 starts and failures, 3 loops inside each other, two names of which one contains the other, every assertion with either condition, no filter and three kinds, a JUnit file that may not open, or breaks anywhere without one |
| `sentest_buffers` | does every push have its room; do path and strings survive growth? | blocks of two cells, texts of 0 and 3 characters: growth by half and by the text |
| `args_parse` | does `senargs_parse` store and return what argv means, and does the example answer to it? | 3 elements out of 18, with a number that looks like an option among them, the example's arguments with two levels of subcommands, shared letters and names, unnamed arguments, `do_not_panic` or not; blocks of no bytes that are NULL, or have room for one or two pointers |
| `bitvec_small` | is the packed vector a stack of bits? | cells of 2 bits, 7 bits, growth 2 to 3 to 4 cells |
| `timing_sleeps` | are sleeps as long as asked and differences exact, and does one measure the other? | a second of 6 ns, a microsecond of 2 and a millisecond of 4, integers of 5 bits, a DWORD of 9 values and doubles of 3 bits, few enough for every kind of rounding and for results out of range; two signals, clocks that drift, wraps of `micros * 1000`, of the DWORD and of the counter; frequencies with whole and with broken nanoseconds per count |

The bounds are small because the interesting cases are: a list that is empty, has
one chunk or is the longer of two; a boundary between cells or seconds; an
element of argv with something before and after it. What holds for all sizes is
the business of the proofs.

`OutcomeDeserved` and `StoredRight` compare the parser with `Reading`, a definition
of what each element of argv is that has no cursor and does no assignments;
`ProgramAnswers` follows that through the example. `FailuresPrinted`,
`ExitCodeTells`, `JUnitTotals` and `JUnitCases` compare the reports with `cases` and
`groups`, kept by the caller of the library from what it claims with its
assertions (`ClaimHolds`), not from what the library decides (`AssertFails`).
`WidthSuffices` compares words with integers in every state the arena reaches.

### Fairness

`CallsReturn`, `ParsingMovesOn` and `ParsingEnds` are the liveness properties. They
assume weak fairness of the code's own steps inside a call and nothing of the
caller: a call on one thread goes on as long as it can. For the arena,
`InCall /\ Code` is what is fair, so an idle caller may stay idle.

### Disagreements with docs, comments and tests

Shown by runs that expect a violation:

* `arena_stale_padding`: allocations are documented as aligned, but a small request
  that gets a new chunk is padded by what the old chunk needed
  (`sensible-arena.c:174` with `:144`).
* `arena_page_alignment`: the same padding may exceed the new chunk if the
  alignment exceeds `SENARENA_DEFAULT_CHUNK_SIZE`; then top is below bottom, which
  `sensible-arena.h:122` says the arena never lets happen.
* `args_dash`: a mere `-` should be ignored and is read for ever
  (`sensible-args.c:248`).
* `args_subcommands`: the vector of subcommands has capacity 0 and stays so; its
  first push reallocates to zero bytes and writes through the result
  (`sensible-args.c:53`).
* `timing_report`: `clock_gettime` fails with -1, the code looks for a result above
  0, so the failure is never printed and an uninitialized instant is returned
  (`sensible-timing-posix.c:35`).

Met while modelling, in the models as the code has them, and not given a run:

* `do_not_panic` ("if set, won't exit", `sensible-args.h:58`) is not looked at when a
  value is missing, a letter that takes a value is in a cluster, or a word is
  unknown: actions `LongNoValue`, `ShortNoValue`, `UnknownSubcommand`, and
  `IsIncomplete` in `OutcomeDeserved`. An unknown long option is then neither
  reported nor skipped, and read for ever (`LongUnknown`); `ParsingMovesOn` names
  this as one of its two exceptions.
* A disabled name (`NULL` or `""`, `sensible-args.h:37`) is equal to what follows a
  mere `--`, which therefore sets a flag that has no name (`Names`).
* An argument "has no short name" when `small` is `'\0'` (`sensible-args.h:39`), but
  an assert wants a letter of every argument with a full name (`Valid`).
* `sentest_assert_eq_internal` "Returns true if equal" (`sensible-test.h:74`), but the
  code returns true when the assertion failed (`sensible-test.c:513`).
* The path starts with a slash, which its comment (`sensible-test.c:81`) does not
  show: `Spell` has it.
* The test of sensible-timing wants a measured sleep to exceed the one asked for.
  It need not, as the two go by different clocks: `MeasuresTheSleep` says by how
  much it may fall short, which is nothing if `Slew` is 0.
* On Windows `Sleep(micros / 1000)` was chosen because the alternative "sometimes
  undersleeps" (`sensible-timing-windows.c:65`); it undersleeps itself by up to a
  millisecond (`SleepsToTheMillisecond`), it loses whole multiples of 2^32, and a value of 2^32 - 1 milliseconds is for
  ever. `sentiming_microsleep` returns no value there (`WindowsWoken`).

## 4. Proofs

All theorems hold for every value of the constants that their modules' named
assumptions allow, and have no further hypothesis but those named here. None has
a bound on chunks, lengths, names, arguments, signals or sizes. Every invariant and
every action property that a passing run checks is proved, and every refinement.

### Arena (`ArenaProofs`)

* Lists: `ArenaTypes`, `ArenaChainsLinked`, `ArenaChainsOwnHeap`,
  `ArenaNoUseAfterFree`, `ArenaNothingLeaked`, and the action property
  `ArenaChunksOnlyFreedByFree`. The inductive invariant is `ChainInv`: types, which
  locals are in use at which `pc`, both lists linked as `oldChain` and `freshChain`
  say, the heap partitioned among them, and the cursors of the join in step. Each is
  needed by the others: a list stays linked through an assignment to `ptr` only
  because its chunks are on no other list and occur once.
* Memory: `ArenaRegionsDisjoint`, `ArenaRegionsInChunks`, `ArenaTopAboveBottom`,
  `ArenaFreeSpaceUnused`, from `RegionInv` on top of `ChainInv`: blocks of malloc are
  apart, and nothing is held while lists are joined or freed. They have the
  hypothesis `AlignmentFits`: a small request with its largest padding fits a default
  chunk. That is exactly what the code does not check; without it
  `arena_page_alignment` is the counterexample.
* Refinement: `ArenaImplementsRegion`, under the same hypothesis. Every step of the
  arena is a step of `Region` or changes nothing `Region` speaks of: a request is
  served from a block or with a new one, reuse and the iterations of the join stutter,
  and each iteration of the free loop gives back one block.
* Words: `ArenaWidthSuffices`. The unsigned test of `senarena_alloc` and the signed
  one of `senarena_alloc_more` decide as the integers do, for every width of a word.
  Hypotheses: `AlignmentFits`, and `WordsSuffice`: blocks start in the lower half of
  the address space, and requests with their alignment are smaller than that half.
  The invariant is that every chunk is (`ChunksSmall`), reused ones too.
* Alignment: `ArenaAlignsIfAgreed`, the other side of the disagreement that
  `arena_stale_padding` shows. The padding computed in the old chunk is right in the
  new one if `AlignmentsAgree`: there is a number that all alignments divide and that
  divides malloc's addresses, the header, the default chunk and every amount, where
  a small amount may also be aligned to that number itself instead. So an arena of one
  type is safe if malloc, header and default chunk are as aligned as the type, and one
  of mixed types if the sizes are multiples of the largest alignment besides. `AlignInv`: chunks start and end at multiples of the number, and so does
  the free space.

### sensible-test (`SenTestProofs`, `SenTestTotalsProofs`)

All invariants of `sentest_runs`, for all names, reasons and filters and any nesting.
The proofs rest on these, which all the later ones use:

* `LoopsInv`: what the flags and `depth` say of the innermost of the caller's loops,
  and that the ones around it are bodies of groups. `SenTestFlagsFollowLoops` is a
  consequence.
* `RecordInv`: the strings start where `str_starts` says, one for each action that
  has one, and end with a NUL. `AccountInv`: what the caller keeps has its types, and
  a failure is recorded if and only if a test has a reason.
* `HistoryInv`: reading the record as pushes and pops (`Stacks`) leaves no pop without
  a push, and leads to the groups open now.

From these:

* `SenTestPathIsWhereWeAre` (`PathInv`: while filtering, the path buffer spells the
  open groups and its lengths allow taking each off again) and
  `SenTestFilterSelects` (`FilterInv`).
* `SenTestExitCodeTells`; `SenTestTypeOK`, with the invariants of the loops of
  `sentest_finish` (`IndexInv`, `BufferInv`, `OutsideInv`, `ScanInv`, `TotalsInv`, `WriteInv`): which
  string belongs to which action, the nesting, how many groups there are, and that the
  stack of totals is as deep as the record is.
* `SenTestFailuresPrinted`: what the caller claimed is what the record tells
  (`FailuresInv`), and that is what is printed (`PrintedFailures`).
* `SenTestJUnitCases`: the same for the test cases (`StoriesInv`) and the document
  (`DocumentInv`, `CasesInv`).
* `SenTestJUnitTotals`, the longest of the proofs. Totals of groups are computed
  backwards over the record with a stack, and written forwards. `OrderInv`, `RunInv`,
  `NumbersInv` and `GroupsInv` show that what the caller counts for a group is the
  difference of two counts of the record, at its start and at its end.
  `TotalledInv` shows that the loop adds up those differences: `current` has the count
  up to the end of the innermost group around the place that is read, and each cell of
  the stack the count from the end of one group to the end of the one around it.
  `SuitesInv` is about writing them.

### Buffers of sensible-test (`SenTestBuffersProofs`)

`BuffersInBlocks`: no push writes outside its block, for texts of any length.
`BuffersStringsStay`: every recorded string is where its start says, though `strs`
moves. `BuffersPathNamesSegments`: the path is the segments pushed and not popped.
`BuffersInv` adds that each recorded string ends before the length of `strs`, so
that what is appended does not touch it, and that the lengths kept are those of
the segments, so that popping takes off what was pushed (`PathIsNamed`).

### sensible-args (`SenArgsProofs`)

All invariants of `args_parse`, for every tree of arguments and command lines of any
length, for `SenArgs` alone and inside the example's program.

* `SenArgsTypeOK` (`TypesInv`) and `SenArgsChoicesLeadHere` (`ChoicesInv`: the
  subcommands taken lead from the root to the current bag, and the bags on the way
  say which was chosen). That a later choice overwrites none of the earlier ones needs
  `SubcommandsLeadDown`: no bag is met twice.
* `SenArgsOutcomeDeserved`: from `ReadInv`: what `Reading` takes the element at the cursor
  for is an option looked up in the current bag, and nothing before it stops the reading.
  The hypothesis is `Valid`, which the code asserts; without it the call aborts.
* `SenArgsStoredRight`: from `StoredInv`: each argument has what the elements before the
  cursor give it.
* `SenArgsProgramAnswers`: `AnswersInv` says what the example has printed.

### Bitvec, timing

* `BitVecProofs`: `BitVecTypes`, `BitVecBitsInBlock`, and `BitVecIsBitStack`: every
  step of the packed vector is one of the stack of bits, under the mapping `Bits`.
  `BlockInv` adds to the types that a block has two cells at least, since growth by
  half gains nothing from one.
* `TimingProofs`, POSIX: `TimingTypes`, `TimingSleeps`, `TimingFailsWhenRefused`,
  `TimingMeasuredExactly`, `TimingMeasuresTheSleep`, for every resolution, width,
  drift and number of signals. `DoublesSuffice` is assumed: there are doubles as large
  as an uint64_t of nanoseconds, and as fine as needed. `TimingInv` says that at each request the time slept
  and the remainder make up the request, that what is handed to nanosleep is always
  valid, and how far the raw clock may have strayed, and time passed, in the steps
  since the first reading.
* `TimingProofs`, both platforms: `SentimingHasPosix`: the program compiled for either
  platform is, on POSIX, the one of `Timing`, and leaves its variables alone on Windows, so
  that the theorems above hold of it. On Windows, `SentimingSleepsToTheMillisecond`, for
  every request, those that wrap or become INFINITE too, and
  `SentimingMeasuredToTheCount`, for every frequency and width of the counter and every
  precision of doubles: `WindowsInv` says what was read of the counter at each step, and
  when the kernel will wake the sleeper.
* Rounding, for both: `NearestClose`, a rounded number is off by at most one part in
  2^53, where 2^53 is the number of significands; `NearestExact`, integers a double can hold are
  not rounded at all. From the second follow `SecondsExact` and with it
  `TimingMeasuredExactly`; from the first `ThreeRoundings`, that three of them in a row,
  of the factor, the counts and their product, come to no more than four parts in 2^53.

### How recursion over data was proved

The library's induction theorems take an operator as a parameter, which the provers
cannot instantiate. `SequenceLemmas` has `SetInduction` instead: a set of numbers that
has 0, and with each number the next, has all. So what a recursive function computes
(`Stacks`, `Reading`, `BagAfter`, the flattening of a sequence of segments) is proved
by the set of the numbers up to which it is right.

### Only model-checked

Liveness: `CallsReturn` and `ParsingMovesOn`, and the violation of `ParsingEnds`. They
need ENABLED, which is out of the prover's reach.

## 5. Not modelled

* sensible-macros, the build, CI: no state, no program logic. Half of all lines
  that count as code are the vendored header of sensible-macros. Tests and
  benchmarks are callers with fixed inputs; the models' callers are more general.
* Failing malloc and realloc outside the arena, failing output streams (but for
  the JUnit file that does not open): the outcome is undefined behaviour, and no
  document says what it should be.
* The text of help and error messages, console output, XML escaping, times,
  overflow of `atoi`.
* Requests to the arena of half the address space or more: `WidthSuffices` stops
  there. Above it the signed test of `senarena_alloc_more` takes a huge amount for a
  negative one. Widths of `size_t` in the bitvec and the vectors.
* Copies of `struct senbitvec` kept by a caller across a push that reallocates: what
  they read is undefined behaviour, which the interface by value invites but no
  document speaks of.

## 6. Plan

Done, in this order: `Arena` with `Region` and its proofs; `SenTest`, `SenTestReport`;
`SenArgs`; `BitVec` with `BitStack` and its refinement proof; `Timing` and its proofs;
`SenTestBuffers` and its proofs; the assertions and the file that does not open in
`SenTest` and `SenTestReport`; `SenArgsExample`; `TimingWindows`; `ArenaWidth`; the
proofs of the refinement and the words of the arena, of `TimingWindows`, `SenTest`,
`SenTestReport`, `SenArgs`, `SenArgsExample` and of the path in its buffer; when
allocations are aligned. Left, most important first:

1. That `SenTestBuffers` implements what `SenTest` takes its path and strings for, as
   a refinement between the two.
2. The safety half of termination, without ENABLED: every iteration of a loop lowers a
   measure (the chunks waiting, the elements of argv left, the actions left).
3. Weaker hypotheses: that `AlignmentsAgree` is needed as well as enough for some
   requests; which requests keep `TopAboveBottom` without `AlignmentFits`.
