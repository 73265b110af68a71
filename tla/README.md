# Verification of the SimpleScalar 2.0 simulators

TLA+ models of the simulator suite in `src/`, checked with TLC on small
instances, and theorems about them checked with TLAPS. `PROJECT.json` lists the
runs, maps every definition to the source lines it translates, and lists the
places in the code where a mistake would be hard to see with a test.

## The system

The suite simulates programs for the SimpleScalar (PISA) instruction set. All
simulators are single-threaded C programs; "concurrency" is the simulated
machine's: many instructions in flight at once, kept in linked lists, rings and
counters that the stages of the pipeline change one after the other in every
simulated cycle, and undone in bulk when a misprediction is discovered.

| Part | Source | State | Operations | What is hard |
|---|---|---|---|---|
| Out-of-order core | `sim-outorder.c` | RUU and LSQ rings, create vector and its speculative copy, output chains, ready queue, event queue, RS_link pool | `ruu_commit`, `ruu_release_fu`, `ruu_writeback`, `ruu_recover`, `lsq_refresh`, `ruu_issue`, `ruu_dispatch` | squashed operations leave stale links everywhere; renaming is rolled back; loads and stores are paired by position; priorities and starvation |
| Front end | `sim-outorder.c` | fetch queue, fetch addresses, stall counter, `spec_mode`, `recover_PC` | `ruu_fetch`, the executing half of `ruu_dispatch`, `tracer_recover` | three writers of the fetch address; the queue is rewritten in mid loop |
| Functional units | `resource.c` | busy counters | `res_get`, `res_create_pool` | pools with shared units |
| Speculative state | `sim-outorder.c` | copy-on-write registers, store hash table | `spec_mem_access`, register macros, `tracer_recover` | reads must see the newest version, recovery must drop all |
| Caches and TLBs | `cache.c` | blocks, way lists, hash chains, last hit, bus | `cache_access`, `cache_probe`, `cache_flush`, `cache_flush_addr` | a shortcut that must be forgotten in time; three redundant structures |
| Cache hierarchies | `sim-outorder.c`, `sim-cache.c` | several caches | block access functions | inclusion, writebacks between levels |
| Branch prediction | `bpred.c`, `sim-bpred.c` | counters, histories, BTB, return stack | `bpred_lookup`, `bpred_update`, `bpred_recover` | speculative pops undone by index only |
| Event queue | `eventq.c` | pending and free lists | `eventq_queue_*`, `eventq_execute`, `eventq_remove`, `eventq_service_events` | callbacks change the list being walked |
| Memory | `memory.c` | page table | `mem_access`, `mem_bcopy` and relatives | page boundaries |
| Functional simulators | `sim-fast.c`, `sim-safe.c`, `sim-profile.c` | registers, memory | fetch-execute loop | none of their own |
| Debugger, ranges | `dlite.c`, `range.c` | breakpoint list, `dlite_active`, `dlite_check`, last break reason | set, delete, clear, check, step, continue | two flags must follow the list |
| Symbols | `symbol.c` | tables sorted by address and by name | load, bind address, bind name | symbols that share an address; ends of the binary search |
| Options, statistics, expressions | `options.c`, `stats.c`, `eval.c` | databases | register, lookup, evaluate | text |
| Loader, system calls, tracing, start-up | `loader.c`, `syscall.c`, `ptrace.c`, `main.c`, `misc.c`, `endian.c` | host files | I/O | host dependent |
| Stack distances | `libcheetah/`, `sim-cheetah.c` | stacks, trees | one pass over an address trace | one structure stands for many caches at once |
| Toolchain | `binutils-2.5.2/` | - | - | vendored, not part of the simulator |

They meet in `sim_main()` of `sim-outorder.c`: commit, unit release, writeback,
LSQ refresh, issue, dispatch and fetch run in this order every cycle. Dispatch
executes the instructions (on the right path against the real registers and
memory, behind a misprediction against the speculative copies), asks the
predictor's verdict from the fetch queue, and allocates reservation stations;
issue and commit ask the caches for latencies; writeback discovers
mispredictions and resets the RUU, the speculative state and the fetch unit.

## Modules

| Module | Contents |
|---|---|
| `Ruu` | the out-of-order core |
| `InOrderWindow` | what the RUU and LSQ promise: a window filled and retired in program order |
| `FrontEnd` | fetch, the fetch queue, prediction and redirection |
| `Cache` | one cache or TLB |
| `SetAssociative` | what a cache promises: the contents of perfect LRU, FIFO or random replacement |
| `Hierarchy` | the caches of `sim-cache.c` connected by their block access functions |
| `BPred` | direction predictors, BTB and return address stack |
| `SpecState` | speculative registers and memory |
| `EventQ` | the generic event queue |
| `DLite` | the debugger under the loop of `sim-safe.c` |
| `Symbol` | sorting, sizing and searching the symbol tables |
| `SacLru`, `Dmvl`, `FacLru`, `Cheetah` | libcheetah's set-associative, direct-mapped and fully associative one-pass simulators, and the reference they are compared with |
| `MCRuu`, `MCFrontEnd` | instances of `Ruu` and `FrontEnd` for TLC |
| `MCEndless` | two instances of `Ruu` with endless programs, and fairness; `part` says which of them a behaviour is about |
| `MCTables` | one instance of `Cache` and one of `BPred`, likewise |
| `MCLibrary` | one instance of `EventQ`, `SpecState`, `Cheetah`, `DLite`, `Hierarchy` and `Symbol`: `part` says which of them a behaviour is about, the others stay in their initial states |
| `Rings` | lemmas about circular queues |
| `RuuTypeProofs`, `RuuProofs`, `FrontEndProofs`, `CacheProofs`, `SpecStateProofs`, `DLiteProofs` | theorems |

Conventions. The variable `stage` says which stage of `sim_main()` runs. Each
iteration of a stage's loop is one action, so the model has the intermediate
states of every loop, and no stage is interleaved with another (the code has one
thread). A local variable that survives an iteration is a variable of the model.
A `panic()` is no action: `NoPanic` states that the code's checks never fail.
Names are the code's. An operator marked "Mutant" is no part of a model: it is
a plausible mistake, kept to show that a property would notice it.

### Ruu

| Code | Model |
|---|---|
| `struct RUU_station`, `RUU[]`, `LSQ[]` | `rs`, a function on `Station` (both arrays) |
| `RUU_head/tail/num`, `LSQ_...` | the variables of these names |
| `RS_link` lists with tags | sequences of `[rs, tag, ...]` records; `RSLINK_VALID` compares tags; the free list is the count `rslink_used` |
| `create_vector`, `spec_create_vector`, `use_spec_cv` | the same |
| event times | `wait`, relative to `sim_cycle` |
| `ruu_commit` | `CommitOther`, `CommitMem` |
| `ruu_release_fu` | `ruu_release_fu`, also the end of commit |
| `ruu_writeback` | `WritebackSquashed`, `WritebackEvent`, `WritebackDone`, and for its inner loops `BroadcastSquashed`, `BroadcastWake`, `BroadcastNext` |
| `ruu_recover` and the reset of `spec_mode` | `RecoverOther`, `RecoverMem`, `RecoverDone` |
| `lsq_refresh` | `RefreshStore`, `RefreshLoad`, `RefreshDone` |
| `ruu_issue`, `readyq_enqueue`, `res_get` | `IssueSquashed`, `IssueStore`, `Issue`, `IssueLater`, `IssueDone` |
| `ruu_dispatch`, `ruu_link_idep`, `ruu_install_odep` | `DispatchOther`, `DispatchMem`, `DispatchDone` |

Left open (any answer is allowed): which instruction of `Insts` comes next, whether
it was mispredicted, the cache and TLB latencies, whether the fetch queue is
empty. Values computed by instructions are absent; only addresses of loads and
stores matter to the LSQ. A functional unit class is a sequence of templates.

### FrontEnd

`fetch_data`, its head, tail and count, `fetch_regs_PC`, `fetch_pred_PC`,
`ruu_fetch_issue_delay`, `spec_mode` and `recover_PC` are the code's variables.
`Recover` is `tracer_recover()` with the stall that follows it, `Dispatch` one
iteration of `ruu_dispatch()`, `Fetch` and `FetchMiss` one of `ruu_fetch()`, and
`FetchDone` the end of the cycle. The kind of prediction is chosen in `Init`. A
dynamic predictor may answer anything. The program is a function `Prog` from
addresses to operations and targets; conditional branches and indirect jumps go
either way, `goal` records where the program went. Addresses wrap. A program that
leaves its own text outside speculative mode is excluded.

The RUU is open here: it may stop accepting at any time (`DispatchDone`) and may
complete a mispredicted branch in any later cycle (`Recover`). `arriving`
remembers the address of the last I-cache miss; with caches of its own
(`own_il1`) the fetch unit does not miss twice in a row on one address, since the
block is there when the stall ends; a cache shared with data may have lost it.

### Cache

An address is a block number. A set's blocks, the order of its way list (`rank`)
and its hash chains are separate variables, as in the code, so that they can
disagree. `last_tagset` and `last_blk` are the shortcut. `ready` and `bus_free` are
relative to the current cycle; `Tick` is the caller's clock. The next level is any
latency of a small set. `newer` is a history variable: the blocks whose last write
the next level has not received; `asked`, another, is the last request, which ties every
step of `SetAssociative` to the block that was asked for. `policy` is chosen in `Init`.

A miss that fills an invalid block neither waits for the bus nor takes it, as in the
code. The runs' tags stay below 2^8, where the xor fold of `CACHE_HASH` is the remainder.
Block 0 is left out of the passing runs: see `cache_first_block` below.

### Hierarchy

`ptr` holds the six pointers of `sim-cache.c`, set in `Init` to every combination
`sim_check_options()` accepts: separate, unified at either level, or absent. A cache
is one LRU set (`SetAssociative` is what `Cache` was shown to implement, and sets do
not interact); `Scale` is the ratio of block sizes. `cache_access` follows the code
through misses: victim written to the level below, then the block read from there,
both of which may evict. `DataAccess`, `Fetch` and `Syscall` are the three places of
`sim_main()` that touch caches. `unsaved` is the history of writes memory lacks.

### BPred

Tables are functions, the LRU chain of a BTB set a sequence of its ways, the return
stack an array with `tos`. One specification covers both users: with `when = "now"` a
branch is looked up and updated in one step (`sim-bpred`); otherwise it enters
`inflight` at fetch and is updated at dispatch, writeback or commit, in the order the
core does these things, with recovery in between (`sim-outorder`). The program, the
predictor class and the time of updates are chosen in `Init` from `Setup`.

### SpecState

`regs`, `spec_regs` and `use_spec` are the register files and bit maps; `store_htable`
the buckets of `spec_mem_access`, moved to the front when found; `free` and `allocated`
count bucket entries. `right_regs` and `right_mem` are histories of what the right path
has written, kept apart from the code's state; `want_regs` and `want_mem` of what the path
being executed has, the right path's again once `tracer_recover` has run.

### EventQ

`eventq_pending` is the list, `stack` the callbacks that are running: a callback may
queue, execute and remove events while `eventq_service_events` or `eventq_execute`
waits for it. Writes of a bit, flag or sum are events without a callback.

### DLite

`Execute` is one iteration of the loop of `sim_main()` in `sim-safe.c`: check, prompt
if told so, advance. At the prompt, `dlite_break`, `dlite_dbreak`, `dlite_rbreak`,
`delete_break`, `dlite_clear`, `dlite_step` and `dlite_cont` are actions. `access` and `addr` are
the memory reference the instruction made, if any; `Reported` is what the loop passes to the
break check, which is a read of 0 for an instruction that made none.

### Symbol

`sym_loadsyms` sorts and sizes, `sym_bind_addr` and `sym_bind_name` search. `qsort` may
return any order of symbols that compare equal, so the tables are any sorted ones.

### SacLru, Dmvl, FacLru, Cheetah

Each module has the tree of its C file and, as history, plain caches simulated one
by one. The properties compare what one access adds to the counters with what the
plain caches would have counted. `FacLru` is at node level: splay rotations, weights,
hash chains and the deletion stack. Its two stacks have the `MAX_LINES` entries the code
allocates; an access that needs more is undefined behaviour and ends the simulation
(`Overrun`, `Undefined`). The optimal policies are not modelled.

## Runs

| Run | Configuration | Shows |
|---|---|---|
| `ruu_window` | all programs of 4 instructions over ALU, load, store, dependent and independent branch; RUU 4, LSQ 4, latencies 1 and 3 | speculation, renaming, wakeup, queues and memory order are exact; no panic; `Ruu` implements `InOrderWindow`, so only finished right path instructions retire |
| `ruu_endless` | unbounded programs: loads and branches that test them, RUU 2, tags and sequence numbers wrap at 2; dependent loads and stores, RUU 4, LSQ 2, tags wrap at 3 | mispredictions are always discovered; everything leaves the window |
| `ruu_options` | in-order, no wrong path, bugcompat; multiply, divide, jump, trap | the create vector and the queues stay exact; no panic |
| `frontend` | program of 6 instructions with every kind of operation, queue of 2, all predictors, any I-cache miss | the program executed is the program, and it always advances; the queue is one path |
| `cache_predictor` | a cache with 2 ways, a hash table, 3 blocks, overlapping misses, all policies; a predictor with three programs (conditional branches, jumps sharing a BTB set, calls and returns), three classes, four update times, up to 3 branches in flight | the cache implements its policy, loses no write and is searched rightly; the BTB holds the branches last taken, counters learn, recovery restores the return stack |
| `library` | event queue, speculative state, libcheetah, debugger, sim-cache hierarchy and symbol tables, one per behaviour | 15 properties, each stated in `MCLibrary` |

Six runs show a disagreement between the code and what it says of itself:

| Run | Disagreement |
|---|---|
| `ruu_store_result` | auto-incrementing stores do create a result, which `ruu_issue` panics about |
| `cache_first_block` | the first access to block 0 takes the shortcut with `last_blk == NULL` |
| `frontend_taken` | `-bpred taken` predicts not taken, because fetch passes target 0 |
| `spec_fp` | a wrong path write of one floating point register of a pair makes the other read a stale copy |
| `events_forgotten` | `eventq_service_events` drops what a callback queues at or before the time of the event it runs for, instead of servicing "all events" |
| `faclru_stack` | `faclru.c` allocates too few entries for `p_stack` and `delete_stack`: a trace of `MAX_LINES` lines writes behind the first |

The liveness properties are `SpeculationEnds`, `WindowDrains` and `Advances`; the
refinements `ImplementsWindow` and `ImplementsPolicy`.

### Further observations

Met while translating, visible in the models, and worth a maintainer's look; no
property claims them:

* `readyq_enqueue` (`sim-outorder.c:1918`) does not keep the order its comment gives;
  `-issue:inorder` (3536) looks at the last operation only and may issue out of order.
* A branch whose `correct` flag was computed before an older update changed the BTB
  leaves a target there that is not the last one taken (`bpred.h:150`), when updates
  come late; `BtbTargetLast` is stated for immediate updates.
* A mispredicted return restores the stack top of before its own pop; calls fetched
  between a lookup and its recovery lose their pushes; a misfetch (3678) drops fetched
  returns without repairing the stack at all.
* `-cache:flush` of `sim-outorder` (799) sets a variable nothing reads. `-flush` of
  `sim-cache` flushes the data side only (722-728). `cache_flush` does not count its
  write backs.
* The initial line 1 of `faclru.c` has the time of the first access (444).
* `cont <addr>` of DLite ("continue from specified address", `dlite.c:1187`) is undone by
  the loop's `regs_PC = next_PC`; a data breakpoint covers two bytes. The break check is
  given the "mem access of last inst" (`dlite.h`), which is a read of address 0 for an
  instruction without one (`sim-safe.c:312`): `ReasonTrue` names that exception.
* `LinksConserved` says that no RS_link is lost, not that 4096 of them are enough.

### Bounds

Four instructions fill the RUU, and are enough for a branch, two wrong path
operations in stations that are reused after recovery, and a consumer; a store, a
second store to the same word and a load behind them; and two completions in one
cycle of which the first squashes the second. One register makes every pair of
instructions dependent, the case in which renaming is hardest. `TAG_MOD` and
`SEQ_MOD` are 1000 where they must not matter and 2 or 3 in the endless programs, where
the state space is finite only because they wrap; the code's are 2^32. `MaxInsts`
bounds programs, `Endless` lifts that bound. In `FrontEnd` a queue of two entries has
a head, a tail and a wrap around; the address space has bogus addresses on both
sides of the text.

In `Cache` three blocks compete for the two ways of one set; the second set stays
empty, and `CacheProofs` covers more. `MAX_WAIT` cuts off chains of misses that wait
for one another longer than two fills; one latency for reads and one for writes are
enough, since what a cache holds does not depend on them. `Hierarchy` has four data and two text blocks,
two ways in the data caches and one elsewhere, so that each level evicts what the
other needs. In `BPred` the tables have one or two entries, the BTB two sets of two
ways, the return stack two entries, so that it wraps; two branches in flight suffice
for an update to come between a lookup and an update, three for a recovery between
(with one kind of call).

`SpecState`: one register pair, two hash buckets, three addresses that overlap as
halves of words, at most `MAX_ALLOC` bucket entries. `EventQ`: three events at three
times. `DLite`: `MAX_BREAK` breakpoints at once, counts stop at `MAX_INSN`, above every
range. `Symbol`: `MAX_SYMS` symbols, two names. libcheetah: two levels of sets and
associativity 2 (`SaLine` holds a tag that fills each row), three line sizes; `FacLru`
lets `REUSE` (5 in the code) be 1, so that `delete` reuses its stack early, has four hash
slots, and three setups: five lines that all fit, seven lines in a cache of four of which
three are used again, and eight in a cache of five of which two are. The last two replace
lines, reuse the stack, and reach the traces the stacks are too short for. Nodes are
numbered by their access times and lines by their first access, since neither matters.

### Fairness

`EndlessSpec` of `MCEndless` has weak fairness of the next step only: the main loop always
takes another one. It says nothing of which instructions come or how fast loads are, and no
action needs more: each stage's loop ends by itself.

`FrontEnd!FairSpec` adds strong fairness of `Recover` and `Dispatch`. They stand for
the RUU: it completes every mispredicted branch and always has room again, which
are `SpeculationEnds` and `WindowDrains` of `MCEndless`. Strong, because both are only
possible in their stage of each cycle. `Fetch` needs no fairness.

## Theorems

Proved for every value of the constants that satisfies the modules' named
assumptions (sizes positive, widths positive, instructions and tables of their
types).

`RuuProofs`, from `IInv == Shape /\ SpecInv /\ CountInv /\ EventsOnTime`:

* `TypeCorrect`, `RingsStayConsistent`: the shape of the state and the sanity checks
  of `sim_main()`. `RUU_num >= LSQ_num` follows from `CountInv`: the LSQ has as many
  entries as there are address computations in the RUU.
* `SpeculationExact`: in speculative mode exactly one operation will end it, and
  exactly the younger ones are on the wrong path. `SpecInv` states it of all RUU
  entries, dead ones too: an event may name a dead entry, and writeback must not
  mistake it for the branch. A dead entry was either completed or squashed, so it
  cannot resolve anything; this is what makes the invariant inductive.
* `WrongPathNeverCommits`: an operation that commits is complete, the branch that
  ends speculation is not, so commit never passes it.
* `EventsAlwaysOnTime`: insertion keeps the queue sorted and in the future, writeback
  drains what is due before the clock moves.

`RuuTypeProofs` proves one lemma per action for `Shape`, `RuuProofs` one per action and
conjunct.

`FrontEndProofs`, from `IInv == TypeOK /\ Path /\ Goal /\ Perfect`:

* `QueueIsOnePath`, `ExecutesTheProgram`, `BranchesOnly`, `PerfectIsPerfect`,
  `FrontEndTypes`. `Path` states the queue without remainders (`Behind` of `Rings`), and
  adds that an entry with a control transfer lies in the text: without that the
  target of a redirection would not be an address. `Goal` ties the program's next
  instruction to the first address of that path, or to `recover_PC`.

`CacheProofs`, from `Agree == Shape /\ Unique /\ Hashed /\ Written /\ FastHitSound`:

* `CacheCorrect`: `LookupExact`, `FastHitSound` and `WritesKept` for every geometry, hash
  table size, policy and latency, if the program leaves block 0 alone (with block 0
  `FastHitSound` is false: `cache_first_block`). The properties need each other: the
  search is exact because every block is on the chain of its tag (`Hashed`); a miss
  duplicates no block because the search was exact (`Unique`); removing the victim's
  address from `newer` removes no other dirty block because tags are unique; a fast
  hit marks the right block because the shortcut is sound. The way list has no part in
  it: the proof lets any way be the victim.

`SpecStateProofs`, from `Layers`: where a register's bit is clear its value is the right
path's, where it is set and the register was written, the copy is the newest.

* `RegistersAreNewest` for all registers and any pairing on bits; `RecoveryExact`: memory
  always is, and outside speculative mode every register reads as, what the right path
  alone wrote (`right_mem`, `right_regs`, which nothing on a wrong path touches).

`DLiteProofs`, from `Checked` (the flag is set whenever the list is not empty):

* `BreaksAreNotMissed` for every program and every set of breakpoints.

`TypeOK`, `RingsConsistent`, `EventsOnTime`, `CommitsRightPath`, `PerfectNeverSpeculates` and
`FastHitSound` are left to the theorems: no passing run repeats them.

Only model-checked: the liveness properties (the prover does not handle fairness);
`ImplementsWindow` and `ImplementsPolicy`; the exactness of chains, queues and the
create vector (`WakeupExact`, `QueuesExact`, `CreateVectorPrecise`, `LinksConserved`),
which quantify over sequences of links in every list; `SpecState`'s loads on the wrong path,
`EventQ`,
`BPred`, `Hierarchy`, `Symbol` and libcheetah, whose definitions are recursive or fold
over sequences, so that their theorems would need induction over data.

## Not modelled

* The values instructions compute (`ss.def`'s expressions): scheduling does not depend
  on them. Statistics counters and pipeline traces: written, never read.
* Loader, system calls, start-up, host probing: effects of the host. `options.c`,
  `stats.c`, `eval.c` and the command line of DLite: conversion between text and values,
  whose results the models take as constants or choose in `Init`.
* `memory.c`: pages allocated on first touch and byte copies; `SpecState` takes memory
  as an array.
* The other functional simulators (`sim-fast.c`, `sim-profile.c`): the loop of
  `sim-safe.c` with other counters.
* libcheetah's optimal policies (`ppopt.c`, `sacopt.c`, `facopt.c`), which look ahead in a
  buffered trace and repair their stacks afterwards.
* The hierarchy of `sim-outorder.c`: `Ruu` and `FrontEnd` take any latency from it. Its
  block access functions are those of `sim-cache.c` with latencies added.
* A composition of `FrontEnd` and `Ruu`: each has the other as an open environment
  that allows more than the real one, so the safety properties hold of the whole;
  the product of the two state spaces is out of TLC's reach.
* `lsq_refresh`'s limit of 64 stores with unknown data: out of reach of an instance.
* `binutils-2.5.2`: a vendored toolchain; the default build of the simulators uses
  none of it (`loader.c` can read executables through its BFD library instead of its
  own code). It is more
  than nine tenths of the C code under `src/`, which is why only a small part of all
  lines of the repository is modelled.
