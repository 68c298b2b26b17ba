# Specifications of the OpenSBI firmware and its neighbours

The repository is a set of course notes and programs around one large C program:
the OpenSBI firmware in `src/OS_Spring_2026/course_3/opensbi/` (paths below are
relative to it). OpenSBI runs in M-mode on every hart (hardware thread) of a
RISC-V machine and serves the calls of the operating system in S-mode. What is
hard to test in it is of three kinds: harts that run the same code at the same
time and share words that are sometimes locked, sometimes atomic and sometimes
neither; operations that fail, or are interrupted, half-way; and computations on
addresses, ranges, instructions and trees with many corner cases.

This directory holds TLA+ models of those parts, TLC configurations that check
them on small instances, and TLAPS proofs for any number of harts, entries or
values. `PROJECT.json` lists components, runs, hazards and theorems, and maps
every definition to its source lines.

    tlc -workers 2 -config Tlb.cfg MCTlb     # one run
    tlapm IpiProofs.tla                      # one proof module

## The system and its modules

| part | modules | state | what is hard |
|---|---|---|---|
| ticket lock, `riscv_locks.c` | `TicketLock`, `FifoLock` | one word: `owner`, `next` (u16 each) | LR/SC races, wrap-around, order of service |
| ring buffer, `sbi_fifo.c` | `Fifo`, `BoundedQueue` | slots, `tail`, `avail` (u16) | index arithmetic, forced overwrite |
| heap, `sbi_heap.c` | `Heap` | lists of free and used blocks, pool of nodes | splitting, joining, exhaustion of nodes |
| IPIs, `sbi_ipi.c`, and reset, `sbi_system.c` | `Ipi` | `ipi_type` word and interrupt line per hart | the word and the line are two accesses; harts restart |
| hart states, `sbi_hsm.c`, with boot, `sbi_init.c`, and system suspend | `Hsm` | state word, start ticket, `next_addr`, boot lottery, counts, saved CSRs | lost wake-ups, rollback, two starters, stale counts |
| remote fences, `sbi_tlb.c` | `Tlb` | queue and `tlb_sync` counter per hart | merging ranges, full queues, mutual waiting |
| software events, `sbi_sse.c` | `Sse` | state of each event, sorted list, mask and queue per hart | two kinds of lock, priorities, nested handlers |
| ecalls, `sbi_ecall*.c`, `sbi_cppc.c` | `Ecall` | registry, registers of the caller | argument passing, error codes, probing |
| counters, `sbi_pmu.c` | `Pmu` | event ranges, counters, overflow mask | hand-out, overflow interrupt against S-mode |
| debug triggers, `sbi_dbtr.c` | `Dbtr` | table and trigger registers | table against hardware, calls that stop half-way |
| features, `sbi_fwft.c` | `Fwft` | CSR fields, locks, saved copies | locks over suspend, refusals |
| message proxy, `sbi_mpxy.c` | `Mpxy` | channels, shared memory | paging, lengths |
| domains, `sbi_domain.c`, `fdt_domain.c` | `Domain` | regions and harts of each domain | splitting, merging, sorting, sums at the top of memory |
| memory protection, `sbi_hart.c`, `riscv_asm.c` | `Pmp` | PMP entries, Smepmp bits | one CSR write after the other |
| domain switches, `sbi_domain_context.c` | `DomainContext` | contexts per hart and domain | nesting, failing allocation |
| RPMI mailbox, `lib/utils/mailbox/` | `Rpmi` | two rings in shared memory, tokens | late answers, reordering, retries |
| RPMI clients, `lib/utils/{hsm,cppc,suspend,reset,mpxy}/` | `RpmiClients` | channels, heap objects, tables | failures at any point of the boot |
| timer, `sbi_timer.c`, `aclint_mtimer.c`, `andes_plmt.c` | `Timer` | MTIME, MTIMECMP, pending bits | halves of registers, expiry in between |
| console, `sbi_console.c` | `Console` | buffer, lock, early buffer | interleaved and partial output |
| interrupt controllers, `sbi_irqchip.c`, `lib/utils/irqchip/` | `Irqchip` | PLIC, IMSIC and APLIC registers | suspend, restart, delegation |
| traps, `sbi_trap*.c`, `sbi_emulate_csr.c`, `fw_base.S` | `Trap`, `VecLdst` | registers, memory, trap frames | redirection, precise faults, nesting |
| device tree library, `lib/utils/libfdt/` | `Fdt`, `FdtEdit`, `FdtTree`, `FdtCalls`, `FdtOverlay` | a blob of words | offsets that move, space that runs out |
| tree parsing and fixups, `lib/utils/fdt/` | `FdtParse`, `FdtFixup` | the boot tree | address translation, MSI geometry, what to hide |

`SbiDefs` holds the error codes. An `MC` module chooses the instance for TLC:
`MCPrimitives` (lock, ring, heap, IPIs), `MCHsm`, `MCTlb`, `MCSse`, `MCServices`
(ecalls to domain switches in the table), `MCDevices` (mailbox to interrupt
controllers) and `MCTraps` (traps and device trees).

## How the models are read

* **A hart is a sequential program.** `pc[h]` names the next access to shared
  memory that hart `h` makes; everything between two such accesses belongs to one
  action. M-mode runs with interrupts disabled, so a hart takes an interrupt only
  while it is in S-mode.
* **Locks.** `TicketLock` shows that a lock excludes and serves in order. In the
  other modules a critical section under one lock is one step. Where the code
  holds a lock over a call that waits, or changes a word under two different locks
  (SSE), the section is split.
* **Memory is sequentially consistent.** The fences in the code are taken to do
  their work; what a missing fence would allow is not modelled.
* **Devices are external**: a device powers a hart up, raises its interrupt line,
  prints a character, answers late, or refuses.
* **Platform, load, setup, tree.** What a run varies besides the interleaving (a
  platform, what S-mode asks for, a device tree, an instruction) is chosen once,
  from a constant set, so that one run covers several machines.
* **Several parts in one run.** Parts that share no state are checked in one run:
  a variable `part` picks the part a behaviour works on, the others rest in one
  state. The state space is the sum and not the product.
* **Computations** (emulation, libfdt, parsing, fixups, regions) are operators that
  follow the loops of the code; the properties compare them with a reference that
  is written without loops: byte by byte, or on a tree instead of a blob.
* **Words instead of bytes.** A blob is a sequence of words, a character string one
  word; addresses, pages, tokens, tickets and MTIME have a few values and wrap.
* **History variables** (`asked`, `astray`, `stale`, `handlers`, `rp_got`, `con_log`,
  `tm_want`, ...) record what was promised and never guard a step of the code.
* A definition marked `\* Bug:` is a variant of the definition after it with one
  plausible mistake, not part of the specification. Each property is violated by
  such a variant, listed in `PROJECT.json`; a property that is a conjunction has
  one for each of its conjuncts, type invariants aside.

### What the actions stand for

**TicketLock, FifoLock.** `SpinLock` is the `amoadd` that draws a ticket, `SpinReload`
the load in the spin loop, `TryLoadReserved`, `TryStoreConditional`, `TryRetry`,
`TryFail` the LR/SC sequence of `spin_trylock()`, `SpinUnlock` the store of `owner`.
`reserved` holds the harts with a live reservation. `FifoLock` is the promise: a queue
of harts, the first of which may be inside.

**Fifo, BoundedQueue.** `tail` and `avail` with their 16-bit width (`U16`), the slots as
a function. The in-place update takes a callback as a parameter. `BoundedQueue` is the
promise: a sequence of at most `NumEntries` values.

**Heap.** Blocks are records of address and size in list order; `free_nodes` counts the
spare housekeeping nodes. `AllocPadded` and `AllocFront` are the two ways of splitting.
Sizes have the width of `size_t` (`SizeMod`), so rounding one up can wrap to 0.

**Ipi.** `SendOr` and `RawSend` are the atomic OR and the device write of
`sbi_ipi_send()`, `TakeIpi` and `Xchg` the two accesses of `sbi_ipi_process()`.
`SystemReset` sends the halt event. HSM is reduced to the state each hart publishes: harts
stop, are started again at any time, also under a sender (`Start`, then `IpiInit` and
`IpiInitClear`, the two halves of `sbi_ipi_init()`), suspend and resume. `early` records a
hart that was started under a sender.

**Hsm.** The life of a hart: power-on, the lottery in `sbi_init()`, cold boot with
`sbi_domain_startup()`, warm boot, the wait loop with `wfi`, and the calls. A call keeps
its locals in `call[h]`, among them what `sbi_hsm_hart_start()` computed from counts it
read before the target changed them. Four devices are covered: none (start by IPI),
hotplug (RPMI: powers up, refuses a hart that is on), secondary (first start only) and
smu (`ae350.c`).

**Tlb.** `TlbRequest` is the ecall. `InplaceUpdate`, `Enqueue`, `Count`, `FetchOr`,
`RawSend` handle one target, `RoundEnd` retries the targets whose queue was full, and
`Sync` waits. `Dequeue`, `Notify` serve. Addresses are page numbers modulo `XLen`, so
that sums wrap; ranges are whole pages. All seven types of request are covered, those for
guests with VMID. `stale[h][t]` is what `t` has still to flush for the request of `h`, `bent`
the requests that were merged because a sum wrapped. A hart that stops is not started again
here.

**Sse.** A global event is `<<id>>`, the instance of a local one `<<id, hart>>`.
`GetEvent` takes the lock of the event, `Enable` and `Disable` then that of the list.
`InjectEvent`, `InjectEnqueue`, `InjectSend`, `TakeIpi`, `Dequeue`, `SetPending`,
`StorePending` are the way of an injection to another hart; the last two are the load
and the store of `status |= PENDING`. `ProcessPendingEvents` runs on every return to
S-mode.

**Ecall.** One action per call: `EcallHandler` looks the extension up and runs its
handler; `ec_did` records which service was asked for what, and the service answers
anything from `EcAnswers`.

**Pmu.** `CtrCfgMatch`, `CtrStart`, `CtrStop`, `CtrIncrFw` are the calls, `OvfIrq` and the
`Sse...` actions the overflow interrupt with its software event, `SModeIrq` the writes of
S-mode to the interrupt it was delegated. A counter is what it is assigned to, whether it
counts and whether it has overflowed. `misplaced` records the counters that the code handed
out as firmware counters although they are none.

**Dbtr, Fwft, Mpxy.** One action per call and per life-cycle event of the hart. A hang in
M-mode (`dbtr_fault`, like `pmu_fault` in `Pmu`) is a state that only stutters. The client
of `Mpxy` enumerates channels as the extension intends.

**Domain, Pmp, DomainContext.** `AddMemrange` is a driver adding its device's range to the
root domain, `DomainFinalize` the rest of `sbi_domain_finalize()` with the domains of one
device tree, `DomainStartup` the start of the boot harts. In `Pmp` each CSR write is a
step (`PmpWrite`); the operator `EntryGives` is the hardware. In `DomainContext` a switch is
split where other harts can see it: `SwitchMoves` changes the masks, `SwitchEnds` the state.

**Rpmi, RpmiClients.** `ChanXfer` starts a call, `RpStep` is one attempt of its retry
loops, `PucTakes`, `PucAnswers`, `PucDrops` the microcontroller. `RpmiClients` is the boot:
the nodes of `rc_nodes` are handed to their drivers, and every request to the controller
may fail.

**Timer, Console, Irqchip.** `Tick` lets time pass between any two accesses; `TmFirmware`
is the next access of the firmware. `ConStep` prints a character or flushes the buffer.
`IpiSend`, `Sleep`, `Wake`, `PlicSuspend`, `PlicResume` and the initialisations work on the
registers of the controllers.

**Trap, VecLdst.** `TrapEnter` is the assembler entry; `Decode`, `EmulateByte`,
`EmulateAccess`, `EmulateEnd`, `IllegalInsn`, `TrapIrq`, `TrapEcall`, `TrapDouble`,
`TrapOther` the branches of the handler; `FwTrap` a trap the firmware itself takes in the
middle of it. `VecLdst` steps over the elements of a vector access.

**Fdt, FdtEdit, FdtTree, FdtCalls, FdtOverlay.** `Fdt` reads and checks a blob, `FdtEdit`
writes and edits one, `FdtTree` is the same on an abstract tree, `FdtCalls` runs sequences
of calls on both, `FdtOverlay` applies overlays.

**FdtParse, FdtFixup.** `FdtParse` has one action per parser of `fdt_helper.c`; `FdtFixup`
runs the fixups in the order of `generic_final_init()`.

## Runs

| run | instance | states | checks |
|---|---|---|---|
| `primitives` | 3 harts, 4 tickets; ring of 3, 2-bit "u16"; heap of 16 bytes, 5 nodes, 6-bit `size_t`; IPIs of 3 harts that stop, restart and suspend | 41,779 | `MutualExclusion`, refinements `ImplementsFifoLock` and `ImplementsBoundedQueue`, `SpinnerServed`, `HeapSound`, `NoLostIpi`, `IpiTakesEffect` |
| `hsm_start` | 3 harts, 4 platforms, 2 addresses, symmetry | 1,165,425 | `LifecycleSound`, `StartsSound`, `EntersWhereAsked` |
| `hsm_power` | 2 harts, 4 platforms, all services | 26,725 | `LifecycleSound`, `PendingEnds` |
| `hsm_resume_address` | 2 harts, start and suspend | violation | `EntersWhereAsked` |
| `tlb` | 3 harts, queues of 1, 5 loads | 1,957,776 | `TlbInv` |
| `tlb_live` | 3 harts, queues of 1, 2 loads | 138,274 | `RequestReturns` |
| `tlb_full_flush` | 3 harts, two spellings of a full flush | violation | `FlushedOnReturn` |
| `sse` | 2 harts, up to 3 events, 3 setups | 1,354,664 | `ListSound`, `HandlersNest`, `NoEventMissed` |
| `sse_live` | 2 harts, a local event | 167,841 | `QueueIsServed` |
| `services` | see below | 68,662 | one `...Sound` per service, `ServKeeps` |
| `devices` | see below | 102,369 | one `...Sound` per driver, `DriversEnd` |
| `traps` | see below | 54,051 | `EmulationExact`, `TrapHandled`, `FdtExact`, `OvLinked`, `FpExact`, `FxExact`, `EditKeeps` |

A `...Sound` property is the conjunction of what the part promises; each conjunct is a
definition of its own with its own comment. What they say, in short, and but for the cases
listed under "Exceptions" below:

* `HeapSound`: blocks tile the heap, no node is lost, blocks are as asked for.
* `LifecycleSound`: no step of the life cycle finds a state another hart took away, and
  S-mode runs only on STARTED harts with their CSRs in place. `StartsSound`: one cold boot,
  one starter per target. `EntersWhereAsked`: S-mode is entered at the accepted address.
* `TlbInv`: `tlb_sync` counts exactly the outstanding answers, and when a fence returns
  every target has flushed all that was asked for.
* `ListSound`: the list of a hart is the sorted list of its enabled events.
* `PmuSound`: counters and events agree, each event is in a counter that can count it, an
  overflow reaches the software event. `DbtrSound`: the registers are what the table says.
  `FwftSound`: locked features keep their value, a set that succeeds takes effect.
  `MpxySound`: enumeration is complete, identifiers are unique, replies fit.
* `DomSound`: byte by byte, the sanitised regions give no more and no less than the
  ranges asked for, below the top of memory; firmware memory is closed; every hart is in one
  domain and starts where it may execute. `PmpSound`: the entries written give S-mode no
  access that the regions do not, and all they do if the entries suffice; no intermediate
  write of a configuration locks the firmware out, which the writes of a domain switch may.
  `CtxSound`: a hart resumes with the state its domain left behind. `EcSound`: arguments and
  answers go where they belong.
* `ServKeeps`: a call takes no counter in use, loses no overflow, changes nothing when it
  is refused, and the exit from a domain returns to its caller.
* `RpSound`: no message is overwritten or handed to another caller. `RcSound`: whatever
  failed, no allocation is leaked, what is registered has its channel, the HSM device knows
  all harts and up to two pages of suspend types, and the CPPC device the fast channel of
  every hart whose requests succeeded. `TmSound`: the interrupt
  of the last deadline is neither early nor lost, and times read are right. `ConSound`:
  messages come out whole, complete and in order. `IcSound`: the controllers hold what was
  asked over restarts and suspends. `DriversEnd`: every call of a driver ends.
* `EmulationExact`: an emulated instruction does what the hardware would, or faults where
  it should, without effect. `TrapHandled`: every trap ends where the trapped code can be
  resumed, nested traps included.
* `FdtExact`: a blob shows the tree the calls built. `OvLinked`: references of an applied
  overlay lead to the right nodes. `FpExact`, `FxExact`: parsers and fixups against the tree.
  `EditKeeps`: a failed call changes nothing, an overlay keeps what it does not name.

### Why the bounds are enough for the cases that matter

* Lock: with three harts and four tickets both counters wrap while contended. The proof
  covers every size below the ticket range.
* Ring: the capacity (3) is below the range of the counters (4), but tail plus avail
  exceeds it, which is where 16-bit arithmetic would go wrong.
* Heap: the sizes and alignments lead to padded and unpadded splits, exact fits,
  exhaustion of bytes and of nodes, joins on either side, and a size that wraps to 0.
* IPIs: one hart sends, one sends, stops and suspends, the third starts it again and resets
  the machine, which is what a restart under a sender takes. The proof covers all calls of
  all harts.
* Hsm: three harts are two starters and a target, or a starter, a target and a bystander;
  two addresses tell apart whose start won. Suspend involves only the suspending hart and
  one that starts or stops, hence two harts.
* Tlb: three harts and queues of one entry make full queues, retries and mutual waiting
  happen. The seven ranges include containment both ways, overlap, equality, promotion to
  a full flush (limit: two pages) and two address spaces; four more reach or cross the top
  of the address space; five fences are for two guests.
* Sse: two global events on two harts give contention on both kinds of lock; three events
  of two priorities on one hart give three levels of nesting; the queue fills up.
* Services: two programmable counters and one firmware counter run out, and so do three
  triggers; messages are shorter than, as long as and longer than a channel allows;
  addresses have 7 bits, so regions at the top of memory and of all of memory occur; six
  PMP entries are too few for the largest domain under Smepmp; counters are asked for from
  base 0 and base 1; with four context allocations each of them can be the one that fails.
* Devices: three slots and tokens modulo 2 make rings fill up and tokens recur within
  three calls; tables take up to three pages; two digits of base 3 make every half
  overflow, while one hart sets deadlines and a second boots and synchronises MTIME; the
  console buffer is flushed within a message; the seventeen machines of
  `Irqchip` are wired in and out of order, with gaps, and with delegations out of range.
* Traps: words of 8 two-bit bytes, one instruction of each form and operand shape; blobs
  of 28 and 56 words, so that edits fit or not at each place; trees for every parser and
  fixup, well formed or not where the code looks.

Symmetry is used in `hsm_start` only, which has no temporal property. Deadlock is checked
in `services`, `devices` and `sse_live`; in the first two, a part that is done stutters
explicitly. Elsewhere the system may rightly stop: all harts can be stopped or powered
off, S-mode can fall silent, a heap can be full of blocks nobody frees, a computation is
over. In `sse` the check is off for another reason, see "Limits".

### Fairness

* M-mode code of a hart goes on (weak fairness of its steps): interrupts are disabled
  there, and the code is straight-line or a spin loop.
* A raised machine interrupt is taken (strong fairness of `TakeIpi`, `TimerProcess`,
  `ExternalIrq`): S-mode cannot mask it, so it is taken between any two of its calls.
* Waiting for a lock ends (strong fairness of `ConLock` and of the handler steps of
  `Sse`): by `SpinnerServed`, locks are handed on in order.
* Time passes, and in `Irqchip` and `Ipi` a sleeping hart wakes, as the platform does for
  an IPI.
* Nothing is assumed of S-mode, nor of the microcontroller behind the mailbox, nor, in
  `Hsm`, that a suspended hart ever wakes. `RequestReturns` is about the time after S-mode stopped
  making requests: the code has no fairness between senders that compete for a full queue.

## What the checks say about the code

Two runs show a disagreement between the code and its comments.

* `hsm_resume_address`: `sbi_hsm_hart_start()` writes `next_addr` of the target
  before the exchange that finds out whether the target is stopped. If the target is
  suspended, the call fails but the target resumes at the address of the failed call.
* `tlb_full_flush`: a full flush may be written as start 0, size 0.
  `tlb_range_check()` takes it for an empty range at 0, "within" any queued request
  that starts at 0, and drops it. The calling hart returns although the target kept
  its translations.

### Limits

Some properties hold only under an assumption that the code does not enforce. The
assumption is part of the model, so that each can be lifted by one value:

| lifted by | then fails | because |
|---|---|---|
| `Hsm`: platform with device `"hotplug"` and power-on `"all"` | `LifecycleSound` | a refused start takes START_PENDING back after the target left the wait loop (`sbi_hsm.c:365`) |
| `Hsm`: device `"smu"` under `FairSpec` | `PendingEnds` | the device start goes to a hart asleep in `wfi` (`ae350.c:28`) |
| `Hsm`: start and suspend with two addresses | `EntersWhereAsked` | see `hsm_resume_address` |
| `Tlb`: `RequestReturns` without its exception | `RequestReturns` | a target that stops after the mask was read leaves a request nobody serves (`sbi_tlb.c:257`) |
| `Sse`: `moves = "any"` | `NoEventMissed`, `HandlersNest` | the old hart marks a moved event pending (`sbi_sse.c:764`), and writes its state word without the lock of the new hart's list (`sbi_sse.c:700`) |
| `Sse`: moves together with stops | `ListSound` | an event enabled for a stopped hart drops out of its list at restart (`sbi_sse.c:1175`) |
| `Sse`: a global event in `sse_live` | `QueueIsServed` | enabling a pending event on its own hart runs the inject queue under the lock of the event; if the event is queued, the hart waits for itself (`sbi_sse.c:791`). This is the deadlock `sse` does not check for |
| `RpmiClients`: two nodes of one service group with one MPXY id | `RcSound` | the failure exit of the second frees the channel of both |
| `Domain`: a tree with a region of the same extent as an M-only region of the root domain | `DomSound` | regions of equal order and base keep their order, and the tree's comes first (`sbi_domain.c:221`) |
| `Timer`: `TmSerial = FALSE` | `TmSound` | a hart in S-mode that reads the time while a booting hart synchronises MTIME sees it jump |

### Exceptions

Cases that a property names and excepts, because the code does something else there. The
models contain them, and all but one occur in the runs: without the exception TLC finds the
property violated.

Numbers that wrap:

* `HeapSound`: a size within the alignment of the largest `size_t` rounds up to 0
  (`sbi_heap.c:51`); the caller gets the address of a block of no bytes. What `sbi_zalloc()`
  then clears, and the product in `sbi_calloc()`, are not followed.
* `TlbInv`: `start + size` of a range at the top of the address space wraps in
  `tlb_range_check()`; a merge decided by it can drop the last pages (`sbi_tlb.c:274`).
  Equal ranges and full flushes are not excepted.
* `DomSound`: a range whose end is the end of the address space is accepted and not added
  (`DomRangeProtected`, `DomDevicesPrivate`; `sbi_domain.c:669`), a range check there checks
  nothing (`DomRangeCheckExact`; `sbi_domain.c:406`), and a region there becomes one of all
  memory (`DomTreeExact`; `sbi_domain.c:109`). `DomRangeCheckExact` also excepts a domain
  with a region of all memory, for which `1UL << order` is no address.
* `MpxySound`: a channel longer than a page makes the size of the shared memory a number of
  pages that is used as bytes (`sbi_mpxy.c:234`), and the room for identifiers wraps.
* `OvLinked`: an offset in the last four bytes of 32 bits makes the sum in
  `fdt_setprop_inplace_namelen_partial()` wrap (`fdt_wip.c:26`), and a phandle is stored
  outside of its property; the model ends there (`STRAY`).

State left over, or taken from the wrong place:

* `NoLostIpi`, `IpiTakesEffect`: a hart started while a sender from its earlier life has it
  in its mask, if the event is set between the two halves of `sbi_ipi_init()`, which clears
  its interrupt (`sbi_ipi.c:338`). All other restarts are covered.
* `PmuSound`: counters in `misplaced`. The search for a firmware counter returns the bit
  number and not the counter (`sbi_pmu.c:813`), so that with a base other than 0 it hands out
  one that was not asked for; SKIP_MATCH does the same for a caller that names a counter of
  the other kind. A started one is a store outside `fw_counters_data`, after which the model
  goes on or the hart hangs. The T-HEAD device is excepted from `PmuOverflowKept`.
* `DbtrSound`: on a hart restarted with triggers installed `available_trigs` is too high by
  their number (`sbi_dbtr.c:216`), and an install can find no trigger, which the code uses
  all the same (`sbi_dbtr.c:589`, "trigger allocation must succeed").
* `MpxySound`: a hart other than the boot hart that has set no shared memory is served at
  address 0, since only the boot hart's is disabled at boot (`sbi_mpxy.c:95`). On RV64 the
  pair of all ones that disables it is refused (`INVALID_ADDR` has 32 bits, `sbi_mpxy.c:32`).
* `CtxStateOwn` excepts an enter or exit from a domain to itself, which mixes two states;
  `CtxExitReturns` a domain that is entered again while a call of its own is open, whose
  `prev_ctx` is overwritten; `CtxComplete` a hart whose first exit ran out of memory.
* `EcFailsWithZero`: a failing read of a CPPC register or of a firmware counter returns in
  `a1` what was on the stack.
* `RpAnswerIsMine`: an answer to a call that timed out a whole cycle of tokens earlier is
  handed to the new caller (`fdt_mailbox_rpmi_shmem.c:320`). Every such answer also keeps a
  slot of the ring until it is taken. A message with a bad length is tried again until the
  timeout, like one that finds no room.
* `IcSound`, `DriversEnd`: an IPI pending at the IMSIC of a hart that stops is dropped when
  the hart is initialised again; `IcIpiProcessed` does not ask for it while the hart is off.
* `TrapReturnable`: where SPELP is still set from an earlier trap it stays set
  (`sbi_trap.c:183`, `sbi_trap.c:228`). `TrapCsrExact`: TIMEH asks for none of the counter
  enables (`sbi_emulate_csr.c:92`). `TrapEmulationExact`: without vector support in the build
  a vector access is neither emulated nor redirected but tried again.
* `VxCsrsKept`: a whole-register access leaves the number of its own elements in `vl`. At a
  fault `vstart` is 0, and the elements done are done again.

Failures that are not undone, and room that is not there:

* `PmpSound`: `switch_to_next_domain_context()` turns off the entries one after the other
  while MML is set, when M-mode may execute only what an entry gives it; the block around a
  mapped buffer can be so large that the firmware is in it, or all of memory, and then there
  is no entry for it (`PmpFirmwareRuns`, `PmpMapUsable`). A block that holds the firmware does
  not occur in the instance checked, where the only one would be at the top. S-mode is given every access of its
  domain only if the entries suffice and Smepmp has an encoding for the flags (`PmpFits`).
* `RcSound`: if the first name of a suspend type cannot be allocated, `states[-1].name` is
  freed (`fdt_hsm_rpmi.c:309`), and the model ends; a hart whose fast-channel request failed has the address 0
  (`fdt_cppc_rpmi.c:295`); memory ranges that a failed driver added stay in the root domain.
  `RcBootEnds`: a third page of suspend types is asked for for ever (`fdt_hsm_rpmi.c:203`).
* `FpAddressFromRoot`: nodes below a bus with another number of address cells than its
  parent, or with the range needed not the first: only the first range is read, with the
  cells of the bus for both addresses. PLMT and PLICSW without a list of interrupts leave the
  number of harts unset. `FpHartsServed` is silent about an ACLINT whose harts are not
  consecutive, for which the code returns a first one and a number (`fdt_helper.c:1026`).
* `FxHartsHidden`: the 32 bytes added for all harts hold one new `status`
  (`fdt_fixup.c:115`). `FxReservedExact`: a reserved node takes 72 bytes and not the 64 of the
  comment at `fdt_fixup.c:299`, so that 1024 bytes hold fewer regions than there are PMP
  entries; with more regions than entries none is reserved. The model has these numbers
  divided by four, since a blob is a sequence of words.
* `FxDevicesHidden` is about devices behind the domain configuration in the tree: for
  those in front of it the list of devices moves while it is read (`fdt_domain.c:158`).
* `FdtFailureHarmless` does not look at the version of the blob, which a call lowers to 17
  before it fails (`fdt_rw_probe_()`).
* `ConReturns` does not ask that a hart that panicked goes on.

System suspend (`sbi_system.c:165`) checks that the other harts are stopped one after the
other. With three harts, one that was checked can be started again by one that stops before
it is checked itself. Nothing in the repository promises the opposite, so no property does.

## Proofs

All theorems hold for every value of the constants that satisfies the named
assumptions.

| theorem | says | assumes |
|---|---|---|
| `TicketLockProofs!TypeCorrect` | `[]LockTypeOK` | finite set of harts, fewer than tickets |
| `TicketLockProofs!TicketsCorrect` | `[]TicketsOutstanding` | the same |
| `TicketLockProofs!LockIsExclusive` | `[]MutualExclusion` | the same |
| `FifoProofs!RingTyped` | `[]FifoTypeOK` | capacity positive and within u16 |
| `FifoProofs!RingIsAQueue` | `FifoSpec => BoundedQueue's Spec` | the same |
| `IpiProofs!NoIpiIsLost` | `[]NoLostIpi` | `Masks` are sets of harts |
| `FwftProofs!FeaturesSound` | `[]FwftSound` | any supported features, lengths 7 and 16 |
| `FwftProofs!RefusalsHarmless` | `FwftRefusalHarmless` (a conjunct of `ServKeeps`) | the same |

* **Lock.** Mutual exclusion is not inductive. `TicketInv` adds that the tickets in
  use are exactly those from `owner` to `next - 1`, each with one hart
  (`TicketsOutstanding`), that a holder has the ticket being served, and that a live
  reservation still sees a free lock (`ServedAndReserved`). Since there are fewer
  harts than tickets, drawing one more never makes `next` run into `owner`: lemma
  `RoomForOneMore`. `DrawTicket`, `ServeNext` and `SameContenders` are the three things
  a step can do to the tickets.
* **Ring.** The refinement mapping reads the queue off the ring. `SlotsDistinct`,
  `SlotAdvances` and `SlotStays` are the facts of modular arithmetic: slots of different
  positions differ, and a dequeue shifts positions by one.
* **IPIs.** Nothing is assumed of the harts: they stop, start each other and suspend at any
  time. `IpiInv` adds to `NoLostIpi` that a booting hart is in no sender's mask and that its
  `ipi_type` stays empty once initialised, unless it is in `early` (`BootsQuietly`);
  otherwise the invariant could be broken at the moment the hart starts to listen. The steps
  that need care are those that take a hart out of `early`.
* **Features.** `FwftInv` adds that the copies a suspended hart resumes with keep the
  promises, and that no result outlives the hart that got it. `PmlenRounds` says what the
  fallback over the two pointer-mask lengths returns, `SetRounds` the same for any feature.
  The last theorem follows from the same invariant as an action property.

Only model-checked: every liveness property (the prover has no rule for fairness here),
the FIFO order of the lock, and all other modules. `Trap` and the device tree modules
recurse with RECURSIVE operators, which the prover does not take.

## Not modelled

Parts of modelled components:

* **Boot assembly.** Relocation, clearing of BSS and stack set-up in `fw_base.S`; the
  boot lottery and trap entry and exit of the same file are in `Hsm` and `Trap`.
* **Probing of a hart** (`hart_detect_features()`): which CSRs exist is found by reading
  them and trapping. The result is a constant of the models that need it.
* **PMU counter values, snapshots and privilege filters.** `Pmu` is about which counter
  counts which event for whom; the numbers are the hardware's.
* **RPMI at run time.** Hart start, stop and suspend, CPPC reads and writes and system MSI
  transfers are single requests to the mailbox, whose protocol is in `Rpmi`; the packing of
  their payloads is left out, and so are fast channels and the doorbell, which are plain
  stores to device memory.
* **MPXY attribute reads and notification events**, which copy a channel's data to the
  caller's shared memory and leave the firmware as it is.
* **Timer**: Sstc, busy-wait delays, and the time delta of a guest.
* **Console**: formatting of numbers, input, and a device whose `console_puts()` accepts
  nothing for a while: the loops of the code then spin.
* **Interrupt controllers**: several controllers of one kind on one machine.
* **Remote fences**: a start address within a page, and the restart of a hart that stopped
  with requests in its queue.
* **Device trees**: aliases, blobs of versions before 16, names as character strings, and
  the properties that only one serial or GPIO driver reads.
* **SSE**: the registers of the interrupted context, which are copied and not looked at.
* **System reset and suspend**: the list of reset devices with their priorities, and the
  suspend device for tests.
* **Andes AE350**: the sleep-mode registers of its system management unit.
* **Memory order.** All models are sequentially consistent. A missing or too weak fence
  would not be found here.

Whole components:

* **Drivers** (serial, I2C, GPIO, reset, regmap, cache) and **platform code**: sequences of
  register accesses with no state of their own. What they do to the firmware is an external
  action of a model.
* **Scratch space, hart masks, per-domain data**: a bump allocator used at boot, bit sets and
  a table of pointers that is filled once. The models use records, sets and functions.
* **Strings, math and bit operations**: stateless helpers for which a unit test is the right
  tool; the firmware's own unit tests are read as documentation.
* **The RV32IMA emulator and the course programs** outside `opensbi/`: one sequential loop,
  or a page of code without lasting state. No property of theirs takes several steps of
  several actors.
* **Administration scripts**: they act on services that are not part of the repository.
