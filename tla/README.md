# A TLA+ verification of riscv_em

riscv_em is an emulator of a RISC-V machine (RV32IMA or RV64IMA with machine, supervisor
and user mode, PMP, an Sv32 MMU, a CLINT, a PLIC and a UART) that boots Linux. This
directory holds TLA+ models of its components, TLC configurations that check them on small
instances, and TLAPS proofs. `PROJECT.json` maps every definition to the lines it models
(`src/...` below is relative to the repository, so the emulator's code is in `src/src`).

Contents: [the system](#1-the-system-inventory), [plan](#2-plan), [modules](#3-the-modules),
[runs](#4-the-runs), [proofs](#5-the-proofs), [limits](#6-what-is-not-covered).

## 1. The system: inventory

One emulation thread runs `rv_soc_run` (`src/src/soc/riscv_example_soc.c`). A cycle is

    rv_core_run            one instruction: fetch, decode, execute, advance pc
    simple_uart_update     flush TX, compute the UART's interrupt level
    plic_update_pending    id 10 follows that level
    plic_update            choose an interrupt, compute the line mei
    clint_update           mtime + 1, compute the lines mti and msi
    rv_core_process_interrupts(mei, mti, msi)

A second thread (`uart_rx_thread` in `main.c`, not in debug builds) reads the terminal and
puts characters into the UART, under the UART's mutex. Nothing is persisted.

| component | state | operations | made correct by |
|---|---|---|---|
| trap unit (`trap.c`) | status, ie, ip shared by the three levels; edeleg, ideleg, tvec, epc, cause, tval per level | set pending bits, delegate, serve, restore | nested traps keep each other's saved context; interrupts only when enabled; exceptions exact and atomic |
| CSR file (`csr.c`, CSR instructions of `core.c`) | 4096 cells or callbacks, access flags, masks | CSRRW/S/C and immediate forms | views change only what they show; illegal access traps |
| core (`core.c`) | x registers, pc, privilege, pending synchronous trap, LR reservation | one function per instruction; run; process interrupts | control flow and traps as specified; arithmetic equal to the ISA |
| PMP (`pmp.c`) | 16 configuration bytes, 16 addresses | two CSR writes, the check of an access | locked regions frozen; the check means what the regions say |
| MMU (`mmu.c`) | satp | two-level walk | permission bits respected, faults reported |
| PLIC (`plic.c`) | priorities, pending, enable, claimed bits, threshold, claim register | bus access, update | highest priority first, one claim per source, no lost source |
| CLINT (`clint.c`) | mtime, mtimecmp, msip | bus access, update | line equals mtime >= mtimecmp |
| ring buffer (`fifo.c`) | two free-running counters, buffer | in, out, reset | a bounded queue for one reader and one writer |
| simple UART (`simple_uart.c`), 8250 UART (`uart_8250.c`) | RX and TX buffers, enable bits, interrupt state, mutex | bus access, update, add RX character | no byte lost but on overrun; interrupts eventually |
| SoC (`riscv_example_soc.c`) | table of devices | bus decoder, the loop | every access reaches one device |
| `main.c`, `file_helper.c` | none | options, loading, terminal | - |

Interactions: an instruction reaches a device through mmu -> PMP check -> bus decoder -> bus
access callback; a refused access calls back into the core (`prepare_sync_trap`); devices
talk to the core only through the three lines at the end of the cycle.

What is hard here: an exception and an interrupt in one cycle; several faults of one
instruction; nested traps over shared, aliased registers; pending bits that go stale while
disabled; claim/complete against reconfiguration and level-triggered devices; lock-free
counters that wrap; lock rules of PMP that span two entries; unsigned arithmetic at the edge of
the address space; a page walk that ignores refused reads; atomics of which one half faults;
a second thread between the steps of an interrupt handler; a 64-bit deadline written in pieces;
interrupts that could keep each other out. `PROJECT.json` lists these hazards line by line.

## 2. Plan

Done, in this order: `Trap` (the heart of the emulator: everything a guest kernel relies on),
`Plic`, `Fifo` over `BoundedQueue`, `Pmp`; then `SimpleUart` and `Clint` and their composition with
`Plic` in `Soc`; `Uart8250`; `Mmu` and `Memory`; `MulDiv`.

Composition: `Soc` extends `SimpleUart` and `Clint` and instantiates `Plic`; `SimpleUart` uses FIFOs
as the queues that `Fifo` is proved to implement; `Memory` extends `Mmu` and takes the PMP as the set
of accesses it grants. `SocProofs` instantiates `PlicProofs`: the SoC is shown to implement `Plic`, and
so inherits its theorems.

Every invariant and every action property that a passing run checks is proved. For three of
the five violated properties a theorem says where they do hold. Left: what the three liveness properties
need besides fairness (ranking arguments as invariants).

## 3. The modules

A definition `X_Word` right before `X` is a faulty variant of `X` (a dropped guard, an
off-by-one); no specification uses it. Replacing `X` by it makes TLC refute the property
that is listed with it under "mutants" in `PROJECT.json`.

**Trap.** Registers are sets of bit numbers. `reg` has one component per *storage* cell;
`RegOf` is the aliasing that `trap_init` sets up, `Mask` the masks of `csr.h`, `ReadGranted` and
`WriteGranted` the access flags. A cycle has two steps. In phase "run" one instruction:
`Plain`, `Jump`, `Fault` (any fetch, load, store or AMO that faults, with up to two faults),
`ECALL`, `CsrAccess` (CSRRW, CSRRS, CSRRC over the bit registers, with and without x0),
`WriteTvec`, `WriteEpc`, `MRET`, `SRET`. In phase "irq" `ProcessInterrupts`: the pending bits
follow the lines (`SetPendingBits`), then `ServeSyncTrap`, or `ServeInterrupt` for the highest
pending number, or nothing. `NullDereference` is the process's end when MPP held the reserved
level. History variables: `exec` (address and first fault of the instruction), `taken` (the last
trap), `frame[x]` (the context that level x's handler interrupted, live until it returns or the
guest overwrites what was saved). Build modelled: the default one, RV32.

**Plic.** Bit arrays are sets of ids. Phase "bus" is the instruction with at most one register
access (`WritePriority`, `WriteThreshold`, `WriteEnable`, `WritePending`, `Claim`, `Complete`,
`NoAccess`), phase "update" is `plic_update_pending` and `plic_update`. `Count` is the running
`irq_id_count` with its flaw (it does not advance over skipped words). `inService` is history:
what software was handed and has not completed.

**Fifo**, **BoundedQueue.** `fifo_in` and `fifo_out` are split where another thread can
look: read the counters (`StartIn`, `StartOut`), copy (`CopyIn`, `CopyOut`), advance
(`CommitIn`, `CommitOut`). Counters are modulo `CounterMod` (2^32 in the code). BoundedQueue is
the promise: a put takes the prefix that fits at the moment it begins, a get the bytes present at
the moment it begins, both take effect at their end. The refinement maps the queue to the
slots between `out` and `in`. The emulator's callers hold a mutex and so use less than what is
shown; memory is sequentially consistent in the model.

**Pmp.** One configuration record per entry, addresses modulo `XlenMod`. `WriteCfg` and
`WriteAddr` are the CSR callbacks, `pmp_mem_check` the check, `Granted` (a property's helper) the
byte-by-byte definition it is compared with when some entry is active; what no active entry means is
`InactiveGrantsAll`, which states the comment at `pmp.c:211` and fails. `NextIsLockedTor` contains the out-of-range
look at the byte behind the last entry.

**SimpleUart**, **Clint**, **Soc.** A cycle of `Soc` has two steps, like `Plic`'s: in phase "bus" one
guest instruction with at most one device access, in phase "update" the rest of the loop's body
(`Devices`: UART, then PLIC, CLINT, then the interrupt is taken). `RxThread` comes between any two
steps; it cannot be seen inside a step because every UART function holds the mutex and nothing else
looks at the UART. The guest is external: it boots (PLIC priority and enable bit, UART enable bit),
runs with interrupts on, and has one handler per interrupt: the external one claims, looks at the
status register, receives or transmits, and completes; the timer's writes the new deadline as a
32-bit hart must (low word to its maximum, high word, low word); the software interrupt's clears
`msip`. `mode` stands for pc and MIE: interrupts are taken in "main" only. Characters are numbered in
the order they are typed or written, so that loss, repetition and reordering show. History: `dropped`
(typed while the buffer was full), `got`, `deadlines` (the one in force and the one being written).

**Uart8250.** The same two phases and the RX thread, without the PLIC in between (the handler starts
when `uart_update` returns 1). `WriteThr`, `WriteIer`, `WriteFcr`, `WriteLcr`, `ReadRbr`, `ReadIir`,
`ReadLsr` are the cases of `uart_bus_access` that change state, `NoEffect` the others. Received
characters are counted; a transmitted one is "now" (newline, or FIFOs off) or "later". The guest's main
program may access every register in any order, polls of LSR, IIR and the receive buffer included; its
handler reads IIR and then characters while LSR shows one. History: `unseen` (a character has come since LSR
was last read).

**Mmu**, **Memory.** Sv32 with tables of `Entries` words instead of 1024: a virtual address is
<<vpn1, vpn0, offset>>, a physical one <<frame, offset>>, and a word of memory is the page-table entry
it reads as. `Walk` is the loop of `mmu_virt_to_phys` with its ignored read results (`ReadPte` keeps the
old entry when the PMP refuses), `FinishLeaf` steps 5 to 8. `BusAccess` is `mmu_checked_bus_access`
around it and `pmp_checked_bus_access` behind it, with the first cause reported. `Fetch`, `Load`,
`Store`, `LR`, `SC`, `AMO` are the instructions; `ServeTrap`, `Return`, `WriteStatus`, `WriteSatp` and
`WritePmp` are what changes privilege and rights in between (in full in `Trap` and `Pmp`). Page tables
lie in the memory that stores change, and one of the images maps its own second-level table.
The PMP may be set to anything, also to write-only regions, which `pmp.c` accepts and its unit tests use.
A supervisor's write of mstatus keeps MPRV and MPP or, with rd = x0, clears them. The helpers of the walk's
specification follow the bus for where an entry is read (`EntryAt`) and do not cut the address it maps to
(`Target`); `OnBus` cuts it as the code does, `Narrow` says that there is nothing to cut.

**MulDiv.** Operators only. `h` is the number of values of half a register (2^16 or 2^32), so both
copies of the wide products are covered; registers are unsigned, `Signed` reads them as signed.

**MCTrap**, **MCPmp**, **MCMemory** give the constants that a `.cfg` cannot write. The other runs use
their component's module directly.

## 4. The runs

| run | instance | shows |
|---|---|---|
| `trap` | 8 addresses, one jump target, two fault causes (one delegated), lines mei and mti, ten CSR instructions; 970 k states, about 65 s | all invariants and action properties of Trap |
| `trap_views` | same | *violation*: `csrw sstatus` with rd = x0 clears bits the view hides |
| `trap_seip` | lines low | *violation*: software-written SEIP is overwritten, not OR-ed |
| `plic` | ids 1, 10 (wired), 12; priorities 0, 2 and 9 (9 is cut to 1); thresholds 0 and 2; 145 k states | invariants, exclusive claims and, under fairness, `DeviceServed` |
| `plic_word` | ids 10 and 37 | *violation*: id 37 is offered as 5 when word 0 is skipped |
| `fifo` | size 4, counters modulo 8, batches up to 3; 280 k states | reservations and the refinement |
| `pmp` | 4 entries in 2 registers, 10-bit addresses, 3 configuration bytes, 2 addresses; 32 k states | with an entry active the check is byte-wise; locks hold |
| `pmp_inactive` | same | *violation*: with all entries off, accesses below machine mode are refused, the comment says granted |
| `soc` | words of 3 values (deadlines of 9), UART buffer of 1 byte as in the code, 3 key presses, 2 characters written; 306 k states, about 50 s | output complete, input accounted for and read in order, timer exact, handlers justified, the claim held from read to completion; under fairness `InputServed` |
| `uart8250` | FIFOs of 3, receive levels 1 and 3; 49 k states | output prompt; `InputServed` under fairness; the transmit interrupt never returns |
| `mem` | 4 frames of 2 words, one register besides x0, 17 memory images, 3 PMP settings, 12 values of mstatus, 2 virtual addresses, 2 AMOs; 225 k states, about 2 min | the walk against its specification for page numbers within 32 bits, stores confined, faults atomic up to the AMO on a write-only region, AMOs exact |
| `mem_wide` | same | *violation*: a page number beyond 32 bits is cut, the comments say addresses have 34 bits |

Why the bounds suffice. *Trap*: the levels are not bounded, so all nestings of M, S and U
handlers occur; two fault causes are enough for one delegated and one not; the ten CSR
instructions set and clear the enable bits, their saved copies and MPP of machine and
supervisor level (SPP changes by traps; user-level interrupts stay off), enable both external
interrupts and the timer's, delegate the supervisor's, and use a view with and without reading it; with 8
addresses pc wraps around. *Plic*: three ids allow a claimed, an offered and a waiting one at
once. *Fifo*: counters wrap every two rounds, batches cross the buffer's end. *Pmp*: every mode,
locked and unlocked, overlapping regions, accesses on both sides of every border; the
configuration bytes chosen are one locked TOR, one locked NAPOT, one unlocked NA4 and (initially)
off. `CheckIsBytewise` is stated for states with an active entry (`SomeActive`; the others are run
`pmp_inactive`) and for regions that end below the top of the address space: one
that reaches it has start + size = 0 and matches nothing (`RegionsBelowTop`). *Soc*: mtime passes every deadline and
wraps around, carries between its words, and each deadline is written from each time; three key
presses allow one read, one waiting and one dropped; the bounds on characters only keep the
histories finite. *Uart8250*: a FIFO between empty and full, and a level between 1 and full.
*Memory*: pages of every kind of flags, superpages aligned and not, a page number beyond 32 bits, a
table the PMP hides, a write-only and a read-only frame, a table mapped by itself; the proofs remove all these bounds.

Deadlock is checked except for `trap`, where the process may end (`NullDereference`).

Fairness. `Plic!FairSpec`: the loop `while(1)` keeps running (weak fairness of `Next`) and software,
whose handler the line calls, reads the claim register if it gets the chance with the line high
again and again (strong fairness). The second is an assumption on guest software, the first is the
loop itself. `Soc` and `Uart8250` need only the loop (weak fairness of `Cycle`): their guest's handler
is part of the model. The RX thread has no fairness; nobody has to press a key.

What the device runs show beyond their properties. *Soc*: the timer's deadline may always have passed
already, so that its handler is entered again and again, and the transmitter's level may stay high;
input is served all the same because the external interrupt has the higher number (with the timer
first, the mutant of `InputServed`, it is not). *Uart8250*: `TransmitInterruptIsFinal` is a limitation:
`tx_stop_triggering`, set when IIR is read, is cleared only by a write that finds IIR = 2
(`uart_8250.c:83`), but the next `uart_update` has replaced the 2 by then; a driver that waits for
transmit interrupts gets one. `tx_needs_flush` is never cleared, so after the first newline every byte
is printed in its cycle.

`InputServed` promises service for input that is *due*: a character that no read of LSR has shown, or the
level reached. Any read of LSR clears `lsr_change` (`uart_8250.c:239`), so after the main program has polled
LSR, for an empty transmitter say, characters below the receive level raise no interrupt until another one
arrives. That is a limitation of the UART, which the property states as its premise.

*Trap*: `NoSpuriousInterrupt` speaks of the machine's interrupts. The supervisor's external interrupt may be
raised by software according to `trap.c:148`, and run `trap_seip` shows that it is not. *Memory*: `FaultAtomic`
names the one case in which an instruction that traps has changed memory. An AMO calls its store whatever
became of its load (`core.c:785-788`); where the PMP grants writing and not reading, the store is made and the
trap reports the refused load. No document of the repository promises otherwise, so the case is an exception in
the property and not a run; the instance reaches it.

Disagreements of code and comment met on the way that are no runs; no property of a run speaks of them, and the
models have the code's behaviour:
- `plic.h:20` says "if two ids have same prio, the lower interrupt id has a higher prio"; `plic.c:119` replaces
  its choice when a later id has a priority >= the best so far, so the higher id wins. `OfferedIsHighest` leaves
  ties open.
- `pmp.c:59` says "check if the next index is locked and set to tor". The guard at `pmp.c:60` compares the byte's
  position in its register with `PMP_NR_ADDR_REGS-1` and is always true, so for pmpaddr15 the low byte of pmpaddr0
  is taken for the next configuration, and a write may be dropped although nothing is locked.
- `uart_8250.c:217` says "THR empty and line idle is always true here", but with FIFOs on, bytes without newline
  stay in the FIFO: software that polls LSR for an empty transmitter waits until something flushes it.
- `fifo.h` documents `fifo_put` and `fifo_get`, which nothing calls.

## 5. The proofs

All are for arbitrary constants that satisfy the named ASSUMEs.

**TrapProofs.** The inductive invariant `Inv` is the conjunction of the checked invariants and
`CycleConsistent`. The latter is needed because the others speak of single registers, while
a step uses how they relate within a cycle: the pending exception is the first fault of
the instruction at `exec.pc` and pc is 4 past it (so that pc - 4, which `trap_serve_interrupt`
saves, is that instruction); no instruction starts in the reserved level; and a machine handler
above a live supervisor handler has bit 0 of MPP set (so that its MRET does not go below it).
`FrameIntact` and `HandlerShielded` are mutually inductive: a trap into x may overwrite x's saved
bits only because no *interrupt* enters a level with a live handler, and an exception starts a
new frame. Lemmas `ServedFacts` and `RestoredFacts` say what entering and leaving a level does
to the bits of that level and of the others; one lemma per kind of step follows. From `Inv`
come the action properties: `PrivilegeOrdered`, `HandlersNotReentered`, `ReturnsResume`,
`ViewsDoNotEscalate`. `ViewsRestrictedWithoutCsrw` bounds the finding of run `trap_views`: for a guest that
never writes sstatus, sie or sip with rd = x0 the violated property holds, xRETs of a lower level included.

**PlicProofs.** `Inv` is `TypeOK /\ OfferedIsHighest /\ ClaimsTracked`; the theorems assume
`OneWord` (all ids below 32), which holds of the SoC and without which they are false
(run `plic_word`). Under it `Count` is the identity, and the winner of the scan exists because
a finite set of candidates has a greatest one in the order of priority and id. `OfferIsPending` is the
property that run `plic_word` violates, under `OneWord`.

**FifoProofs.** `Inv` is `TypeOK`, `ReservationHolds` and that an idle side holds no reservation;
`CopiesIntact` adds that copied bytes are still in place at the commit. Counter arithmetic
(`SlotPlus`, `SlotWrap`, `SlotFacts`) reduces everything to slots between `out` and `in`;
`StepSimulation` shows that each step is a step of the queue or stutters, which gives
`QueueImplemented`: `Spec => Queue!QSpec`. It needs `CounterMod % Size = 0`, which 2^32 and a
power of two satisfy.

**PmpProofs.** `TypeCorrect` and `LockedRegionsFrozen`: a region depends on its own two registers
and, for TOR, on the address before it; each of the three is protected by a different test.
`CheckAlwaysBytewise` says that the check is the byte-wise one in every reachable state, for all addresses of
a 32-bit hart (hypothesis `XlenMod <= 2^32`, and `XlenMod % 4 = 0` in `SizesAssumption`), with the
hypotheses `SomeActive` and `RegionsBelowTop` as in the run. Regions: below the top, each mode's start and size, computed
modulo `XlenMod` with shifts, describe an interval of whole words (`TorInterval`, `Na4Interval`,
`NapotInterval`), and so does the definition it is compared with. For NAPOT this needs the number of
low ones of an address and its powers of two, facts that would be induction over the word; a word of 32
bits has 32 steps, so `NextBit` is applied that often in `LowOnesFacts`, over the table `PowerFacts`.
Accesses: one of at most four bytes meets an interval of whole words just if one of its ends is inside, and
lies in it just if both are (`EndsDecide`), also when the access itself wraps around at the top. `DroppedRightlyBeforeLast`
bounds the defect of `pmp.c:60` (section 4): no address register but the last loses a write without a lock.

**SocProofs.** For every word width, buffer size, set of newline characters and bound on the histories.
First `PlicRefined`: each step of the SoC is, for the PLIC, one of its steps or a stutter, so `Spec => P!Spec`.
Its invariant is then at hand in the SoC (`PlicInvariant`, from `PlicProofs`; the UART's id is below
32). `IInv`, inductive relative to it, has one part per device and one for the guest. `InputOrder`: the
buffer holds exactly the undropped characters after the last one read, in order; the RX thread appends
the largest and a read takes the smallest. `OutputOrder`: printed characters followed by waiting ones are
1, 2, ..., `sent`, and an instruction starts with room in the buffer, because the update flushes a full one;
so no write of the transmit register is refused. `TimerWritten`: outside the handler mtimecmp is the
deadline in force, and while it is written its low word is at the maximum and its high word is that of the
old or the new deadline, so that the line can only be up if one of the two has passed (`LineIsExact`).
`HandlerState`: the handler's first instruction follows the update that raised the line, so that the
claim register still has the id (`OfferedIsUart`, from `OfferedIsHighest`), and it is held until the
completion. Each part has one lemma per kind of step and a lemma on what leaves it alone. `OutputComplete`
is proved for `UartFifoSize = 1`, the value in `simple_uart.h`: with a larger buffer characters wait for a
newline, and `OutputInOrder` is what remains true.

**Uart8250Proofs.** For every FIFO size and set of receive levels. `IInv` adds to `TypeOK` and
`OutputPrompt` three facts: `FlushDue` (in phase "update" a byte that must be printed at once is in the FIFO only
with `tx_needs_flush` set, so this update prints it), `StopIsSeen` (once `tx_stop_triggering` is set,
neither the current interrupt id nor, when an instruction starts, IIR is the transmit interrupt's, hence
no write of THR finds the 2 that would clear it), which is why the transmit interrupt never returns, and
`CallHeld` (`lsr_change` is set while a character has come that LSR has not shown). From the last one
`InputIsCalledFor` follows: every update raises the interrupt while input is due, the safety half of `InputServed`.

**MemoryProofs.** For every table size, number of frames, page table, PMP setting and AMO. `TypeOK` is
inductive by itself. `LeafCorrect` and `WalkCorrect` show that the walk is the algorithm the comments
quote (`Maps`, and `Target` as the bus sees it): a refused read leaves an entry that is either invalid (Zero) or a pointer,
which is no leaf, so ignoring the refusal cannot make the walk succeed. `NarrowTarget` removes the bus from
this where page numbers are within 32 bits, superpages included (`NrFrames` is a multiple of `Entries`), which
gives `WalkMeetsSpecAlways` and says where the property of run `mem_wide` does hold. `TranslateCorrect` and
`BusCorrect` carry this through MPRV and the PMP: an access is made just if it reports no fault.
Every change of memory is such an access (`MemoryStep`), hence `StoreConfinedAlways`. For
`FaultAtomicAlways` and `AmoExactAlways`, `WritableReadable` shows that what the page tables let an access
write they let it read, at the same place: a writable leaf is readable (the walk rejects w without r), leaf
and pointer exclude each other so both halves end at the same level. The PMP is the only one that can still
refuse the load, by granting the place for writing alone; then the load reports an access fault, which is the
exception in `FaultAtomic`. No assumption on the PMP is left.

**MulDivProofs.** For every h of at least 4 and all operands. `Halves` and `ProductOfHalves` write the
product as four partial products, `CarryExact` shows that the carry of the middle column fits in half
a register (so the cast loses nothing), `Collect` and `ProductFits` give `UmulExact`. Reading a register
as signed subtracts a whole `Base` (`SignedValue`), which moves the product by a multiple of `Base`:
`SignCorrection` turns it into the subtraction from the upper word, hence `MulhExact` and
`MulhsuExact`. `Truncated` is division in C; `QuotientInRange` shows that overflow happens only for the
smallest number by -1, the case the code treats apart, hence `DivRemExact`.

Only model-checked: `DeviceServed` and both `InputServed`, which are liveness under fairness and out of the
prover's reach, and the violations, which are counterexamples.

## 6. What is not covered

- What the integer, shift and branch instructions compute (one C operator each), and the decoder with its
  tables. The decoder looks at `opcode_list[opcode]` before it compares the index with the list's
  size (`core.c:1686`), so an undefined encoding reads behind a list before it is rejected.
- Byte, halfword, misaligned and page-crossing memory accesses: an access that crosses a page is
  translated by its first byte. Extension of loaded bytes and halfwords.
- Registers of an SC or AMO that traps: rd is already written (a failing SC leaves 0 in it, an AMO the
  loaded word), so with rd = rs2 or rd = rs1 it cannot simply be executed again. The LR reservation is made
  even if the load faults, and survives traps and changes of satp; `Memory` has both as they are.
- Memory after an AMO that traps in a write-only region: the store has been made (`core.c:788`), so the AMO
  cannot be executed again; `Memory` has it and `FaultAtomic` excepts it.
- Input of the 8250 below the receive level after a poll of LSR: nothing calls for it until the next character.
- A saved pc of 0, to which no return goes (`core.c:1810`); `ReturnResumes` leaves it out. Whether MPRV is
  still meant by the level that runs with it; `StoreConfined` takes the level it selects.
- In machine mode the PMP of `Memory` grants everything; locked entries, which bind machine mode too,
  are in `Pmp`. MPP holds no reserved value in `Memory` (it may in `Trap`).
- There is no TLB in the code, and SFENCE.VMA does nothing.
- CLINT accesses other than aligned words, which spill into the next register; device accesses that end
  the emulator (`die_msg`); placement of images and the reset vector; the stop conditions of the loop.
- The RX thread does not run in debug builds (`RISCV_EM_DEBUG`).
- In Trap the lines mei, mti and msi are free in every cycle, which covers any behaviour of the devices.
- RV64 (always-enabled bits in mstatus, two PMP configuration registers, W and D forms of instructions)
  and builds without CSR or PMP support.
- PLIC accesses that are not aligned words, and completion of ids outside 0..255, which leave the
  array.
- scratch, tval, counteren, cycle counters: stored, never consulted by the emulator.
- Option parsing, file loading, terminal handling, firmware, device trees, ISA test scaffolding.
