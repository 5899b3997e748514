# simple-kernel in TLA+

A verification project for `simple-kernel`, a small i386 kernel: a boot stub, a
physical and a virtual memory manager, a heap, a text terminal, interrupts for
the keyboard, and one read of the PCI bus. The modules are written from the source; `PROJECT.json` maps
each definition to the lines it models.

Notation: `mem.c`, `early_pmm_init.c`, `tty.c`, `pic.c`, `pci.c`, `gdt.c`, `boot.S` are in
`src/kernel/arch/i386/`, `interrupts.c` and `idt.c` in its `interrupts/`, and
`kernel.c` in `src/kernel/kernel/`.

## The system

The kernel has one processor, one thread (`kernel_main()`) and one asynchronous
actor (the keyboard's interrupt handler; the timer ticks, but is masked).
Nothing is persistent.

| Part | State | Operations | What makes it correct |
|---|---|---|---|
| early memory manager (`early_pmm_init.c`) | the boot loader's memory map, trimmed in place; `early_pmm` | `init_frame_allocator()`, `sanitize_available()` | exactly the usable pages are marked free; no write behind the bitmap; the hint names a free page |
| frame allocator (`mem.c` 109-170) | `pmm`: bitmap, `next_index`, `next_offset` | `get_page()`, `free_page()`, `get_page_state()` | no frame handed out twice, none lost; the hint is right although `get_page()` does not test it |
| paging (`mem.c` 20-97) | page directory, page tables, the processor's TLB | `map_page()`, `unmap_page()`, `get_physaddr()`, `flush_full_tlb()` | each frame has one use; a mapping is not disturbed by mapping others; no stale translation |
| heap (`mem.c` 188-536) | a doubly linked list of headers inside the heap, the used bit in `next`, the pages mapped | `init_heap()`, `kmalloc()`, `kcalloc()`, `krealloc()`, `kpagealloc()`, `kfree()` | blocks are disjoint, long enough, mapped; the used bits tell who owns what; free neighbours are merged |
| terminal (`tty.c`) | row, column, the VGA buffer | `terminal_putchar()`, `terminal_write()`, scrolling | the row stays on the screen; the screen shows the last lines; nothing is written off the page |
| interrupts (`idt.c`, `interrupts.c`, `isr_wrappers.S`, `pic.c`) | the table, the controller's registers | `load_initial_idt()`, `pic_init()`, `pic_send_eoi()`, handlers | an interrupt reaches its handler; every key after `pic_init()` is served |
| start-up (`boot.S`, `late_pmm_init()`, `kernel_main()`) | page tables of the kernel, order of initialisation | sequential | the bitmap stays reachable, no memory gets two uses, only lack of memory stops it |
| segments (`gdt.c`) | five descriptors | `config_gdt_entry()`, `load_initial_gdt()` | what the processor decodes is flat code and data of ring 0 |
| PCI (`pci.c`) | none of its own | `pci_read_config()`, `pci_read_device_base()` | the device asked for is the one that is read |
| port I/O, libc, build files | no state | | not modelled, see below |

How they interact: `boot.S` calls `init_frame_allocator()`; its result goes
through `late_pmm_init()` to the frame allocator. `map_page()` calls
`get_page()` for page tables; `kmalloc()`, `kpagealloc()` and `init_heap()` call
`get_page()` and `map_page()` for heap pages. An interrupt goes through the
interrupt table and the segment its gate names. `kernel_main()` and the keyboard
handler both call `terminal_writestring()`: the terminal is the only state two
actors share.

What is hard here: allocator data structures that go wrong only after a certain
order of calls (the heap); a hint that is used unseen (the frame allocator); two
allocations nested in each other (paging); boundary arithmetic on addresses
(trimming memory areas, splitting heap areas); running out of frames; cached
translations; an interrupt in the middle of `terminal_putchar()`; the
edge-triggered keyboard line; bit fields that are packed by hand and taken apart
by the hardware. `PROJECT.json` lists each hazard at its line.

## Modules

| Module | Role |
|---|---|
| `FrameBitmap` | `struct managed_memory` and the functions on it, as pure operators, the base of every module with frames |
| `FramePool` | abstract: a pool of frames, taken and returned |
| `FrameAllocator` | `get_page()` and `free_page()` called in any order; refines `FramePool` |
| `EarlyPmm` | `init_frame_allocator()`, one loop iteration per step, over a constant set of memory maps |
| `PageTables` | `map_page()` and `get_physaddr()` on directory, tables and manager, as pure operators |
| `Paging` | fresh mappings, the device, unmapping and the TLB, in any order |
| `Boot` | extends `EarlyPmm`: page tables of `boot.S`, `late_pmm_init()`, and `kernel_main()` up to `init_heap()`, on `PageTables` |
| `HeapAreas` | the heap's list of headers and each heap function on it, as pure operators |
| `BlockStore` | abstract: disjoint blocks |
| `Heap` | heap calls in any order; claims `BlockStore` |
| `HeapNested` | callers that use the heap like a stack; refines `BlockStore` |
| `HeapSelfTest` | the calls of `kernel_main()` lines 53-96, in its order |
| `MappedHeap` | extends it: each page the heap maps, on `PageTables`, with frames for pages and tables |
| `Words` | 32-bit words by their bits |
| `Pci` | `pci.c`, and the host bridge that answers |
| `KernelMain` | extends `MappedHeap`: `kernel_main()` from `init_heap()` to its endless loop |
| `Descriptors` | descriptors and gates as the code writes them and as the processor reads them |
| `Terminal` | the terminal's functions as pure operators, and the text it promises to show |
| `Console` | `kernel_main()`, the keyboard handler, segments and interrupt table, controller, timer and keyboard |
| `MC*` | instances for TLC |
| `NumberLemmas` | arithmetic: least numbers, division with remainder |
| `FrameBitmapProofs` | what the operators of `FrameBitmap` do |
| `FrameAllocatorProofs`, `PagingProofs`, `HeapProofs`, `KernelMainProofs`, `BootProofs`, `ConsoleProofs` | the theorems about `FrameAllocator`, `Paging`, `Heap` with `HeapNested`, `KernelMain` with `HeapSelfTest` and `MappedHeap`, `EarlyPmm` with `Boot`, and `Console` |

How state and actions correspond to the code:

* **Frames** are frame numbers. `bitmap` maps a byte's index to the set of its 1
  bits; byte `Size`, behind the bitmap, is included because `get_page()` writes
  it once memory is used up. `held`, `lastTwo` and `ranDry` are history variables.
* **EarlyPmm** has one action per loop iteration (`Scan`, `Clear`) and one for
  the code between the loops (`SetUp`). The two integer widths are constants.
  The bitmap is represented by its clear bits, and a clear bit behind the last
  byte is a stray write. Sums and conversions keep their width where a memory
  map could exceed it: `Rounded`, `Scan`, `BitmapSize`, `NumPages`, `PageAddress`.
* **Boot** continues after `EarlyPmm`'s last step, with one action per call
  and, in `late_pmm_init()`, per iteration (`bitmap_page`).
  `stage` names the call that is next. The parts of the directory that matter are
  five entries; the directory itself is reached through the last one, so
  `map_page()` faults unless `boot.S` has set it. A byte of the bitmap is used
  through the page it lies in: if that page is not mapped for writing, the stage
  is `fault`. What follows the bitmap in its page may be anything.
* **PageTables** names a page by its two indices. `vm` holds manager, directory and
  tables. In `Paging`, an entry written as `~0` by `unmap_page()` stays present, with frame
  0xFFFFF, as in the code. Stale contents of frames are modelled by tables full
  of present entries, so a table that is not cleared shows.
* **Heap** addresses and sizes are bytes. `heap.head` maps the address of each
  header to its fields, for headers that are out of the list as well: only a
  caller's write (`Overwritten`) destroys one. `wild` becomes TRUE when
  a call follows a pointer to something that is not a header. In `Heap` frames
  are assumed to be available; `MappedHeap` maps each page that a call added to
  `heap.mapped` with a frame from `get_page()`, and takes a frame for its table if it
  has none, one page per step (`MapNextPage`), lowest page first, before the next
  call is made. What it promises (`HeapPagesAreBacked`) ends with the first frame beyond the bitmap. Block contents are not modelled.
* **HeapNested** adds `stack`, the order in which blocks were given out, and with it
  what such a caller owes the heap: it frees or resizes only the block on top,
  a resize does not outgrow the area, the area at the end of the heap stays
  free (`TailIsFree`), and no request is so large that it wraps around when
  headers are added (`CallersAssumption`). The runs `heap_used_bit` and `heap_end`
  show what happens without the first and the third.
* **HeapSelfTest** makes the heap calls of `kernel_main()` in their order, each with
  any of a set of sizes. `TestAssumption` is what the real sizes satisfy: the blocks
  fit into the heap, and `test` grows beyond its area, so that `krealloc()` moves it.
* **KernelMain** adds the PCI read. `machine` is what is on the bus: the
  configuration registers of each function (`MachinesAssumption`: an id register that is not all ones,
  or there would be no device). `wanted` is a choice, so that the
  address is tried with large fields; the code itself reads 0, 0, 0.
* **Console** splits `kernel_main()`'s `terminal_putchar()` into its loads and
  stores of `terminal_row` and `terminal_column` and its writes to cells; an
  interrupt may come between any two. Neither variable is volatile, so the order
  is the compiler's. The model has the order of the source and that of gcc 12 at
  `-O2`: the row is loaded first and kept in a register (`Putchar`), loaded
  again at any later point, or incremented in memory (`LoadRow`, with the store
  right behind it); row and column are stored in either order at
  the end of a line (`NewRow`, `FirstColumn`); the column is compared in the
  register or in memory. Behind the scroll's last `memcpy()` the
  row is loaded again, as that gcc does too. Scrolling copies or blanks one cell per
  step: no decision depends on what is in a cell, so a load and its store are one step.
  The handler prints a character per step, and nothing else runs in
  between, because its gate is an interrupt gate. The screen begins with what the firmware left there
  (`Firmware`). `pic_init()` is split where an interrupt
  would find a different controller. A vector leads through `InitialIdt` and
  `InitialGdt`, decoded as the processor does, to the handler whose address is
  in the gate. The wrappers of the exceptions, which no interrupt may
  reach, go by one name, and what wrappers do with the stack is left out. Words
  are sets of their 1 bits, the index in a selector too. `text` and `torn` are history variables.

## Runs

| Run | Question | Outcome |
|---|---|---|
| `frames` | `get_page()`/`free_page()` in any order, through exhaustion and back | all hold, refines `FramePool` |
| `frames_exhausted` | do two consecutive `get_page()` answers differ, as `kernel.c` 43 tests? | **violated** once memory is used up |
| `early_pmm` | start-up up to `init_heap()`, on 321 memory maps as a PC lists them | all hold; with six free pages nothing stops it |
| `early_unaligned` | an available area that starts and ends within pages | **violated**: a page of a reserved area is free |
| `paging` | fresh mappings, the device, unmapping and use, in any order | all hold |
| `paging_global` | is every cached translation current after a flush? | **violated** for global entries |
| `heap_nested` | callers that use the heap like a stack | all hold, refines `BlockStore` |
| `heap_any` | callers of any habits | only what is left: walks stay in mapped pages, page blocks are aligned |
| `heap_selftest` | `kernel_main()` from `init_heap()` on, with pages of 4096 bytes, on tables and frames | all hold, the heap ends empty, the ids printed are right |
| `heap_used_bit` | three blocks freed in any order | **violated**: a block in use becomes part of a free area |
| `heap_end` | a block that takes the end of the heap | **violated**: its pages are not mapped |
| `console` | printing, start-up, keys and timer interleaved, within `terminal_putchar()` too | all hold, including liveness; a character that is torn may leave the page |

Deadlock is checked in `frames`, `early_pmm`, `heap_selftest` and `console`. In
`early_pmm` and `heap_selftest` it stands for termination: only the last state
has a step that changes nothing, so any stop before it would be reported. The
other passing runs turn it off: `Paging` stops when its frames
are used up, and the heap when it has gone wild.

### Bounds

* `frames`: two bitmap bytes with four free frames spread over both, so the
  scan crosses a full byte, fails to find one, and starts again.
* `paging`: four free frames, two directory entries, two pages each, one cached
  translation. Two tables and two pages fit. The constraint `NotExhausted` stops
  a behaviour once a frame beyond the bitmap is in use; what happens then is the
  subject of `frames_exhausted`. One translation is enough because a flush treats
  each entry on its own.
* `early_pmm`: pages of 8 bytes, because the code distinguishes more and less
  than half a page. Areas end in every position relative to the pages that
  kernel and bitmap need; the farthest one needs a bitmap of two pages, and one
  lies above the addresses of a word and wraps to pages below the kernel, which
  `init_frame_allocator()` skips. The kernel is at 48, so that pages for its
  bitmap fit below it, as 1 MB is enough in reality (`LayoutAssumption`);
  a page table has 16 entries. Some maps leave fewer than six free pages, and
  some no bitmap at all: then start-up faults, which `StartUpSucceeds` allows.
  TLC checks that these maps are usual ones (`PcMapsAreUsual`), the hypothesis of
  the theorems.
* heap runs: four to six pages of 64 or 32 bytes against headers of 8, two or
  three blocks. The requests make a header end exactly at a page, leave
  less than a header's room, and use the heap up. `Modulus` stands for 2^32,
  so that `kcalloc()` overflows for the second of the arrays of `heap_nested`.
* `heap_selftest`: the real page size, with several sizes per call. Tables have
  four entries, so that the heap needs several, and there are eleven free frames
  in two bitmap bytes: as many as the most demanding sizes take. With one less
  the test would write through frames beyond the bitmap. Three buses (empty, one
  device, five whose addresses differ in one field) and three addresses.
* `console`: a screen of two rows of three columns and one cell more; the real
  page has 48 cells behind the screen of 80 columns, and what matters is that
  there are fewer than a row has. The text of the handler has two characters, so
  that it can end a line within the wrap of `kernel_main()`; a key within its scroll
  lowers the row twice, from behind the last of the two rows to the first.
  Two lines of the controller: the timer's, masked, and the keyboard's. The
  addresses of the handlers differ in the low and in the high half.

### Fairness

Only `Console` states any. The processor is weakly fair: it executes
instructions while it can. `StartUp` is strongly fair: `kernel_main()` prints
between its start-up calls, each text is finite, so it reaches the next call.
The keyboard is not fair. A pending interrupt is taken before the next
instruction, so no fairness between handler and `kernel_main()` is needed.

### What the violations mean

* **Frames.** When the last frame is gone `get_page()` returns an address behind
  the managed memory, always the same, and writes a byte behind the bitmap.
  `free_page()` of a frame repairs the hint. No caller tests the answer.
* **Heap.** `kmalloc()` does not update `prev` of the area after the one it
  splits off, and `merge_free_areas()` sets `prev` of the area it removes
  instead of that of its successor. A later merge follows the stale pointer. In
  general only nested use is safe, and `kernel_main()`'s own order. For callers
  of other habits `HeadsAreHeads`, `UsedAreasAreOwned`, `BlockHoldsRequest` and
  `NothingOwnedIsOneArea` all fail; `heap_used_bit` shows one of them.
* **Heap end.** An area handed out whole gets no pages; the comment says they
  are mapped already, which is false for the last area.
* **Paging.** Reloading CR3 keeps global entries, and heap pages are global.
* **Memory map** (`early_unaligned`). The correction of the length uses the remainder of the wrong
  end. It is right for areas that start or end with a page, or it
  loses a page; an area that does neither may gain one. For an area shorter than
  half a page the length wraps around.

Seen while reading, without a run: areas are placed at multiples of 8, the
comment at `mem.c` 380 says 16; `kpagealloc()` can leave a free area of size 0,
against `mem.c` 484-486; sizes close to 2^32 wrap when a header is added;
memory above 4 GB clears the bits of pages 4 GB below, which is harmless only
while these are free or skipped; freeing a block that reaches `heap_end` cuts the
list of areas, since the end counts as a free area (`mem.c` 301); an unsorted memory map makes the bitmap too
small; a key pressed before `pic_init()` silences the keyboard; an interrupt
between the increment of the column and its comparison can take the cursor past
80, from where it runs off the page, and one between `terminal_row++` on the last
line and `terminal_column = 0` writes behind the screen, from column 48 on behind
the page: a fault in the handler, which never returns; `PCI_STATUS_AND_COMMAND` (`pci.h` 159) is 0,
the register of the ids, so `status` and `command` hold ids, and nothing reads
them; kernel and bitmap of more than 1 MB together would put the bitmap's pages
where the kernel's are, `map_page()` would refuse, and the answer is ignored;
a kernel that reached page 1022 would take the VGA buffer's page, and
`kernel_main()` would return silently; with fewer than six free pages start-up
goes on with frames behind the managed memory.

## Proofs

Eight modules of theorems, each for every value of the constants its modules'
named assumptions allow; `PROJECT.json` lists the results. Lemmas
come in layers: what an operator returns, what a call does to the state, that a
step keeps the invariant, the theorem. Two facts replace induction over data, which the provers
lack: a non-empty set of numbers has a least member (`NumberLemmas`,
from the library's well-foundedness theorem), so a least counterexample can be refuted, and a recursive function
is the only solution of its equation (`VisitedIs` for the heap's list; `IprintIs` and
`NumberReadIs`, where a solution up to each number is built from that of the one before).

**Frames** (`FrameBitmapProofs`, `FrameAllocatorProofs`). Type correctness,
`BitmapMatchesHolders`, `HintIsFreeOrBeyond`, `NoFrameGrantedTwice`, and that the
allocator implements `FramePool`. `get_page()` marks the hinted
frame without looking: that the bitmap stays in step needs the hint, and that the
hint is right needs the bitmap. `AllocatorInv` joins both with two more
facts: held frames are available ones (so `free_page()` clears the right bits),
and one beyond the bitmap is held only after memory ran dry (so the hint it
leaves is a legal one).

**Paging** (`PagingProofs`). All of the run's properties: `TypeOK`,
`FramesHaveOneUse`, `NoFrameIsLost`, `LocalTlbAgreesWithTables`,
`MappingsAreStable`. `map_page()` takes a frame for a page table between taking a frame for the
page and entering it, so the bookkeeping (`Consistent`) is stated with a
set of frames `taken` but not entered yet, and followed through the call. The
properties speak of the time before memory is exhausted, but unmapping the last page
beyond the bitmap makes that time begin again; so `PagingInv` keeps the
bookkeeping while such pages are mapped, as long as no page *table* is
beyond the bitmap: tables are never given back.

**Heap, any callers** (`HeapProofs`). `TypeOK`, `VisitedHeadsAreMapped`,
`PageBlocksAreAligned`, for callers that free, resize and overwrite what
they like. `HeapInv`: every header anyone ever wrote lies in the heap, at a
multiple of eight, in a mapped page. It survives corrupted lists because a call that
follows a pointer to something else sets `wild`, where the model stops.

**Heap, used like a stack** (`HeapProofs`). All invariants of `heap_nested`
(`HeadsAreHeads`, `UsedAreasAreOwned`, `BlockHoldsRequest`, `BlocksAreMapped`,
`NothingOwnedIsOneArea`, `TypeOK`) and the refinement of `BlockStore`. The hard part is that
`prev` pointers are stale even for these callers: the splits of `kmalloc()` and
`kpagealloc()` leave them behind, and nothing repairs them. `ListInv` says
what they do mean: every area but the first is either the rest of an area
whose front was taken, with `prev` naming the used area right before it (`Rest`), or
a header `kpagealloc()` put in front of a page, with `prev` naming the area it cut,
which was free then and has been used only by blocks given out later (`PageHead`).
`older` is the order in which blocks were given out. When the newest block is freed,
nothing given out later is in use, so whichever `prev` `merge_free_areas()`
follows is right. `NestedInv` adds that the used areas are the owned blocks, that
they are long enough, that pages are mapped up to the last header, and `TailIsFree`:
a block at the end of the heap would own unmapped pages. `KmallocGives`,
`KpageallocGives` and `KfreeTakes` state what each call does to any sound list.

**The self test** (`KernelMainProofs`). `kernel_main()` is not such a caller: it frees
`test2`, `test3`, `test4`, `big`, and the pages last. `TestRestoresHeap` holds all the same, for all sizes
`TestAssumption` allows, and so do `HeadsAreHeads`, `UsedAreasAreOwned` and
`BlocksAreMapped` (`TestUsesTheHeapRight`). `TestInv` says why: the block of `kpagealloc()`
cuts the list in two (`TestList`); in each half a free area is only the first or the last one, and
every `prev` pointer is right but those of that block and of the end of the heap, which the splits
of `kmalloc()` leave behind. The used areas of a half are the variables that hold a block, in the order in
which they were given one (`Tested`). Each block that is freed is the oldest or
the newest there is, so no area in use separates it from an end of its half, and what it is merged
with leaves a list of the same kind (`TestTakesBack`). When the pages are freed, each half is one area,
and the `prev` pointer that was wrong is right again (`TestEnds`). While the test allocates,
`TestInv` also has to say that each half has one free area and the upper one has room
for what is still to come (`Fresh`, `Room`), and that `krealloc()` will have to move `test`.

**The test's pages and the device** (`KernelMainProofs`). `HeapPagesAreBacked`, for every
bitmap and every number of entries in a table. As in paging, the bookkeeping (`Consistent`)
has a set `taken` of frames not yet entered, followed through `map_page()`; `MappedInv`
adds that the pages with an entry are among those the heap mapped, and that heap
calls only add pages. It holds as long as no table is beyond the bitmap; the property
speaks of the time before. `PrintsTheDevice`, for all devices and addresses that
`MachinesAssumption` describes: the three fields of the address do not overlap
(`AddressFields`), so that exactly the device asked for answers (`DeviceAnswers`), and the digits
`iprint()` makes of an id, read as a decimal number, are the id again (`IprintIsDecimal`).

**Start-up** (`BootProofs`). For any memory maps: `TypeOK` and
`UsablePagesAreFree`. `EarlyInv` relates the state between two
loop iterations to the map as the boot loader gave it: entries behind the loop
are trimmed as the *untrimmed* map would have them, though the loop
trims against a half trimmed one. For usual maps (`IsUsual`): `FreePagesAreUsable`,
`BitmapHoldsAllPages` (`SizeInv`: no area scanned so far has pages beyond
`total_size`) and `HandsOverFreeHint` (`FramesCounted`: areas share no page, so
counts add up). What the hypothesis excludes are maps for which the
code is wrong or at the mercy of its environment: an available area that neither starts nor
ends with a page (`early_unaligned`), a reserved area that reaches into an
available one from before, memory above 4 GB that wraps to pages behind the
kernel, available areas not listed upwards, and a last entry that could hold the
kernel but does not begin with it. What `Boot` adds leaves that state alone,
so all of this holds until the heap is up (`MemoryAtStartUp`).

What follows holds for usual maps too: `ManagerIsHandedOver`, `BitmapIsReachable`,
`StartUpSucceeds` and `MemoryHasOneUse`, however large kernel, tables and
bitmap are. None is inductive: that a page of the bitmap is the one behind its
address needs that `map_page()` found the page unmapped, that a later
`get_page()` does not fault needs every page of the bitmap, and that heap and tables get free memory needs what
`get_page()` has taken so far. `BootInv` therefore says for each `stage` what the
kernel's table holds (its own pages, the first `bitmap_page` of the bitmap, and
later the VGA buffer: `KernelMapped`), which heap tables exist and that their
frames were free (`HeapMapped`), and that the manager has taken at most as many pages
as the calls so far (`Pool`), so that with six free pages its hint is always
a free one. That mappings never meet follows from where
bitmap, kernel and VGA buffer lie (`LayoutAssumption`, `VgaAssumption`).

**Interrupts** (`ConsoleProofs`). `InterruptsReachTheirHandler` and
`KeysAreRequested`, whatever the processor interleaves. `ConsoleInv` says what each stage of
start-up finds loaded, that the line in service is the one
whose handler runs, and that a byte is in the buffer only after the controller was
reset. `KernelSegments` and `EntryPointOfGate` compute what the processor reads out of the packed
descriptors; the first takes the kernel's descriptors bit by bit, the second holds for every address.

**The screen** (`ConsoleProofs`). `RowStaysOnScreen`, for every interleaving and every order of
the accesses `Console` has: the row is on the screen between two characters, behind it only between `terminal_row++`
and `terminal_row--`, and never above. The handler may scroll the line `kernel_main()` is about to scroll
or is scrolling; then the row is lowered twice, and the theorem says that it
was high enough for both. `RowInv` says for each place in `terminal_putchar()` how far
the row and its copy in the register may be apart. That the handler cannot take the row one further, where
`==` would miss it, rests on the size of the page: to end the line behind the screen it would
have to write at column 79, and only 48 cells of that line are in the page (`PageAssumption`), so the
write faults first. `TypeOK`: the first character
that is put behind the page is a fault, where the model stops. `ScreenShowsText`, for the
interleavings that do not tear a character: `ScreenInv` says for each access of
`terminal_putchar()` what of the text is on the screen and what is still due.

Only model-checked:

* liveness (`KeysAreServed`), which is beyond the prover;
* the violations: `frames_exhausted`, `early_unaligned`, `paging_global`, `heap_used_bit` and
  `heap_end` are counterexamples TLC finds.

## Not modelled

* The wrong multiboot magic number (an endless loop); alignment errors
  of `map_page()`, which change nothing; flags other than writable and global;
  stacks and registers in `boot.S`.
* Frames running out below the heap: `MappedHeap` has as many as the test needs,
  `Heap` assumes them. What `get_page()` does without is `frames_exhausted`.
* In one composed state: `Boot`, `KernelMain` and `Console` each follow
  `kernel_main()` with a part of its state. They share no variable in the code
  but the order of its lines, which each of them keeps.
* Port I/O (single instructions, modelled as their effect on the device), libc
  (loops over bytes; nothing in the kernel calls `printf()`), build files.
* Orders of the accesses in `terminal_putchar()` other than those above, as a
  compiler that keeps the column in a register across a line, or the row across the
  scroll, would make them.
* What the page fault handler prints, and when: the model stops at the fault.
* Handlers that return at once, and those that print and loop; the functions
  `pic_set_irq_mask()`, `pic_clear_irq_mask()` and `pic_disable()`, which nothing
  calls; the second interrupt controller, whose lines are all masked; spurious
  interrupts.
* The enumerations of `pci.h`, which nothing reads, and the fields `status` and
  `command` beyond what `DeviceBase` says of them.

## Plan

Done: every component with state is modelled and checked, and every property of a
passing run but the liveness of `Console` is proved.

What could follow: `Boot`, `KernelMain` and `Console` in one state, so that
`KernelMain`'s frames are those `Boot` left; and a heap that corrects
`prev` in `kmalloc()` and `merge_free_areas()`, for which `BlockStore` should hold with
callers of any habits.
