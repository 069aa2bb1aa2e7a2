# A TLA+ model of the simple 32-bit operating system

The program under `src/` simulates a small operating system: CPU threads run
processes that a loader thread loads, a scheduler with one ready queue per
priority gives them out, a timer thread keeps everybody in step, and a paged
memory gives each process a heap in a shared RAM with swap areas. This
directory holds a TLA+ model of it, the TLC runs that check it, and proofs.

## 1. Inventory

| part | code | state | operations |
|---|---|---|---|
| slot timer | `timer.c` | `_time`, per device the flags `done` and `fsh` with two locks and two condition variables, `timer_stop` | `attach_event`, `start_timer`, `next_slot`, `detach_event`, `stop_timer`, the timer thread |
| queues | `queue.c` | an array of ten PCB pointers and a size | `empty`, `enqueue`, `dequeue` |
| scheduler | `sched.c` | a ready queue per priority, `running_list`, the static `curr_prio` and `curr_slot` | `get_proc`, `put_proc`, `add_proc` |
| CPUs, loader, main | `os.c`, `cpu.c` | per CPU `proc` and `time_left`; the loader's index; `done` | `cpu_routine`, `ld_routine`, `main`, `run` |
| program loader | `loader.c` | the PCB it makes | `load` |
| allocator | `libmem.c`, `mm-vm.c` | per process `symrgtbl`, the free list, `vm_end`, `sbrk`; `mmvm_lock` | `__alloc`, `__free`, `get_free_vmrg_area`, `inc_vma_limit` |
| page tables, frames | `mm.c`, `mm-memphy.c`, `mm.h` | `pgd`, `fifo_pgn`, the free frames of each device | `vm_map_ram`, `alloc_pages_range`, `vmap_page_range`, `pte_set_fpn`, `pte_set_swap`, `MEMPHY_get_freefp` |
| memory access | `libmem.c`, `mm.c`, `mm-memphy.c` | the bytes of RAM and of the active swap area | `libread`, `libwrite`, `pg_getpage`, `find_victim_page` |
| system calls | `syscall.c`, `sys_mem.c`, `sys_killall.c`, `sys_listsyscall.c`, `libstd.c` | none of their own | `memmap`, `killall`, `listsyscall` |
| legacy memory | `mem.c`, `paging.c` | | not reached with `MM_PAGING` |

How they interact. The CPUs and the loader are devices of the timer: each calls
`next_slot` once per slot and `detach_event` at its end; `main` joins them and
then stops the timer. CPUs and loader share the queues under `queue_lock`. A CPU
executes one instruction per slot on behalf of its process; the system call
`killall` changes the queues with no lock; memory instructions
go to the allocator (under `mmvm_lock` for `__alloc` only) and to the frames of
RAM and swap that all processes share.

What is hard here, and what would make each part correct:

* *timer*: two locks guard one flag, and signals may come before the sleep.
  Each device must have exactly one turn per slot, nobody may sleep through its
  signal, and everything must end when the devices have left.
* *scheduler, CPUs, loader*: critical sections interleave, `put_proc` enters
  the lock twice, `done` is read with no lock, queues are bounded. A process
  must always be in exactly one place, must not be left behind by the last CPU
  to stop, must not run twice in a slot, and must finish.
* *killall*: it turns two queues over, entry by entry and with no lock, while
  others use them, between its queue operations and inside them; one of the two
  queues also names processes that have finished. It must lose nobody,
  end the processes it was asked for and leave the others alone.
* *allocator*: long sequences of calls move the break, the limit and the free
  list apart. Regions must not overlap, must have pages, must not be lost.
* *frames and swapping*: exhaustion in the middle of a request, free lists with
  no lock of their own, and page table entries that mean two things. No frame
  may have two owners, and a process must read what it wrote.

`PROJECT.json` lists every component, also those left out, and under `hazards`
every place of this kind with the property that looks at it.

## 2. Modules

| module | models | built on |
|---|---|---|
| `SlotClock` | the abstract specification of the timer: what the devices see | |
| `Timer` | `timer.c` lock by lock, and the end of `main` | implements `SlotClock` |
| `TimerProofs` | proofs about `Timer` | `Timer` |
| `Queue` | `queue.c` as operators on sequences | |
| `Kernel` | `cpu_routine`, `ld_routine`, `sched.c` | `Queue`, an instance of `SlotClock` |
| `QueueProofs` | lemmas about `enqueue` and `dequeue` | `Queue` |
| `SlotPace` | `Kernel` with the history of who has run in the slot | `Kernel` |
| `KernelProofs` | proofs about `Kernel` and `SlotPace`, queues of any size | `SlotPace`, `QueueProofs` |
| `OrphanProofs` | nobody is lost, left behind or kept waiting in `Kernel` | `KernelProofs` |
| `KillAll` | `sys_killall.c`, the path that `load` keeps, `run` in two steps | `Kernel` |
| `KillAllProofs` | proofs about `KillAll` | `KillAll`, `OrphanProofs` |
| `PTE` | page table entries with their bit fields | |
| `Regions` | `__alloc`, `__free`, heap growth, page mapping, free frames | `PTE` |
| `RegionsProofs` | lemmas about `PTE`, proofs about `Regions` | `Regions` |
| `Paging` | `libread`, `libwrite`, page faults, `memmap` on physical memory | `Regions` |
| `PagingProofs` | proofs about `Paging` | `Paging`, `RegionsProofs` |
| `FramePool` | the abstract specification of a device's free frames | |
| `FrameList` | `MEMPHY_get_freefp` load by load, with its callers | implements `FramePool` |
| `FrameListProofs` | proofs about `FrameList` | `FrameList` |
| `MCKernel`, `MCKillAll`, `MCRegions`, `MCPaging`, `MCFrameList` | instances for TLC | |

Definitions whose name has the form `X_Suffix` under a comment that begins with
"Mutation" are variants of `X` with a plausible bug. No specification uses
them; they show that each property can fail.

### Timer and SlotClock

A device is its position in `dev_list`; the loader, attached last, is at the
head. `tpc`, `dpc` and `mpc` say where the timer, each device and `main` are.
One step is one critical section (`NextSlotSignal`, `NextSlotTest`,
`DetachEvent`, `TimerScan`, `TimerRelease`) or an access to a shared variable
outside one (`TimerTop` reads `timer_stop`, `TimerTick` is `_time++`). Sections
as single steps are exact: `done` is the only field that is used under two
different locks, and no section uses it more than once before it ends or
sleeps. A wait on a condition variable is explicit: the thread is `asleep`, a
signal or a spurious wake-up moves it back to the test. `lead` is a history
variable, the slots a device has finished minus the slots counted.

`SlotClock` has `time` and, per device, one of `working`, `arrived`, `gone`.
`Arrive`, `Detach` and `Tick` are atomic. The refinement mapping `stageBar`
treats a device as back at work from the `_time++` on, although its flag is
cleared a little later: a device that the release loop has not reached yet
cannot be seen to differ. `LastTick` is the slot that the timer counts, or does
not count, when all devices have left.

### Queue and Kernel

A queue is a sequence of at most `MAX_QUEUE_SIZE` processes; `enqueue` on a
full one changes nothing, as in the code, and `dequeue` takes the first of
those with the lowest `priority`. `Kernel` has one step per critical section of
`queue_lock`. The CPU's label `cpc` is `top` (start of the loop), `put`
(between the two sections of `put_proc`), `fetch` (before `get_proc`),
`recheck` (before the tests after loading) and `stopped`. `FetchIdle`,
`Finish`, `PutRunningList`, `PutReady`, `Fetch`, `Stop`, `SkipSlot` and `Run`
are the branches of `cpu_routine`; `LdWait`, `LdRunningList`, `LdReady` and
`LdExit` those of `ld_routine`. `next_slot` and `detach_event` are the clock's
`Arrive` and `Detach`. Reading `done` is a step of its own (`Stop`,
`SkipSlot`), so the loader may finish between the empty queue and the test.
`waiting` is a history variable: the processes that have been in a ready queue
since the slot began. A process table (`Configs`) gives start, queue, default
priority and code length of each process.

`SlotPace` adds another history variable, `hasRun`: the processes that have
executed an instruction since the slot began. `Pace` is about it, that no
process is executed twice in one slot, however long it had waited before.

### KillAll

`KillAll` extends `Kernel`: the steps of the scheduler are the same, and `Run` is
replaced by `RunNothing`, `RunTest` (the test of pc and the fetch) and
`RunOther` or `RunKillAll` (pc++ and the instruction), since killall writes the
pc of a process that may be in `run`. A process has a program file; its
instructions are `killall` of some name and anything else. `load` gives the PCB
its priority, its code and its path, which an `snprintf` cuts to 16 characters:
`input/proc/` leaves five for the name (`Stored`).

`__sys_killall` goes through `running_list` and then through the first ready
queue. A turn of a loop is a `dequeue` and then an `enqueue` of the process that
was taken out, or `KillEnd` (pc to the end of the code), or `KillFree` (`free` of
the PCB); `KillReadyQueue` and `KillReturn` end the loops. None of this takes
`queue_lock`, so every critical section of another CPU or of the loader, which
is a thread of its own also beside a single CPU, may come between two calls of
the queue, and also inside one. The model has three forms of a call:

* no section overlaps it: one step, `KillDequeue` and `KillKeep`;
* sections fall between its pieces: `KillFind`, `KillShift` and `KillShrink` are
  the search, the shift loop and the `size--` of `dequeue`, each applied to the
  queue as it is by then; `KillTest` and `KillStore` are the size test of
  `enqueue` and its store with `size++`;
* anything else that an overlap can do: `KillStray`, after which the CPU is
  `wild` and nothing more is followed. That is a `size` of -1, a store past the
  array, and an overlap within one of the pieces (in the middle of the shift
  loop, or between the load and the store of `size`).

The second and third need another thread that is at work in the slot (`Overlap`)
and set the history variable `cut`. What killall guarantees, it guarantees as
long as no section has overlapped one of its calls, and the properties say so
(`~cut =>`); sections between the calls are all there. What happens otherwise
is the run `killall_race`.

The memory of a freed PCB may hold anything: `Found` lets any place be found in
a list that names one, `Match` lets its path differ. Not followed is a new PCB
at the address of a freed one. No process has pid 0. That killall frees a region
of its caller and of its targets is `Free` of `Regions`. `asked`, `ran` and
`wanted` are history variables.

`TerminatesByName` needs `Findable`: the process is in `running_list`, which takes
no more than `MAX_QUEUE_SIZE` entries, nothing in the list was freed, no
entry has a better priority, and no process that is still to be loaded has one.
Each part is needed, and without any of them TLC
shows a miss on the instance of the run. The last two, because `dequeue` takes the
best priority: an entry that is put back is found again in the next turn,
and the others behind it are never looked at; the loader may add such an entry
between two turns. The name is compared with the path in the PCB (`path`), so
`asked` and `OthersRunToEnd` are about paths: a process whose file name is longer
than five characters is asked for by its first five.

### PTE, Regions, Paging

A page table entry is a record of the present bit, the swapped bit and the low
26 bits as a number; the frame number and the swap offset are cut out of those
bits with the masks of `mm.h`, so that the two readings of one entry collide as
they do in the code.

`Regions` has the state of each process (`symrgtbl`, `freerg`, `vm_end`,
`sbrk`, `pgd`, `fifo_pgn`) and what they share (`free_fp`, `mmvm_lock`).
`AllocEnter` takes the lock; the search of the free list is one step per node
(`ScanSkip`, `ScanSplit`, `ScanExact`), because whether it ends is a question;
`ScanFound` and `Grow` commit the region and unlock. `Free` and `MemmapInc` are
one step each: they touch the process's own state, which only the thread that
runs it uses, and `MemmapInc` takes frames from the shared list. It holds no
lock there, so that one step is exact for one CPU; what overlapping calls do to
the list is the subject of `FrameList`.

Nothing stops the limit at the end of the page table: the test in
`inc_vma_limit` is commented out (`mm.c:172`). The growth that passes it
(`PassesTable`) takes its frames (`MapBeyond`) and stores entries behind the
table. `wild` collects the processes that have stored outside a table in this
or another way; what they do next depends on the memory layout and is not
followed.

`Paging` adds the bytes of RAM and swap and one step per `READ` or `WRITE`, and
the operations of `memmap` on physical memory, `MemmapSwap` and `MemmapWrite`.
One access per step is exact for one CPU, where accesses never overlap.
`shadow` is
a history variable, the last value written at each virtual address. An access
that would leave the storage of RAM, or a page-out with no swap frame left,
makes the process `wild`. What programs do is restricted: with `StayInside`
they use offsets inside their regions, and `memmap` is given frames of the
process's own and free swap frames, since no check in the code would stop a
program from writing into another process's memory.

### FramePool and FrameList

`FrameList` is the free list of one device. `MEMPHY_format` makes one node per
frame and nothing changes a link afterwards, so a node is its number, its
successor the next number, and `NumFrames` is the NULL pointer. A request is
for some frames. `AllocCall` begins one for `__alloc`, which holds `mmvm_lock`;
`BareCall` begins one for `memmap`, or for a page fault that needs a frame of
swap (`libmem.c:308`), which hold nothing. `ReadHead`, `ReadNode`, `StoreHead`
and `FreeNode` or `FreeLastNode` are the accesses of `MEMPHY_get_freefp`, once
per frame. `Exhausted` is the return of -1: the frames that the request was
given (`got`) go into `lost`, since `alloc_pages_range` and `vm_map_ram` drop
them; those of a request that succeeds become the thread's (`taken`). A thread
that uses a node another one has freed is not followed further (`Stray`).

Two threads in `__alloc` are kept apart by the lock. A bare call is kept apart
from nobody: the history variable `overlapped` becomes true when two threads
are inside and one of them is bare, and the safety properties hold until then.
Without the condition TLC finds `FrameOnce` and `NoFreedNode` violated: two
threads read the same head. `FramePool` is what the list promises: a frame goes
from the pool to one thread in one step (`Take`), a request drops its frames only
when the pool is empty (`Fail`), and a pool that is broken, by overlapping calls,
promises nothing (`Broken`).

Memory that `malloc` returns and the code does not set (`symrgtbl`, `pgd`,
`fifo_pgn`, `vm_freerg_list`) is zero in the model. In the build it comes from
fresh pages: the loader thread, which allocates it, frees nothing of those
sizes. The one other such field, `vmaid` of the first free region, does not
matter: that region is empty and last in its list.

## 3. Runs

Passing runs:

| run | instance | shows |
|---|---|---|
| `timer` | 3 devices, time up to 3 | the properties of section 1 for the timer, liveness and `ImplementsClock` |
| `kernel` | 2 CPUs, 3 processes, 2 priorities, quantum 2, 144 process tables, queues of 3 | `SingleHome`, `NoProcessLost`, `NoOrphan`, `Pace`, `NoBudgetLeftOver`, `WorkConserving`, `EveryProcessFinishes` |
| `killall` | 1 CPU, 3 processes, 2 priorities, queues of 3 places, 64 process tables of seven programs | `KillSingleHome`, `NoneLostToKill`, `TerminatesByName`, `OthersRunToEnd`, `KilledFinish` |
| `regions` | 1 process, pages of 2 bytes, page table of 3 pages, 2 symbols, sizes 1 and 3, 3 frames, ids before, at and past the end of the table | `RegionsDisjoint`, `FifoMatches`, `FrameExclusive`, `AllocReturns` |
| `paging` | 2 processes, pages of 2 bytes, page tables of 2 pages, size 2, 2 frames, 2 swap frames | `FramesConserved`, `SwapFramesDistinct`, `ResidentListed`, `ReadsBeforePageOut` |
| `frames` | 2 threads, 5 frames, requests of 1 to 3, with the lock and without | `FrameOnce`, `NoFreedNode`, `NoFrameLeaks`, `CallReturns`, `ImplementsPool` |

Runs whose property fails, each one a disagreement between the code and a
comment of the repository (the findings of `PROJECT.json` quote it):

| run | what happens |
|---|---|
| `kernel_hang` | a CPU that is idle when the work ends loops through `next_slot` for ever, and `main` never returns |
| `kernel_full_queue` | a process put into a full ready queue disappears |
| `killall_race` | on one CPU: the loader adds a process between the shift and the `size--` of killall's `dequeue`; the new process is cut off the queue, the one that was taken out stays in it and is then put back beside itself |
| `regions_mapped` | the break moves twice per growth and the limit once: the second region, or after `memmap` the first, lies beyond the limit |
| `regions_lost` | two exact fits in the free list: both are taken, one is forgotten |
| `paging_swap` | a swapped page keeps the present bit; its swap offset is read as a frame number |

Bounds and why they are enough. The timer only ever compares one device with
the others, and three devices have one before, one at and one after the cursor;
the proofs remove the bound. For the kernel three processes on two CPUs give
running, waiting and not yet loaded at once, contention for one queue and for
two, and process lengths below and above the quantum; start times include a gap
in which all CPUs run dry. `MaxTime` caps the slot counter: it stays at the
bound instead of stopping the system, so no behaviour is cut off. Page tables of
two or three pages of two bytes have every relation of break, limit and page
boundary; sizes below, at and above a page occur. The size of the page table is
the bound on a heap: a process that grows past it is `wild` from then on.
`MAX_QUEUE_SIZE`
is three in `kernel`, which no three processes exceed, and two in
`kernel_full_queue`. In `killall` it is three as well, so that `running_list`,
which each preemption makes longer, fills up, also before the last process is
added, while the ready queues have room for all; most programs call killall
after the third instruction, when all are loaded, one after the first, when the
loader is still at work, and the tables have a victim twice, a program that
kills its own kind, two killers, a killer whose priority hides its victims, a
process of better priority that is loaded late, and a name that is too long and
the name that is left of it. One CPU is enough there: the loader is the thread
whose sections fall between and inside killall's calls. In `regions` a request
for two pages finds one frame left, and the frame is dropped. In `paging` two
frames for two processes of up to two pages make RAM run out for either or both
of them, so that pages are touched that have no frame and both processes swap;
the two are interchangeable (`ProcSymmetry`). In `frames` requests of up to
three frames exceed the five there are. Deadlock is checked in every passing run
except `regions` and `paging`, where a process that has gone wild takes no
further step.

Fairness. `Timer`: weak fairness of each device thread, of the timer thread and
of `main` (the host schedules every thread that can run); none for spurious
wake-ups, and none is needed for locks because each section is short and ends.
`Kernel`: weak fairness of each CPU, of the loader, and of `NextSlot`, which
`Timer` shows the real timer gives (`ImplementsClock` includes it). `Regions`:
weak fairness of the thread inside `__alloc`. `FrameList`: weak fairness of each
thread inside a call. `KillAll`: as in `Kernel`.

`EveryProcessFinishes` holds together with the finding `kernel_hang`: the
processes finish, the CPUs do not stop. `KilledFinish` says it for `killall`, as
long as no call is cut: a process whose pc killall has set to the end is still
dispatched once more and freed.

`AllocReturns` is checked for sizes from 1. With size 0 in `Sizes` TLC shows
that it fails: an empty node fits exactly, stays in place, and is found again
for ever, with `mmvm_lock` held. An id of `PAGING_MAX_SYMTBL_SZ` passes the
bounds test of `__alloc` and `__free` (`ValidRgId`) and is a store past
`symrgtbl`; the model ends the process there (`wild`).

`ReadYourWrites` fails once a page has been swapped out (`paging_swap`);
`ReadsBeforePageOut` is what is left of it, and `FramesConserved` too is claimed
up to the first page-out: a page that a fault has brought in and over which the
heap then grows loses its frame. `SwapFramesDistinct` and `ResidentListed` hold
across page faults.

`FrameExclusive` (checked in `regions`, where nothing is swapped) does not, and
the attempt to prove it showed why. A page above the limit can be brought in by a fault (nothing compares an address with
`vm_end`), and when the heap then grows over it, `vmap_page_range` puts it into
`fifo_pgn` a second time. If it becomes the victim twice, the second page-out
takes the frame number out of an entry that already holds a swap offset: the
frame belongs to somebody else, two pages share it from then on, and the swap
frame of the first page-out is forgotten. `ExclusiveUntilSwapLost` says that
this is the only way: as long as every swap frame is free or in an entry
(`SwapConserved`), no frame is used twice. It is proved (`PagingExclusive`) and not
in a run, since the instance of `paging` cannot get there: the number that is
read instead of a frame is a multiple of 32 (the offset starts at bit 5). With
one process, pages of two bytes, a page table of four pages, sizes 1 and 5,
offsets 0, 2 and 4, 33 frames and three swap frames TLC finds `SwapConserved`
violated in 8 states and `FrameExclusive` in 9.

## 4. Proofs

### Timer

`TimerProofs` proves for every number of devices and every bound on the time,
from `TimerAssumption` alone (at least one device):

* `TimerInvariant`: `IInv`, an inductive invariant;
* `TimerTypeOK`, `TimerOneTurnPerSlot`, `TimerNoLostWakeup`,
  `TimerExitOnlyWhenAllGone`: the safety properties of the run, as consequences;
* `TimerTickWaitsForAll`: the action property;
* `TimerImplementsClock`: `Spec => Clock!ClockSafety`, step by step.

The argument. None of the properties is inductive by itself. `FlagsInv` ties
the flags to the thread that owns them: `fsh` is up exactly when the device has
gone, `done` only while it is in `next_slot`, and nobody sleeps with `done`
down. `CursorInv` says what the timer knows of the devices behind its cursor in
the first loop and ahead of it in the second: they are done or gone, and stay
so, because only the timer clears `done`. `CountInv` says that the count equals
the number of devices scanned only if all of them had gone, which is what the
break needs. `LeadInv` is the accounting of slots and `StopInv` the order of
the end. The refinement maps the first section of `next_slot` to `Arrive`,
`detach_event` to `Detach`, `_time++` to `Tick` or `LastTick`, and everything
else to a stutter.

### Queue and Kernel

`QueueProofs` has the lemmas about the two operations of a queue, for every
content: `dequeue` finds a position (`HighestIndexInQueue`; the lowest priority
exists because the natural numbers are well-ordered), takes that element out
and keeps the others in order; `enqueue` adds the process at the end, or nothing
if the queue is full.

`KernelProofs` proves, from `KernelAssumption`, `ConfigsAssumption` and
`QueueAssumption`, for every number of CPUs, processes and priorities, every
quantum and process table, and queues of any size, also too small ones:

* `KernelInvariant`: `IInv`, an inductive invariant;
* `KernelTypeOK`, `KernelSingleHome`, `KernelNoBudgetLeftOver`: safety properties
  of the run `kernel`;
* `KernelPace`: `PaceSpec => Pace`, at most one instruction of a process per slot.

The argument. `LabelInv` says what a thread knows from where it is: between
taking the lock for the first time and the next `next_slot` it is at work in
the slot, a CPU between the two sections of `put_proc` still has its process
and an empty budget, the loader inside `add_proc` is at a process whose time
has come. `HomeInv` is `SingleHome` position by position, with the fact that
what is queued or on a CPU was added and not freed; it is what makes `Finish`
free a PCB nobody else holds, and `put_proc` add a process that is in no queue.
`Pace` rests on `HasRunInv`: a process that has run in this slot is still on its
CPU, which waits in `next_slot`. That needs
the slot clock (a CPU that has run an instruction has arrived, and works again
only in the next slot) and `HomeInv` (the process is nowhere else).

`OrphanProofs` has three more. The first two have the hypothesis that a queue
has room for every process, `NumProcs <= MAX_QUEUE_SIZE`; without it the run
`kernel_full_queue` shows a loss.

* `KernelNoProcessLost`: `enqueue` never meets a full queue, because a queue
  holds different processes (`HomeInv`) and not the one that is being put
  (`RoomForOneMore`, by the pigeonhole principle);
* `KernelNoOrphan`, with at least one CPU. `LookInv`: while a process waits,
  some CPU will look at the queues again before it can stop, except in the slot
  in which the loader has just added a process; and in that case the loader is
  not gone, so no CPU has stopped, and at the next slot all of them look. A CPU
  that finds nothing has seen all queues empty (`NoneReady`), and who puts a
  process back looks again. `DoneInv` is the order of the end: `done` is set
  when everything was added and the loader leaves, CPUs stop after that.
* `KernelWorkConserving`, for queues of any size. A CPU that lets a slot pass
  has looked and found nothing, but a process may be put back after that look.
  That it is also fetched within the slot takes a count: every CPU that puts a
  process back looks once more, and every look takes one process. `MatchInv`
  states it without numbers: once a CPU has come out of its look empty-handed,
  and until the loader has finished its slot's work, there is an injection from
  the waiting processes into the CPUs that are about to look (`MatchFewer`,
  `MatchMore` and `MatchTaken` say how it changes). `BusyInv` says that a process
  that waits since the slot began has met no CPU that came out empty-handed.

The invariants of these modules were checked with TLC on the instance of
`kernel` before they were proved.

### FrameList

`FrameListProofs` proves, from `FrameListAssumption`, for every number of threads
and frames, every size of request, and callers with the lock and without:
`ListTypeCorrect`, `FramesGivenOnce`, `NoNodeUsedAfterFree`, `FramesNeverLeak`, and
`FrameListImplementsPool`, the refinement of `FramePool`. The last four say
something until two calls overlap, one of them bare; `LockedCallsNeverOverlap`
adds that calls of `__alloc` alone never do, so that for them the condition is
void. The inductive invariant `ListInv` has the types, that whoever is inside
without being bare holds the lock (`HolderOnly`), and, until an overlap,
`ApartInv`: one thread is inside, what it has read is still true (`LocalsFresh`:
its node is the head before the head is stored, and the one just below it
after), and the frames below the head are exactly those given out or lost, each
once (`GivenBelow`). The store of the head is the step that takes a frame of the
pool, `Exhausted` the one that fails; all others are stutters.

### Regions

`RegionsProofs` proves, from `RegionsAssumption` (positive sizes of page, page table
and symbol table, and no more frames than the frame number field of an entry
can name), for every number of processes, all sizes and all region ids:

* `RegionsInvariant`: `RegionsInv`, an inductive invariant;
* `RegionsTypeOK`: the types, as long as no process is `wild`; in particular
  the limit is inside the page table until some growth passes it;
* `RegionsAreDisjoint`, `RegionsFrameExclusive`, `RegionsFifoMatches`: the other
  safety properties of the run `regions`.

The argument. A step does one of three things to an area: nothing, it maps n
pages after the limit (`Grows`), or it passes the table and makes the process
`wild` (`Passes`). `TypeInv` adds to `TypeOK` that the limit is a whole number of
pages, and inside the page table unless the process is `wild`.
`DisjointInv` strengthens `RegionsDisjoint` to all pairs: symbols, nodes of the free
list, the region that an unfinished `__alloc` has cut out, and everything below
the break, because a new region begins there. An exact fit that is unlinked by
copying its successor, an empty node that stays, and a second `free` of a symbol
(by then the empty region) are its cases. `PageInv` ties page table, FIFO list
and free frames together: a listed page is present and below the limit, each
once, and a frame has one page or is free. It needs the limit of `TypeInv`: a
growth maps pages that were never mapped. The lemmas `SetFpn` and `SetSwap` say
what the two readings of an entry return after each of the two stores, and
which of them collide.

### KillAll

`KillAllProofs` proves, from the assumptions of `Kernel` and `KillAllAssumption`
(a program file holds instructions, and a path is the name of some file):

* `KillTypeCorrect`: `KillTypeOK` as long as no CPU is `wild`;
* `KillKeepsHomes`, `KillOthersRunToEnd`, and with `NumProcs <= MAX_QUEUE_SIZE` also
  `KillNoneLost`: the properties `KillSingleHome`, `OthersRunToEnd` and
  `NoneLostToKill` of the run `killall`;
* `KillTerminatesByName`, with one CPU (`OneCPU`).

All but the last are for any number of CPUs, all of which may be inside killall,
and the loader. The properties say what holds until a section overlaps a call of
killall's (`cut`); `killall_race` shows that this condition is needed even on one
CPU. `KillNoneLost` needs the room, since what killall puts back goes through
`enqueue`, which drops it when the queue is full (`kernel_full_queue`).
`TerminatesByName` needs one CPU: another one may take a process out of
`running_list` in its own killall, or put one of better priority into it.

The argument. The scheduler's steps are those of `Kernel`, and the lemmas about
`get_proc`, `put_proc` and `add_proc` are shared with its proofs; only `TypeOK` is
not (killall may move a pc past a concurrent increment), so they rest on
`SchedType`, the part of it that both have. `OnlyCalm` says that while `cut` is
false only undisturbed steps were taken (`CalmNext`), so the invariants have the
form "cut, or ...". `HandInv` follows a process out of the ready queue: it is
nowhere else, and in the hand of no other CPU (`Apart`), so that putting it back
or freeing it keeps `HomeInv`. `FoundKillInv` is `FoundInv` of
`OrphanProofs` with the hand of killall as a third place. `RanInv` says that pc
counts the executed instructions of every process that no killall has asked
for, for which nothing may write pc between its two steps in `run`. `SweepInv` is
the loop invariant of the first loop: a process that was asked for is at the
end of its code, in hand, or in `running_list` at a place not beyond the number
of turns that are left. It is kept because `dequeue` takes the first of the
entries of best priority: nobody in the list is better (`FirstInList`), so a turn
takes either the process itself or an entry before it, and the place goes down
with the number of turns.

### Paging

`PagingProofs` proves, from `PagingAssumption` in addition, with page-outs in any
order:

* `PagingInvariant`: `PagingInv`, an inductive invariant;
* `PagingIsTypeOK`: the types, as long as no process is `wild`, that is, until one
  stores outside RAM, swap or a table;
* `PagingResidentListed`, `PagingSwapDistinct`, `PagingConserved`: safety properties
  of the run `paging`;
* `PagingExclusive`: `ExclusiveUntilSwapLost` (section 3), in no run;
* `PagingReads`: `ReadsBeforePageOut`, for programs that stay inside their regions
  (`StayInside`).

The argument. `PagingCases` reduces a step to a few: the tables stay, the area
grows or passes its table, or a fault moves the tail of the FIFO list out
and one page in. `TableInv` is what survives any of them: an entry was never set or is present for good,
listed pages are present, resident ones are listed and are in frames of RAM.
`SwapInv` gives each swap frame one page. `FrameInv` is conditional on no swap
frame being lost, and inductive because a lost swap frame never comes back
(`KeptSticky`). The properties that hold "until a page is out" are not inductive
in that form, since a heap that grows over a page that is out makes the condition
true again while the damage stays; they are proved under the weaker condition
that no page *below the limit* is out (`AllCalm`), which no step restores
(`CalmSticky`): such a page keeps the present bit, so no fault brings it in.
`CalmInv` (the FIFO
list is exact, frames have one page), `ConservedInv` (no frame is lost while RAM
has some), `HeapInv` and `MappedInv` (the heap is mapped up to its limit while
RAM has frames) are stated under it. `ReadInv` then relates bytes: what was
written at an address is in the frame of its page, or the page is not there and
RAM is used up, so that it will never be mapped over.

### Only model-checked

All liveness (`NextSlotReturns`, `MainReturns`, `EveryProcessFinishes`,
`KilledFinish`, `AllocReturns`, `CallReturns`, the fairness part of
`ImplementsClock`), which is beyond the prover.

## 5. Not modelled

* The reading of the name in `sys_killall` byte by byte, and the reuse of a freed
  PCB's memory for another process.
* What follows when a section overlaps one piece of a call of killall's, and what
  a free frame list does after a thread has used a freed node of it.
* Memory accesses of two CPUs at the same instant, apart from the free frame
  list: page tables and regions belong to one process, which runs on one CPU.
* Registers and the values that instructions return to programs; parsing of
  configuration and program files; printing and dumps.
* `memmap` and memory instructions that name frames of another process or
  addresses outside RAM; areas other than 0; `SYSMEM_IO_READ`, whose result is
  dropped with the registers of the call.
* A quantum of 0, priorities of `MAX_PRIO` and more: the assumptions of the
  modules exclude them, the code does not.
* `mem.c`, `paging.c`, and the scheduler without `MLQ_SCHED`: not in this build.
* The end of a process for its memory: no frame is ever given back.

## 6. Plan

Done: 1. `SlotClock`, `Timer`, `TimerProofs`; 2. `Queue`, `Kernel` and their proofs;
3. `PTE`, `Regions`; 4. `Paging` with all of `memmap`; 5. `KillAll`;
6. `FramePool`, `FrameList` and its proofs; 7. `WorkConserving`; 8. `RegionsProofs`,
`PagingProofs`; 9. `KillAllProofs`.

Next:

10. Memory and processes together: frames of a finished process.
