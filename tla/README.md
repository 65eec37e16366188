# Formal models of Yasos

Yasos.zig is a preemptive single-address-space operating system for
microcontrollers: processes share one memory without an MMU, system calls run in
thread mode on the stack of the caller and can themselves be preempted. This
directory holds TLA+ models of its core and of the tools that bring programs and
disks to it, TLC configurations that check them on small instances, and proofs,
checked by TLAPS, of what holds for every instance.

## Inventory

| component | state | operations | hard behaviour |
|---|---|---|---|
| process objects (`kernel/process.zig`) | state, pid, parent, `_blocked_by`, `_blocks`, vfork context, descriptors | init, vfork, wait_for_process, unblock_*, reevaluate_state, deinit | pointers between processes that outlive the processes |
| scheduler (`scheduler/round_robin.zig`) | current, next | schedule_next, set_next, update_current, remove_process | vfork, exec and exit replace the current process without a switch |
| process manager (`process_manager.zig`) | process list, terminate list, pid bitmap, core | create, vfork, exec, delete, waitpid, schedule_next | a child runs on its parent's stack; a process ends on the stack that is to be freed |
| system calls (`interrupts/system_call.zig`, `syscall_handlers.zig`) | context switch flag and nesting counter | block, unblock, one handler per call, PendSV, SysTick | a preemption may come between any two unblocked steps; early returns leave switching blocked |
| memory pool (`memory/heap/process_memory_pool.zig`) | page bitmap, chunks per pid | allocate_pages, free_pages, release_pages_for | failure between marking and bookkeeping; munmap of parts of chunks and of pages of others; create_process allocates unblocked |
| semaphores (`semaphore.zig`, `kernel_semaphore.zig`, `mutex.zig`) | counter, waiting_for | acquire, release | tests outside the system call, lost wake-ups, try-lock |
| serial console (`ring_buffer.zig`, `uart.zig`, `uart_file.zig`) | ring buffer, head, tail | push by interrupt, pop and read by processes | overflow during a read |
| mount points and VFS (`mount_points.zig`, `vfs.zig`) | tree of mount points | mount, umount, lookup | prefix matching, a mount that fails half way |
| file descriptors (`process.zig`, `syscall_handlers.zig`) | table per process | open, dup, close, vfork copies | handles used after unblocking |
| ramfs | node tree, reference counts | create, link, unlink, get | nodes in use when unlinked |
| romfs, littlefs, fatfs | external or read-only | | |
| loader (`dynamic_loader/source/loader.zig`, `module.zig`) and module registry | data, bss, GOT and thunks of each module, shared data with user counts, modules per pid | load, relocate, find symbol, release | words written by several loops, two bits of section in every offset |
| image converter (`elftoyaff/mkimage/mkimage.py`, `elf_parser.py`, `relocation_set.py`) | symbols with their localization, the set of relocations, two symbol tables | one method after the other, a turn per relocation | every address counted from another place; relocations of equal names; exceptions that end it |
| disk image scripts (`scripts/create_disk.py`, `write_yasboot.py`) | the image file, the partition table in it | size, record, partition by partition; install the bootloader | a script that dies between two writes; the order of keys and the order on the disk |
| debugger command (`scripts/yasld_gdb.py`) | the files whose symbols it added | parse the log, remove, add | the log grows while it is read; gdb refuses or is interrupted |
| storage drivers (mmc, flash, partitions, buffered file) | positions, card protocol | read, write, seek, retries | retries, bounds of a partition |
| driverfs, procfs, kernel heap, HAL, stubs, other tooling | little of their own | | |

System calls reach the process manager, which owns the scheduler and the memory
pool; SysTick raises PendSV, PendSV asks the process manager for the next process
and destroys the ended ones on the way. Wake-ups are callbacks: a process keeps
the list of those who wait for it and calls their action when it ends.

On the host, the converter turns a linked ELF file into the image a file system
holds, which the loader runs when a program is executed: the two meet only in the
image, whose words one encodes and the other decodes. The kernel finds the file
systems through the partition table `create_disk.py` writes and `write_yasboot.py`
must keep; and the debugger learns where a module lies from the lines the loader
logs when it has loaded one.

## Modules

* `ProcessTable`: the objects of `process.zig` and its operations on them as
  functions from table to table. A table maps heap *addresses* to objects, so a
  pointer that outlives its object, and an address used again, are visible.
* `RoundRobin`: the scheduler's two pointers and its operations. `SearchOrder` is
  the order of the two loops of `schedule_next`.
* `ProcessManager`: the specification. One action per blocked section of a system
  call (`Vfork`, `Exec`, `Exit`, `Kill`, `WaitpidBegin`, `WaitpidSpin`, ...,
  `CreateTakePid`, `CreateAppend`), plus `ContextSwitch` (PendSV) and `StartRoot`.
  `pc` says where inside the kernel each process is; `core` is `core[0]`; `gate`
  the context switch flag and its counter; `mode` records a panic, a pointer
  followed to a destroyed process, or the return to main. `owed` is a history
  variable: the code of the process each waitpid names. `Exec` is `prepare_exec` in a
  fresh vfork child. In any other process it is `ReExec`: the parent is made the running
  process, the call returns into the program that made it, with switching blocked, and
  the kernel goes on from there; `ExecFaults` is either of them when there is no parent
  or it is gone. What becomes of memory is not modelled: the stack `reallocate_stack`
  replaces is not freed, and a second exec loses the place of the parent's program.
* `ProcessMemoryPool`: bitmap, lists and operations of the pool. `Search` is the
  code's loop from slot to slot; the allocating actions use its meaning
  (`FirstFit`) and the property `SearchIsFirstFit` compares the two in every
  reachable bitmap.
* `PageOwnership`: what the pool promises, one owner per page. `ProcessMemoryPool`
  instantiates it with the refinement mapping `Owner`.
* `MountPoints`: the tree of `mount_points.zig`. A path is a sequence of names, but
  the code compares bytes; `Rest` says which name starts with which, so that a
  mount point may end inside a name as it does in the code, and `Size` how many bytes
  a name has, since the child with the longest path is taken. `Descend` is one round of
  the search, `Find` as many of them as there are mount points, which is one more than
  can find a child; `Subtree` is what `deinit` works through. `given` is a history
  variable: the path a mount point was mounted with, of which the code keeps only
  the part below the parent.
* `UartReceive`: the receive interrupt (`Receive`, which runs to its end) and the
  reader in `UartFile.read`, one action per access to the ring buffer's head and
  tail. Both are plain fields that an interrupt changes; nothing stops the compiled
  code from loading them again at a use or from keeping what it loaded, so `seen`
  holds what a reader loaded last and every use takes either that or the present
  value. `RingBuffer.size` compares the two (`ReadSize`) and loads them again to subtract
  (`ReadDifference`), which may underflow: a panic, or a huge size, as the build
  checks arithmetic or does not. `taken`, `overflowed` and `torn` are history variables; `torn` says that an
  overflow came while a reader stood between its loads of head and tail and its store.
* `MkImage`: the converter. `phase` is the method of `Application` to run next; the
  loops over the relocations take one step per relocation (`ProcessRelocation`,
  `ProcessDataRelocation`); `failed` is wherever the Python code raises. The ELF file
  is a constant, a record of sections, words, symbols and relocations, and so is what
  the parser returns. Addresses count words, and the Thumb bit is left out.
* `YaffLoader`: extends `MkImage` with the loader, which runs on the image that was
  written: copying data and GOT (`ProcessData`), the first loop over the GOT
  (`ResolveGot`), and the three loops over relocations (`BindSlot`, `BindLocal`,
  `PatchData`). The composition is what the properties are about. A symbol is found only
  in a module with a GOT and, if the converter put it into data, with some `.data` or
  `.rodata` (`HasGot`, `KnownBase`). A relocation of a slot behind the GOT panics, or
  writes past it where the build does not check; a data relocation of a module without
  data writes to the address of an empty slice, or panics.
* `DiskImage`: both scripts over one file of cells, of which each knows what it
  belongs to. `WriteMbr` cuts off the file as opening it for writing does;
  `WritePartition` has a branch for each format and each way to fail;
  `RefuseBootloader` stands for everything `write_yasboot.py` or `pymbr` may reject.
* `SymbolLoader`: the command of the debugger, one gdb command per step, beside loads
  that log their five lines one by one. gdb's adding a file (`AddFile`) and the append to
  `_loaded_files` (`NoteFile`) are two steps, and an interrupt may come before, between or
  after them. `missed` is a history variable: the files an interrupt caught between, as
  long as gdb has any of them. So is `last`: the addresses
  of the last load of each module, if the log holds that load whole and nothing of
  another load of the module among its lines or after them.
* `MCProcessManager`, `MCProcessMemoryPool`, `MCMountPoints`, `MCUartReceive`,
  `MCMkImage`, `MCDiskImage`, `MCSymbolLoader`: exit codes, names, terminal settings,
  linked files, layouts and symmetry for TLC.
* `ProcessManager_proofs`, `ProcessSafety_proofs`, `ProcessMemoryPool_proofs`,
  `MountPoints_proofs`, `UartReceive_proofs`, `MkImage_proofs`, `DiskImage_proofs`,
  `SymbolLoader_proofs`: the theorems.

What programs do is a parameter: `Habits` names the things a program may do beyond
the basic vfork, exec, exit, wait (in the pool: map and unmap whole chunks). A run
with few habits shows what well-behaved programs can rely on, one with many shows
what the kernel keeps for any program.

## Runs

| run | question |
|---|---|
| `PM_Wild` | Do the lists, the wait relations and the borrowed stack stay consistent with siblings, orphans, waits for strangers and for the dead, and kills, if exec is called in fresh vfork children only? |
| `PM_Create` | With one child at a time: does waitpid report that child's code, are pids unique, does the scheduler agree with the core and the gate with its counter, with create_process preempted half way, allocations failing, calls refused and execs outside fresh vfork children? |
| `PM_Live` | If programs wait only for their own living children and end after them: no panic, no dangling pointer, nobody unpreemptible, never everyone waiting; does everybody ready run, every wait end, every dead process disappear? |
| `Pool_Whole` | Has every page one owner if programs unmap whole chunks and the kernel heap may fail? Is the search first fit? Does the pool implement `PageOwnership`? |
| `Pool_Wild` | Do the data structures keep their types in any use, `create_process` and partial munmap included? |
| `Mounts` | In whichever order mount points come and go: is lookup the longest match, is every mount point found under its path, is every file system deleted once? |
| `Console` | With an interrupt between any two accesses of the reader: are bytes given once and in order, is none lost, do reads of a line return (or panic in `size()`), and not empty? |
| `Image` | With up to two relocations of any kind and in any order: do the data words of a loaded module, and the slots of its GOT no symbol is bound to, mean what the linker meant, and are its exported functions and variables found at their places where the loader finds any? |
| `Disk` | For layouts careful and careless: is every written partition found under its entry, and does the bootloader keep them, installed once or again? |
| `Debugger` | With modules being loaded, files refused and calls interrupted: are no old symbols left, and has every module the addresses of its last load, files caught between gdb and the list excepted? |

Two runs expect a violation; each is a disagreement between the code and
what its comments say, with the lines in `PROJECT.json`:

* `Pool_Partial`: munmap of something else than one whole chunk clears pages that stay in
  their owner's list. In the trace a process unmaps an address inside its own page: no
  chunk starts there, the bit is cleared all the same, and the next process is given the
  page the first still has (`process_memory_pool.zig:24` says that a chunk has one owner).
* `Console_Overflow`: when the interrupt drops the oldest byte of a full buffer while
  a reader is about to move the tail, the reader's store moves the tail back onto the
  head and the whole buffer is lost, the newest byte included.

Other behaviour the models show and the properties state around, without a run of
its own (for those with a habit, add it to the run and TLC shows it):

* waitpid's action stores the right code, then the code of the child that ended last
  overwrites it (`process_manager.zig:363`; habit `siblings` with
  `WaitpidReportsItsChild`);
* waitpid of a pid that is gone returns with switching blocked (habit `lateWait` with
  `UserCodeIsPreemptible`);
* a child that outlives its parent follows a pointer to the destroyed parent (habit
  `orphans` with `NoFault`);
* vfork whose allocation fails keeps the pid and leaves switching blocked
  (`process_manager.zig:231`; habit `outOfMemory` with `PidsReturn` and
  `UserCodeIsPreemptible`), as an exec or a call that is refused leaves it (`badCall`);
* an exec outside a fresh vfork child makes the parent run although it waits, or although
  a child lives on its stack (habit `reExec` with `WaitersBlocked`, `BorrowedStackSafe`,
  `NoFault`, `UserCodeIsPreemptible`). "exec on currently running process is not supported
  yet" says `process_manager.zig:285`, and nothing refuses it. `PM_Create` shows what
  survives: pids, gate and counter, scheduler and core;
* the highest pid is given out once and never comes back: `release_pid`
  (`process_manager.zig:144`) refuses it. `PidsReturn` excepts that pid;
* a process that ends while nobody else is ready goes on spinning on its own stack,
  and can be destroyed there; `CurrentIsCore` allows that;
* `create_process` allocates its stack with switching enabled, so two allocations
  can find the same pages (habit `create` of the pool; `OneOwner` is checked and
  proved without it);
* two processes that read the console at the same time can be given the same byte:
  both load the slot before either moves the tail. `Console` and the theorem have
  one reader;
* an overflow between the loads of head and tail can make a full buffer look empty;
  and a reader that loads the byte at the tail it knows, but moves the tail the
  interrupt has moved, gives away the newest byte before older ones, which follow.
  `InOrder` and `LineReadReturnsInput` therefore end with the first overflow that
  comes upon a reader at the ring buffer (`torn`), not with the first overflow;
* `size()` underflows when the interrupt wraps the head around between its loads
  (`ring_buffer.zig:66-67`), which takes no overflow: `LineEndEndsRead` counts a reader
  that panicked there as one that returned, since a build that checks arithmetic has
  stopped. Where it does not check, the size is not zero and the read goes on;
* TCSETS leaves a canonical read the timeout and the minimum meant for a raw one, and a
  program that writes back what TCGETS gave it (`c_oflag` 0) gets raw and canonical at
  once: `WaitsForLine` says which settings really wait;
* a process that waits for one that `create_process` made, a stranger, makes
  `unblock_parent` panic when that one ends (habits `strangerWait` and `create` with
  `NoFault`);
* a mount point captures paths that continue its last name (`/mnt` and `/mnt2`):
  `LookupIsLongestMatch` leaves out paths in which a mount point `EndsInside` a name,
  `NothingIsHidden` does not;
* a mount point stays listed when the mount of its file system fails;
* a second slot of the GOT for a symbol that has one is dropped
  (`relocation_set.py:57`) and keeps the linker's word; a local relocation takes the
  slots from 0 on, whatever they hold (`relocation_set.py:52`);
* a constant a library exports from `.rodata` gets the section code of `.text`
  (`mkimage.py:705`) and is looked for in flash behind the text: `ExportsReachable`
  leaves constants out, and also a mark at the very end of the part in flash,
  whose linked address is that of the first word of data too. Local relocations towards
  data forget the plt (`mkimage.py:819`);
* the loader finds no exported variable, those in `.bss` included, of a module whose
  `.data` and `.rodata` are empty (`module.zig:280-286`), and no symbol at all of a module
  without a GOT (`module.zig:321-329`): `ExportsReachable` speaks of the others
  (`Findable`);
* the converter writes an index where the loader expects a flag in its lowest bit
  (`mkimage.py:810`, `relocation_table.zig:26`), and a header of 72 bytes where the
  loader's has 80 (`header.zig:109`): the two sides in this repository are of
  different versions. `EntriesNameTheirSymbol` therefore speaks of the image alone;
* opening the image again cuts off the disk `create_disk.py` has just sized
  (line 68): it ends with the last partition;
* a record survives a failed creation and a bootloader is then installed beside
  partitions that are missing;
* a partition with a given length, and every littlefs partition, makes
  `create_disk.py` fail (lines 113 and 139);
* "verify that yasboot fits in space between MBR end and first partition"
  (`write_yasboot.py:64`) is done for the partition listed first, which need not be
  the first on the disk (line 39): `BootloaderKeepsPartitions` and
  `InstalledDiskBoots` ask for nothing before it;
* an interrupt of the debugger's command between removing and adding leaves files in
  the list that gdb no longer knows, which the next call ignores; a log that ends
  inside a load mixes addresses of two loads. An interrupt while gdb adds a file is
  raised before the file is appended (`yasld_gdb.py:180-183`): gdb keeps it, no later call
  removes it, and its symbols stand beside those of later loads, against line 159 ("so we
  don't get stale/duplicate entries"). The three properties of `Debugger` leave such
  files out, as long as gdb has them; with `missed` kept empty TLC shows the rest.

### Bounds

Three process addresses and three pids let a parent have two children, a
grandchild exist, an address and a pid be used again, and pids run out. The
nesting counter is bounded by `MaxBlocked` (2) where the code would leave it
raised: one unbalanced call and one nested section show both effects. `PM_Wild`,
`PM_Create` and `Debugger` use symmetry: no address, and no number of a symbol file, is
special, and their properties are invariants and one action property, which each step
decides. The pool
has 3 or 4 pages for 2 or 3 pids, enough for holes of every size around a chunk,
with at most `MaxChunks` chunks for one pid.

`Mounts` has room for three mount points below the root and paths of up to three
names over `a`, `b` and `ab`, which starts with `a`: three levels of nesting, a mount
above an existing one, siblings of which one captures the other, and every order of
mounting and unmounting them. In the program all mounts happen at boot
(`main.zig`); the model allows what the module's interface allows.

`Console` has a buffer of four slots, which holds three bytes, six received bytes,
so that head and tail pass the end of the buffer and overflow in every position, and
reads of up to two bytes, enough for a line and its end. Three slots would be too few:
a byte can overtake another only in a buffer that holds three. `Settings` are those of
a shell, a polling program and an editor, one with a timeout and one both raw and
canonical.

`Image` converts files with a text of four words, perhaps initializers, a plt,
`.rodata`, data of no or two words, bss and a GOT of five slots, of which the loader
reserves three, and odd files: with a GOT of no word, and with neither data nor bss, of
one relocation each; the others with every list of up to two relocations out of seventeen, which cover
each type the code tells apart in each section it may be found in, and a symbol
defined in data, in text, hidden, or in another module. Two relocations are enough
for one to follow, repeat or overwrite the other. The files are those of a linker
script: sections one after the other, `.rodata` directly before `.data`
(`RodataAssumption`), and words that are addresses where a relocation says so.

`Disk` has sectors of two cells and layouts of up to three partitions at six places,
overlapping, touching and with gaps, longer and shorter than a block, plus one of each
kind that fails; the bootloader has up to three cells, the space in front of a
partition up to six.

`Debugger` has two loads of one or two modules whose lines mix in every way, each with
or without a `.text` or a `.bss`, any number of calls of the command, and two symbol
files (`Objfiles`), enough for an old and a new one of the same module; gdb refuses a
third. `Pool_Partial` has two processes and three pages.

Deadlock is not checked in the runs of the process manager, the pool, the console and
the converter: the system really stops when the root process ends or the kernel panics, a
pool whose pages are all lost allows nothing, a reader may panic in `size()`, and a
conversion ends.

### Fairness

`PM_Live` assumes that PendSV keeps coming (weak fairness of `ContextSwitch`: the
system tick raises it every 100 ticks, `irq_systick`) and that a process that is
given the processor again and again gets on with the kernel's own loops (strong
fairness of `KernelStep`: a slice is 100 ms, an iteration of these loops some
instructions). Nothing is assumed of programs: they need not call the kernel.

`Console` assumes weak fairness of the steps of a reader that has begun a read: it
polls in a loop of thread mode, and that a ready process runs again and again is what
`EveryoneRuns` shows of the scheduler. Nothing is assumed of the interrupt; only the
part before an overflow is promised, so bytes need not stop coming.

## Proofs

`ProcessManager_proofs` shows `Spec => []TypeOK` and `Spec => []GateAgrees` for
any set of addresses, any `MaxPid`, any habits. Type correctness is not inductive:
when a vfork child execs or ends the processor goes on with its parent, which
must be a process. The inductive invariant `IInv` therefore adds that a process
with a vfork context has a parent in `Proc` and that the counter is a natural
number that agrees with the flag; one lemma per operation on the table says that
it keeps the family ties (`SameFamily`), one per action that it keeps `IInv`.

`ProcessMemoryPool_proofs` shows type correctness for any use, and, if neither
partial munmap nor create_process is used (`Disciplined`), that no page is in two
chunks and that owned pages stay marked, for any pool size. The two properties
are inductive only together: a marked page is not given out, and an owned page is
marked.

It also shows, under the same discipline, `Spec => ImplementsOwnership`:
the pool implements `PageOwnership` for every size, the failure of the kernel's heap
included. The mapping `Owner` is a choice; `OwnerIsWhoOwns` says that the inductive
invariant leaves it none (`OneOwner` makes the owner
unique, `OwnedAreMarked` separates free pages from lost ones) and `HandOver` that what an
operation does to chunks and bitmap determines what it does to the owners. One lemma
per operation then maps it to `Claim`, `Lose`, `Return` or `ReturnAll`.

The module's last theorem is `SearchIsFirstFit`, although the search is a
recursive function: if the result were not the first gap, there would be a least place
where the search and `FirstFit` disagree, and one unfolding of the function refutes it.

`ProcessSafety_proofs` proves the invariants of the process manager, for any set of
addresses, any `MaxPid` and every `Habits` that its hypothesis admits. All of them
exclude the habit `reExec`, an exec outside a fresh vfork child: it makes a process run
that waits, so that the invariant does not survive it. Three parts of
the inductive invariant hold whatever else programs do: `ListsInv` (the process list and
the terminate list are duplicate-free and disjoint, and hold exactly the objects that
are allocated), `PlacesInv` (where an object is says which states it can have) and
`WaitsInv` (who waits for whom, and who knows it). While the system boots or runs
`InOrder` adds `StatesInv`, `BorrowInv` and `CoreInv`: what the states of parent, child
and running process have to do with each other at each program counter. The properties
are all weaker than this: `BorrowedStackSafe`, say, speaks of a child on its parent's
stack, but it takes `WaitsInv` to know that no wake-up meant for another wait reaches
that parent, and `ListsInv` to know that it is not destroyed.
From it follow `ListsExact`, `BorrowedStackSafe`, `WaitersKnown`, `WaitersBlocked` and
`CurrentIsCore`; `PidUnique` needs that a pid in the pool belongs to nobody on top.
The other properties hold for programs that keep a discipline, each with an invariant
of its own on top of the common one:

| theorem | programs do not | invariant | says |
|---|---|---|---|
| `NoPidIsLost` | use create_process; memory does not run out | `PidsHeld` | every pid but the highest is in the pool or with an object of either list |
| `ProgramsArePreemptible` | wait for the dead or strangers' pids, make calls the kernel refuses; memory does not run out | `GateHeld` | the counter is zero, or one in the loops at the end of an exit and of a waitpid that still waits |
| `WaitingNeverDeadlocks` | outlive their parents, wait for strangers | `Kin` | parents precede their children in the list and waits go from parent to child, so that the last one can run |
| `KernelNeverFails` | outlive their parents, or both wait for strangers and use create_process | `FaultFree` | the kernel that boots finds a ready process, and no step has found a dangling parent or nobody to switch to |
| `WaitpidIsRight` | have two children at once, wait for strangers, abort | `Asked` | the child somebody waits for knows that it is to report; once it has ended its code is in the cell and no child is left to replace it |

Each exclusion of the table is needed: with it lifted alone (in `NoFault` the two habits
together) TLC finds the property violated. That of `reExec` is needed for
`BorrowedStackSafe`, `WaitersBlocked`, `NoFault` and `UserCodeIsPreemptible`; the other
theorems share the invariant, and `CurrentIsCore`, `PidUnique` and
`WaitpidReportsItsChild` are model-checked without it (`PM_Create`).

`MountPoints_proofs` shows the three properties of the mount points, for any names, any
finite number of places, paths of any length and any file systems. `Tree` says what a mount
leaves and an umount needs: every mount point but the root is listed once, siblings
have different paths, and whatever is closed under children and has the root is all of
it. The last part replaces an induction over the tree: to show something of every
mount point, take the set of those that have it. In the same way `Leads` says which
states a search for a path passes: those in every set that has its start and is closed
under its steps (`Goes`). That the code's loop gets to where no step leads on
(`FindIsTheEnd`) is the pigeonhole principle: if each of its rounds found a child, it
would be at one mount point twice, and the first such would have a parent that it was
at twice before. Which child is the best is well defined because of two paths a third
starts with, the longer one starts with the other (`PrefixesAreOrdered`).

Neither property of the search is inductive without the other half of `IInv`, `Known`:
the given path of each mount point leads to it. A mount preserves it because a new
child that was preferred to an old one somewhere would have to start with that one,
which then would have been a step of the search that ended there
(`AddedHidesNothing`); an umount preserves it because no path from the root to what
stays goes through what is destroyed (`RemovedLeads`). `LookupIsLongestMatch` follows
for paths on which bytes and names agree: the search passes every mount point above
the path or, where it prefers another child, one whose path is longer still
(`PassesOrPassesBy`), since otherwise that child would hide a mount point.

`UartReceive_proofs` shows type correctness for any number of readers, with the
strengthening `HasRoom` (a reader that looks for a byte has room for it, which is why
a read never stores past its buffer), and, under the assumption `OneReader` and for
every buffer size, that nothing is lost before the buffer overflows, that bytes come in
order, and that a read that waits for a line does not return empty. None of these is
inductive: between the load of a byte and the store of the tail they say nothing of
what the reader holds. `IInv` adds `Synchronised`: what the reader remembers of head
and tail is what it has to be at each of its steps while no overflow has torn its
read, and the byte it holds is the one at the tail. `Ordered` says that the buffer holds
the newest bytes in order, all newer than what was given away; it survives an overflow
between two reads, `Gapless` does not. Both are stated without the remainders of the
ring, which the lemmas `RemainderBelow` and `RemainderAbove` take care of.

`MkImage_proofs` shows the five properties of converter and loader, for every linked
file that meets the assumptions below, every kind and list of libraries, and any
addresses of the part in flash and of the module's memory.

`DataEntriesLead` is arithmetic: a word at a place counted from the start of `.rodata`
or `.data` is the linker's word at that address (`DataWord` under
`RodataAssumption`), the GOT follows data and bss because the sections were accepted,
and two bits of section come off again by division. `EntriesNameTheirSymbol` needs both
directions between relocations and tables, and both are about loops that are over
when the image is written. `ConvertInv` therefore has, besides what later phases rely
on (sections accepted, `.got` there, what was collected are entries of the three types):
`EntriesOK`, every entry for a slot comes from a relocation of that slot; `LoopsOK`,
every relocation a loop has passed has its entry (`SlotDone`, `DataDone`, the latter with
where such a relocation can lie); and `ImageOK`, the image is what `BuildImage` makes of
the tables as they are. What a table holds is lemma `SelectFacts`: everything that is
selected, in `Seq` of what was selected from, and nothing else; `FirstOnesNameAll` says
that dropping repeated names drops no name. `Select` is a recursive function, and what it
returns is shown for each prefix in turn: the prefixes that have the property are all
of them because no least one can lack it (`UpTo`).

While the loader runs the converter's variables do not change, so that `ConvertInv`
goes on to hold (lemma `LoadingConverts`). `LoadInv` then says of every word of the module's memory what it is between
two steps: a word of data or bss is as it came (`Fresh`) until the loop over the data
relocations has passed an entry for it (`Patched`), from then on the address at run
time (`DataPart`); a slot nothing is bound to is resolved by the first loop and stays so
(`GotPart`). That it stays so is the point: a symbol or a local relocation writes two
words of its own slot only (`WriteSlotKeeps`), and a data relocation that hits a slot is
one of the linker's for its first word and writes the very address that is there
(`DataEntry`, `LeadsRunTime`). `BodyWords` connects the body of the image, nine sections
one behind the other without bss, with the linked addresses. `DataAsLinked` needs
`LoopsOK` once more: a relocation of the linker's has an entry, so that no address
stays unmoved. `ExportsReachable` needs only `ImageOK` and the types: the entry of an
exported symbol has its section's code, `Findable` makes the loader accept that code,
and the distance from the base the converter took off is the one the loader adds.

`DiskImage_proofs` shows type correctness and `BootloaderKeepsPartitions`, for every
layout, sector size and bootloader: the new image is four pieces put together, and the
lemma `FourPieces` says which piece a cell comes from, so that a cell behind the first
partition is the old one at the same place. `PartitionsFound` and `InstalledDiskBoots`
follow from `ImageInv`: once the record is written the table says of every partition
what the layout does (`EntriesInv`), and of a careful layout everything in front of the
cursor of the loop is in its place (`ContentsInv`), which each further partition leaves
alone as long as it lies outside; an installed bootloader is whole (`InstalledInv`).

`SymbolLoader_proofs` shows all three properties of the debugger's command, for any
modules, any log, whatever gdb refuses and wherever the user interrupts, with the
exception of `missed` in the properties themselves. `LoaderInv` has a
part for each of the two processes and one for what they share: `TargetInv`, every
line of the log says what its load did; `CommandInv`, the commands to come are of the
last call and give a module the addresses of its last load where the log has it whole;
`SymbolsInv`, gdb has at most one object for a file that is not `missed`, those still to
be removed while it removes, and only those of this call while it adds.

The assumptions of the theorems are those of the modules on their constants, which
TLC evaluates in the runs, and those named above. What linked files look like is assumed
in `MkImage`: `ElfAssumption` is the format; `RodataAssumption` and `AddendAssumption` are
what the linker script and ABS32 relocations of symbols give; `SlotAssumption` says that
entries of the GOT, eight bytes each for this compiler, are filled through their first
word, and that a literal in the code which refers to the GOT does not lie in the word
just before it. Nothing in `mkimage.py` checks any of them. Without the last one a literal
right before the GOT would be taken for its slot 0, since `int()` rounds towards zero
(`relocation_set.py:71`): `EntriesNameTheirSymbol` needs it. `MemoryAssumption` says that
addresses are natural numbers. `EraseAssumption` says that erase sizes are powers of two:
`create_disk.py:110` rounds with a bit mask, which is rounding for these only.

Every invariant of a passing run is a theorem, of the process manager under the
hypotheses above. Only model-checked are the liveness
properties (`EveryoneRuns`, `WaiterReturns`, `DeadAreReaped`, `LineEndEndsRead`), which
are beyond this prover. Safety of the pool for programs that unmap part of a chunk, and
with it the refinement, does not hold (run `Pool_Partial`), so that there is nothing to
prove.

## Plan

What comes next, in this order:

1. `FileDescriptors`: tables across vfork, dup and close, use of handles after
   unblocking.
2. `RamFs`: reference counts of nodes in use when unlinked; the registry of modules:
   user counts and the lifetime of shared data.
3. `MmcTransfer` and `PartitionFile`: retries and bounds.
4. Proofs: what `YaffLoader` binds to a slot, for which the two sides have to agree on
   the flag in an index first; that an image is written at all for the files the linker
   script produces; invariants of the modules above as they come.

## Not modelled

Semaphores and mutexes: nothing in the kernel acquires a semaphore (only tests do) and
`KernelMutex` is never instantiated, so that no use says what they must guarantee;
their two races are listed as hazards.

romfs is read-only; littlefs, fatfs, the C library and the Pico SDK are external
(their sources are not in the repository); board start-up, formatting, logging, the
generation of configuration and wrappers are text in, text out. In the pool,
lengths that lead past its end fail an assertion of the bitmap and are left out,
as are negative lengths; races inside the hash map are external. In the process
manager the file calls appear only through their effect on the gate, and an exec
whose program has no entry point, which changes nothing, is left out.
Writing to the console runs with interrupts disabled and touches none of the
receiver's state; the clearing of the ring buffer when the driver is loaded happens
at boot. The file systems' own mount and umount are external to `MountPoints`, and
`umount("")`, which no caller passes, is left out.

Of the converter, `__fix_offsets_in_code` is never called and the dumps of tables only
print. Byte order and alignment inside the image, the hash tables the loader searches
names with, and the Thumb bit are abstracted. Of the loader, the loading of children
is the constant `Provided`, memory never runs out, and the entry point, read only after
everything is relocated, is left out. `pymbr` is external: it keeps the table it is
given and may refuse one. A kernel that finds no partition, or an image shorter than
the disk, is beyond `DiskImage`. In `SymbolLoader` the standalone entry point, which
prints the same commands, is left out.
