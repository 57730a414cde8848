# Specification and proofs for the systems course repository

The repository holds five programs that do not depend on one another. This directory models
the ones with state that is hard to test, checks the models with TLC on small instances and
proves the central results about the kernel, `fork` and the shell with TLAPS for every size. Each definition names
the C code it stands for in its comment, and `PROJECT.json` ("map") gives the lines.

| part of the repository | what it is |
| --- | --- |
| `tp2-sched/sched` | the JOS kernel for several CPUs, with a round-robin and an MLFQ scheduler |
| `tp1-malloc/malloc` | an allocator over `mmap` with split, merge and in-place `realloc` |
| `tp3-filesystem/fisopfs` | a FUSE file system in memory, persisted to one file |
| `lab-shell/shell` | a shell with pipes, redirections and background jobs |
| `lab-fork/fork` | four exercises with processes and pipes |

---------------------------------------------------------------------------

## 1. Inventory

### Kernel: lock and start-up (`kern/spinlock.c`, `kern/init.c`, `kern/cpu.h`)

* State: `kernel_lock.locked` and its debugging record `kernel_lock.cpu`; `cpu_status` of each
  CPU; the privilege level in the trap frame.
* Operations: `spin_lock`, `spin_unlock` (and the `holding` check in both), `boot_aps`,
  `mp_main`, and the callers: `trap`, `env_run`, `sched_halt`.
* Interaction: `sched_halt` publishes `CPU_HALTED` and `trap` swaps it for `CPU_STARTED`; that
  handshake, with the privilege bits, is what decides whether `trap` locks.
* Hard: `holding` is two plain loads while others store; `boot_aps` waits for the other CPUs
  with the lock held; the monitor never gives the lock back.
* Correct if: one CPU at a time is in the kernel, neither check ever panics, start-up ends.

### Kernel: scheduler (`kern/sched.c`, `inc/sched.h`, `kern/env.c`, `kern/trap.c`, `kern/lapic.c`)

* State: the queues (linked through `next_env`), `mlfq_time_count`, the free list, `cpu_env` of
  each CPU, the one-shot timer of each CPU, and in each `struct Env` its status, parent, queue,
  time left and time used.
* Operations: `sched_yield` (downgrade, boost, scan, dispatch or halt), `env_alloc`,
  `env_free`, `env_destroy`, `env_run`, `env_change_priority`, the trap entry with
  `MLFQ_TIME_COUNT`, the timer interrupt, page faults, and the system calls that change who
  may run (yield, exofork, set_status, destroy, both ipc calls, the priority call).
* Interaction: everything above happens with the kernel lock, except `MLFQ_TIME_COUNT`, which
  `trap` executes first and which writes both a global and the fields of the environment that
  another CPU may be re-queueing at that moment.
* Hard: that race; environments destroyed while another CPU executes them; the timer, which
  runs only if somebody sets it to more than zero; starvation.
* Correct if: no environment runs on two CPUs, none is lost from the queues or the free list, a
  zombie is freed by its own trap and is freed, no runnable environment waits for ever, no CPU
  halts while somebody could run on it.

### Kernel: memory (`kern/pmap.c`, `kern/env.c`, `kern/syscall.c`)

* State: `page_free_list`, `pp_ref` of each page, the directory and tables of each environment,
  `env_ipc_recving`, `env_ipc_dstva` and `env_ipc_perm`, the TLB of each CPU; while booting, `nextfree`
  of `boot_alloc`, `kern_pgdir` and the static of `mmio_map_region`.
* Operations: `page_alloc`, `page_free`, `page_decref`, `pgdir_walk`, `page_insert`, `page_remove`,
  `tlb_invalidate`; above them `sys_page_alloc`, `sys_page_map`, `sys_page_unmap`, the page half of
  `sys_ipc_try_send` and `sys_ipc_recv`, `env_setup_vm`, `env_free`; at boot `i386_detect_memory`,
  `boot_alloc`, `page_init`, `boot_map_region`, `mem_init_mp`, and later `mmio_map_region`.
* Interaction: under the kernel lock, but the TLBs are those of CPUs that are outside of the kernel.
  A parent changes the space of its children, a sender that of whoever waits for a page.
* Hard: a mapping that is replaced by itself; a call that runs out of memory half way; pages shared by
  environments that end in any order; translations on another CPU; which pages are taken before there is a list.
* Correct if: `pp_ref` counts what refers to a page and free pages are referred to by nobody, tables are
  private, a TLB has nothing that the tables do not have, nobody gains the right to write, what an
  environment alone had is free again when it goes, the boot gives each page to one purpose.

### User library: fork and its fault handler (`lib/fork.c`, `lib/pgfault.c`, `user/dumbfork.c`)

* State: that of the kernel above, the contents of pages, and where a program is in `fork` and in `pgfault`.
* Operations: `fork`, `duppage`, `pgfault`, `set_pgfault_handler`; `fork_v0` and `dumbfork`, which copy.
* Hard: `fork` is ordinary code. Between any two of its calls, and on its own stack, which it is making copy-on-write, stores
  fault; the child runs as soon as it is started; memory ends in any call.
* Correct if: each process finds in its memory what it wrote there itself or its parent before the fork, and faults and forks end.

### malloc (`malloc.c`)

* State: a list of blocks and, inside each block, region headers linked both ways; `total_mmy`.
* Operations: `malloc`, `calloc`, `realloc`, `free`; below them split, merge with next, merge
  with previous, three ways of growing in place, unmapping an empty block.
* Hard: sequences of calls that leave a link stale; size arithmetic at a split; headers that
  stay in memory after a merge and are read again through a stale link.
* Correct if: regions tile their block, what is in use is what the program holds and is as long
  as it asked, `total_mmy` is what is mapped, a held region is never merged away.

### File system (`fs.c`, `fisopfs.c`)

* State: two bitmaps, the inode table, the data blocks; a state file.
* Operations: mknod/create, mkdir, unlink, rmdir, truncate, write, flush, destroy, init; below
  them block allocation with one indirect block, directory entries, `serialize`, `deserialize`.
* Hard: one of several steps fails because the disk is full; the boundary at the indirect
  block; what survives unmounting and mounting; long sequences of legal calls.
* Correct if: no block has two owners, an inode has the blocks its size needs, the tree and the
  inode bitmap agree, an append is done or not done, a load gives back the files of the last flush.

### Shell (`lab-shell/shell`)

* State: the tree of a line and its tokens, the status of the last command, children, descriptors and pipe ends.
* Operations: `parse_line` and what it calls, `run_cmd`, `exec_cmd`, redirections, `handle_all_pipe_cmds_execution`, `free_command`.
* Hard: `waitpid` for anybody just before `waitpid` for the foreground child; ends of a pipe in four processes; a call
  of several that fails; the buffer of the line cut in place and tokens freed by two functions.
* Correct if: a program gets the words, variables and descriptors that its part of the line says, nobody of a foreground
  line is left when the prompt is back, and it comes back.

### Fork exercises (`lab-fork/fork`)

* `primes.c`: a sieve of processes in a chain of pipes; a child runs inside the calls of its ancestors and returns through them.
  `pingpong.c`: two processes, two pipes. `xargs.c`: lines of stdin in batches, with a buffer per line. `find.c`: a recursive walk over
  a tree that others change.
* Hard: a write end too many leaves everybody to the right waiting; stdio's buffer is copied by `fork`; `getline` allocates when it
  fails, too; a directory goes between `readdir` and `openat`.
* Correct if: results are right, descriptors and buffers are given back once on every path, every process ends.

### Not modelled

The console, the interrupt controller, the firmware's tables, the assembly of boot and context switch, formatting and strings, the grading scripts
and the tests keep no state that these properties depend on. Section 6 names what is left out of parts that are modelled.

The hazards found in reading are in `PROJECT.json`, each at its line, with the properties that
cover it or the reason why none does.

---------------------------------------------------------------------------

## 2. Plan

All modules of the plan are written. In the order in which they build on one another:

| module | of | proved |
| --- | --- | --- |
| `Mutex` | abstract lock | |
| `KernelLock` | spin lock, start-up, trap entry and exit; implements `Mutex` | all safety |
| `AbsScheduler` | who may run where | |
| `Mlfq` | scheduler, environments, traps, system calls; implements `AbsScheduler` | all safety |
| `PageTables` | the functions of `pmap.c` on pages, counts and tables, as operators | their lemmas |
| `Memory` | page system calls, IPC with pages, life of an address space, TLBs; uses `PageTables` | all |
| `BootMemory` | `mem_init` and `mmio_map_region` | all safety but that pages suffice |
| `PrivateMemory` | what `fork` promises | |
| `Cow` | the forks and the fault handler, on `PageTables`; implements `PrivateMemory` | all safety |
| `Malloc` | allocator | all safety |
| `FisopFs` | file system | |
| `Pipes` | descriptors and pipes, the external part of the two labs | |
| `Sieve`, `PingPong`, `Xargs`, `Find` | the four programs of `lab-fork` | all safety but the numbers that `Sieve` prints |
| `Shell` | processes, descriptors and waits of the shell; uses `Pipes` | all safety |
| `ShellParse` | from a line to a tree, to arguments, to freed memory | |

How the modules compose: `Mlfq` with `KernelLock` by assume-guarantee, for `Mlfq` treats what a CPU does between
`spin_lock` and `spin_unlock` as its own steps with `lock` held by that CPU, which is what
`KernelLock` implements (`ImplementsMutex`). `Memory` makes a kernel entry one step for the same reason and leaves
to `Mlfq` which environment runs next. `Cow` applies the system calls of `Memory` to the tables of `PageTables`; that no TLB is stale while
it does is `TlbsCoherent`. `Shell`, `Sieve` and `PingPong` run on `Pipes`.

What could come next: theorems about the parts of `FisopFs` that do not need a fold, and about what each stage
of `Sieve` lets through; and FUSE's threads, once the file system guards against them.

---------------------------------------------------------------------------

## 3. What models what

### KernelLock

One action per memory access of `spin_lock` (`LockTest`, `LockTestOwner`, `LockXchg`,
`LockRecord`) and of `spin_unlock` (`UnlockTest`, `UnlockTestOwner`, `UnlockForget`,
`UnlockXchg`). `pc` says where a CPU is and `after` where it returns to. `StartAp`, `ApMain`
and `BootDone` are `boot_aps` and `mp_main`; `EnvRun`, `SchedHalt` and `SchedMonitor` leave the
kernel; `Interrupt`, `TrapStatus` and `TrapFromUser` are the head of `trap`. An `xchg` that
reads 1 changes nothing and is not a step. What a CPU does with the kernel between is `Mlfq`.
Memory is sequentially consistent in the model; on x86 the only store that could be
seen late is `owner`, whose reader compares it with itself.

### Mlfq

`pc` marks where a CPU is:

    boot -> sched                                          MpMain
    user, hlt -> count -> times/remaining/in_queue -> lock  TrapEnter, StoreCount, StoreRemaining, StoreInQueue
    lock -> sched or ret                                   one action per handler
    ret -> user or sched                                   TrapReturn
    sched -> boost -> boosting -> pick                     Downgrade, NoDowngrade, Boost, BoostMove, BoostEnd, NoBoost
    pick -> user, hlt or monitor                           Pick, SchedHalt, Monitor

* `MLFQ_TIME_COUNT` runs without the lock. Its load of the counter and each of its three stores is a step, and
  the two stores to the environment may come in either order.
* With the lock held a handler is one step, `sched_yield` is one step per environment moved. The stores of the macro on other CPUs
  interleave with them at that grain. The boost is cut into one `env_change_priority` per step
  because it resets the very fields the macro stores.
* A queue is the sequence along `next_env` from `queues[i].envs`. `Scan` is the order in which
  `sched_round_robin` walks it from the successor of `curenv`.
* The timer: `ticr` is the initial count, `tccr` what was left when the trap came (any value from 0 to `ticr`),
  `irq` says that it expired while interrupts were off. `TIMER_SET(0)` leaves a timer that never
  fires, as `kern/lapic.c` programs it.
* `MLFQ_SCHED` selects the build. `LIBRARY` says whether programs use the system calls as
  `lib/fork.c`, `lib/ipc.c` and `user/dumbfork.c` do: set a child's status once and to
  RUNNABLE, pass valid addresses to receive, do not destroy a child twice. With `LIBRARY`
  FALSE they call with whatever the kernel accepts. `fresh` is a history variable for this discipline.
* Left out: statistics; the generation in an environment id (an id is not reused, so a
  call with an old id fails, which is `SysOther`); spurious and keyboard interrupts; address spaces and pages, which are in `Memory`. `Count`
  caps `mlfq_time_count` at `MLFQ_BOOST`, the only value it is compared with.

`AbsScheduler` has only what each environment may do and what each CPU executes. `Mlfq` maps to it
by `AbsState` and `AbsRunning`: RUNNABLE is ready, DYING is doomed, and a CPU executes its
`cpu_env` as long as that one is RUNNING or DYING.

### PageTables and Memory

`m` is a record of everything `pmap.c` keeps below `UTOP`, and `PageAlloc`, `PgdirWalk`, `PageInsert`, `PageRemove`, `PageDecref`
are operators from states to states named for the functions. The page that `page_alloc` returns is a parameter, any free one, or
`None` when there is none. A page is referred to from *places*: a directory, an entry of a directory, an entry of a table; `Refs` is the set that `pp_ref` should count.

`Memory` has one action per system call that changes an address space, with the kernel entry and the return in it, `Timer` and `TrapOfZombie` for the
other traps. A call that fails is an outcome of the same action and leaves what the code leaves: `sys_page_map` fails only before it changes anything,
`sys_page_alloc` may lose a page and `sys_ipc_try_send` a mapping. `tlb[c]` is the worst case, every translation that CPU `c` could have
walked to since its last `lcr3`; `page_remove` takes one out of the executing CPU's only, as `invlpg` does. `LIBRARY` is what the library's programs do: they change a child's space before
they start it. `KEPT` is how many pages `page_init` may keep from the list.

### BootMemory

`mem_init` line by line: the size of memory from the NVRAM, `boot_alloc` for the directory, `pages` and `envs`, `page_init`, the maps of the kernel's half with the tables they
take from the list, the stacks of all CPUs; then `mmio_map_region` by drivers. Addresses are numbers on a machine that is small in every
direction; the proportions that matter (tables, gaps, the first 4 MB that `entry_pgdir` maps) are those of the real one. The tests in `pmap.c` are there as what they
leave behind: `check_page_free_list(1)` puts the low pages first. `page_init` builds the list from its end, so that it has the free pages from the greatest to the least (`Descending`);
each table that `boot_map_region` adds is the next page of it.

### Cow and PrivateMemory

Each action of `Cow` is one call of the library: `duppage` is a step for the child's entry and a step for its own, a fault
is alloc, copy, map and unmap. Between any two of them the parent pushes on its stack, which may be copy-on-write
by then, and so may begin a fault inside a fork. `View` is what each process finds in its memory, and that implements `PrivateMemory`, in which a store changes one memory and a fork copies one; the
stack, which the parent goes on using while it is copied, comes with any value.

`pgfault_handler` is the variable of `lib/pgfault.c`: it lies in the program's memory and so the child inherits it, while `upcall` lies in `struct Env` and is not inherited. `kinds`
are the forks that a program uses, any of them but `fork` together with the version it replaced. Any call may find no page, and then the library panics where it calls `panic`, or goes on where it does
not look; `refused` says that this has happened.

### Sieve, PingPong, Xargs, Find

A process is a record: where it is, which descriptors it is closing one after the other, what its frames will do when they return. Every call may fail up to a bound, and either process of
`PingPong` may be killed between any two calls. In `Sieve` `buffer` is what stdio holds and `fork` copies. In `Xargs` a line stands for its buffer, and the child whose `exec` failed goes on in the
parent's code with a copy of the heap, as in the C code. In `Find` what `readdir` returns of entries that come and go meanwhile is free.

### Shell and ShellParse

`Shell` starts from trees: `ForkCommand`, `WaitAny` and `WaitForeground` are `run_cmd`; `ExecBack`, `ExecRedir` and `ExecProgram` are `exec_cmd`; `MakePipe` to `WaitRight`
are `handle_all_pipe_cmds_execution`, one step per call. `Commands` are the trees of the lines and of their parts. Processes and pipes run out (`NewPids`, `FreePipes`), and any of the
calls in `Failing` may fail besides. The programs are external and reduced to how they treat a pipe: writing for ever, copying, leaving first, failing, not existing, never ending.
`ShellParse` has the text: the buffer is cut in place, a block of memory is named after the place in the buffer it was allocated for, and the properties say the same thing of the line as it was
typed, from the other end.

### Malloc

Memory is counted in units of one header (32 bytes), so `ALIGN4` is the identity on the sizes
of the model. `heap.header` is what lies at each address a header could be at; headers of merged regions stay there, and
`Write` lets a program write over them, but only over those that some `prev` link still leads to, as no
other write can be noticed. `Regions` is what the `next` links of a block lead to; the search, which follows them, is `FindFree`: of
the regions that fit it takes the first, in the order in which `Precedes` has the blocks in the list and the regions in a block. `Plus` is `size_t` addition. `Mallocs`, `Reallocs`, `Free` and what they call keep
the branches of the functions of the same names. `sane` becomes FALSE when `free` or `realloc` follows a
stale `prev` to something that is not the region before: from there on the library corrupts its own headers
and the model ends.

### FisopFs

A unit of a block is a piece of a file, a directory entry or a block number. `FiubaWrite` is the loop of
`fiuba_write` unit by unit, so that a disk that fills up in the middle of a buffer leaves what the code leaves.
`AllocateNewBlock`, `DeallocateBlocks`, `FillWithNullBytes`, `TruncateInode`, `NewInode`, `RemoveInode`
follow the functions of those names. `Asked` is what the kernel's path lookup guarantees about a path it passes to
FUSE; the kernel is not part of the repository.

The state file (`image`) is a sequence of cells: the inode bitmap, then for each inode its struct and the units that `serialize_inode`
writes. `Persist` writes from the start and does not cut: of a longer file the rest stays. `Deserialize` reads cell after cell, as much as the
sizes that it has read ask for, so that a file that was written out of step is read out of step: a struct read as data is `Raw`, data read as a struct is one of
`Garbage` (bound: the same for all such inodes of a load, without blocks). It follows the code in reading the inode bitmap to where `INODE_BITMAP` points before there is a superblock,
which is over the data bitmap, and in calling `fiuba_write` for what it reads, which takes blocks and whose result nobody looks at. `Mount` is `load_persist` and, when that fails, `init_fs` over
whatever was loaded so far. `fisopfs_flush` writes the file, `Remount` is `fisopfs_destroy` and the `fisopfs_init` of the next process,
`Crash` the death of a process and the `fisopfs_init` of the next one, which finds what was last flushed. `saved` is a history variable: what the file system was when
the state file was last written. A struct and a unit are one cell each, which they are not in the code: where exactly a read out of step lands differs,
that it does is the same.

One operation is one step: FUSE's threads, which the code does not guard against, are left out and
listed as a hazard. Reading is left out: it changes only the access time.
Directories that outgrow one block's whole entries are left out: 264 does not divide 32768, and an
entry that lies across two blocks is read by `iterate_over_dir` in a way the model has no unit for.

---------------------------------------------------------------------------

## 4. Runs

A property that is a conjunction is made of named parts; where a part is what a reader looks for, it is in brackets.

| run | instance | properties and what they show |
| --- | --- | --- |
| `KernelLockMC` | 3 CPUs, fair | `LockIsSafe` (`MutualExclusion`, `NoPanic`, `HoldingIsTrue`), `ImplementsMutex`: the lock excludes and its own checks never fire. `BootEnds`, `OwnerLeaves`: start-up ends, an owner leaves or is in the monitor |
| `MlfqSmp` | 2 CPUs, 2 slots, 2 queues, every trap | `WhoRuns` (`RunningIsCurrent`, `ExclusiveExecution`, `MonitorMeansIdle`), `Bookkeeping` (`QueueMembership`, `FreeListExact`), `ZombieFreedByItsTrap`, `ImplementsAbsScheduler`, `RightChoice` (`HaltsOnlyWhenIdle`, `BestPriorityRuns`), `OnlyBoostRaises`, `OnlyInterferenceStopsTimer` |
| `MlfqUp` | 1 CPU, 3 environments, 4 queues, base timer 2, boost 4; yields, page fault upcalls, other calls; fair | `Preemptible`, `RightChoice`, `NoStarvation` |
| `MlfqZombies` | 2 CPUs, 2 slots, fair | `ZombiesAreFreed` |
| `MemoryMC` | 2 CPUs, 2 environments, 5 or 6 pages; boot of machines of 8 to 60 pages | `PagesCounted`, `SpacesSound`, `TlbsCoherent`, `MemoryIsPrivate`, `MemoryComesBack`: counts, tables and TLBs agree, nobody gains rights, everything comes back. `BootPagesApart`, `KernelMapRight`: what `mem_init` leaves |
| `CowMC` | 2 environments, 1 or 2 forks, 9 or 15 pages, fair | `SharingIsSafe` (`SharedIsReadOnly`, `FaultsCanBeTaken`, `NobodyDies`), `MemoriesArePrivate` (the refinement), `StoresAndForksEnd` |
| `Malloc` | 2 mappable blocks, sizes 6/6/12 headers, requests 0, 2, 6, 12, first fit | `Tiling`, `MemoryIsHeldOnce` |
| `FisopFs` | three disks of 4 inodes and 5 or 6 blocks of 4 units, one in each behaviour | `StorageSound` (`BlocksAreOwned`, `SizeIsCovered`), `TreeIsSound`, `AppendsAllOrNothing`: what a full disk leaves. `LoadableComesBack`: what a load gives back |
| `LabForkMC` | the four programs, one in each behaviour, fair | `NumbersGetThrough`, `XargsIsRight`, `SearchIsRight`, `DescriptorsClosed`, `AllEnd` |
| `ShellMC` | pipes, jobs or the text of a line, fair | `DescriptorsRight`, `WaitsRight` (`ForegroundIsReaped`, `StatusIsTheCommands`), `LineMeansWhatItSays`, `ComesBack` |

Two runs end in a violation, and show that the code is not what its documentation says:

* `FisopFsReload`, `NoInodeTwice`: `deserialize` computes where the inode bitmap goes before it has the superblock; after a remount inodes in use are
  handed out again, so that two names have one inode, and there are no links (`fisopfs/README.md:47`).
* `MlfqStint`, `TimeInQueueAccumulates`: the scheduler's `README.md:104` says that `time_in_queue` is the time an environment has used in its queue, and line 116 that processes that compute
  degrade; `MLFQ_TIME_COUNT` (`inc/sched.h:32`) assigns to it the length of the last stint. A stint lasts at most one base timer, and queue `q` asks for `(q + 1) / 2` of them, so
  that downgrades end in queue 2 of the eight, whatever the timer (theorem `MlfqDowngradesEndInQueue2`): the queues below it are reached only through the priority call.

What else the documentation says and the code does not do is in section 6.

### Bounds, and why they are enough

* Two CPUs show every race of a lock holder with a CPU that is entering; three in `KernelLock` add two
  contenders for one owner and a second CPU to start. Three environments, in `MlfqUp`, give a queue with a head, a middle and a tail, and the theorems are for any number; two slots of which one
  is taken give every life of a child beside its parent.
* Two queues have a first and a last; `MlfqUp` takes four so that there is one below the last that a downgrade reaches. A base timer of 1 has
  no time between 0 and its end, and `MlfqUp` takes 2 for that; the threshold and the quotas are compared in exact tenths and halves.
* In `MemoryMC` the first environment has a directory, a table and a page. With two pages of address space (session `two`) two physical pages are free: pages are
  mapped twice, moved and replaced, a child takes a directory and a table, and memory ends in every call. With one page of address space (session `one`) three are free, which is
  what it takes to send a page to a child. `KEPT` is 0 or 1, so that a page may lie outside of the list for ever.
* The boot machines have tables of 32 entries and pages of 4 bytes; their memory ends on every side of what the cases of `page_init` compare with, and ends before the kernel does, so that the
  panics happen. There are machines without extended memory, with some, and with memory above 16 MB; there is none with more than the kernel's window can map, 256 MB.
* `CowMC` has four settings. `once`: one fork of a program with data and stack. `again`: two forks, the second of a stack that is copy-on-write already. `copies`: the two forks that copy, of a program
  with text. `low`: nine pages, with which a fork, a `dumbfork` and their faults run out of memory at different calls. One bit is enough to tell two writers apart, as what is compared is whose value it is.
* In `Malloc` 12 headers are a block for the largest request and 6 for the small ones; the limit of 24 lets two small blocks, or a small and a large one, be mapped and refuses
  two large ones; four regions of the minimal length fit into the large block, enough for every case of `realloc` with both neighbours.
* `FisopFs` has three uses of a disk (`use`). `tree`: 5 blocks, 2 of an inode direct, two names, paths of one and two names, no state file. Five blocks are fewer than what two inodes can ask for; a write of 7 units
  fills one block and most of a second, a second one needs the third block, which is the first indirect one. Truncation to 2 both cuts (7 to 2) and grows (0 to 2).
  `files`: 6 blocks, 3 direct, two files, saved once. A file of 5 units fills a block, and so does a root directory with both files in it: at the end of each a load takes a block.  `nested`: 5 blocks, 3 direct, a
  directory with one file in it, saved twice, in any order of flush, unmount and death, so that the second state file is longer or shorter than the first, in step with it or not, and a load fails in the middle.
  `Saves` bounds how often the file is written; after the last time it is only loaded. `GarbageSizes` is 0 and 1: an inode read out of step asks for no more data or for one unit more.
* `Onward` says whether the model goes on after a state file was read, or after a directory without `.` and `..`, has broken what the invariants speak about.
  It is FALSE in the run `FisopFs`: every sequence up to the first load, and the load itself. `FisopFsReload` needs the steps after it.
* `LabForkMC`: primes up to 11 are five stages, so that three ancestors of one process are returned through, with pipes that hold a single number, on a terminal and into a file; one
  failed call anywhere, two in `PingPong` and `Xargs`, a death of a process counted as one. No line to 8 lines in commands of 3: up to two full ones and every remainder. Trees of 4 names have every shape up to depth 4, two of them come or go.
* `ShellMC`: pipes of two to four commands hold one item, which makes a writer wait; three lines let a job end before, between and after two foreground commands;
  one call fails in either, whichever: `pipe`, `dup2`, the shell's `fork`, and both of a pipe. Eight processes and three pipes are exactly what the pipe of four commands takes. Every line of up to five characters over the seven that the parser tells apart, and every sequence of up to four
  words that mean something to it.

`MemoryMC`, `CowMC`, `FisopFsAllMC`, `LabForkMC` and `ShellMC` each hold several machines whose behaviours are disjoint (`session`, `setting`, `use`, `program`); each machine is checked as if it were alone.

Symmetry is used only where no liveness is checked. CPUs and environments are interchangeable in `Mlfq` because the machine, that
is the boot CPU and the order of `envs[]`, is chosen in `Init` among all of them. In `MemoryMC` pages are never compared but for equality; the sixth is not in the set, for the sessions
differ in whether it is free. Slots in `Malloc` and names in
`FisopFs` are never compared but for equality. The `View` of `FisopFs` hides what the code cannot read any more: the contents of blocks that are neither marked nor owned, and block
numbers behind an inode's last one. `BlockN` and `InodeBlock` ask `block_amount` first, and a block is written before it counts as part of a file.

Deadlock is not checked where the system may stop: the monitor is a loop that never ends, programs end, memory may run out with everybody waiting, and in `Malloc` and `FisopFs` the model ends on
purpose (see above). That nobody waits for ever is a liveness property where it holds (`OwnerLeaves`, `StoresAndForksEnd`, `AllEnd`, `ComesBack`).

### Fairness

* Every CPU executes its own instructions: weak fairness of each CPU's kernel steps and of its trap entry. User code
  and `hlt` are left because the timer was set and fires: on one CPU always (`Preemptible`), on several but for the one way that `OnlyInterferenceStopsTimer` names,
  which takes an upcall, and `MlfqZombies` has none.
* Strong fairness of the steps that need the lock (`MpMain`, `Handler`). `spin_lock` gives no order among the waiting CPUs; what
  is assumed is that one that tries for ever gets it once. The lock is free again and again because its owner leaves (`OwnerLeaves`) or is in the monitor.
* Strong fairness of `TimePasses` and `LeaveInTime`: traps cost time. Without the first a program that traps at
  the very instant it is dispatched, always, would stop the boost counter; without the second the kernel would always return after the timer it is about to replace had expired.
* The prompt of `ShellMC` comes back unless somebody is `Stuck` for ever: the shell, whose own fork failed, waits for a server in the background; or the process of a pipe, whose second fork failed, waits for
  a writer while it holds the only read end. `ComesBack` says that there is no third way; the code has these two (section 6).
* `NoStarvation` is checked on one CPU. On several the unlocked counter can lose increments (section 6), and starvation is then
  a matter of how often, which fairness cannot express.
* `CowMC`: an environment that is in a fault or in a fork takes its next step, which is `NoStarvation` of the scheduler. Nothing makes a program write, fork or end.
* `LabForkMC`, `ShellMC`: each process takes its next step when it can, as any scheduler of a Unix does; a call that would block is not one that can. Nobody is made to type a
  line, to create a file or to be killed.

---------------------------------------------------------------------------

## 5. Proofs

All theorems hold for every value of the constants that the named assumptions allow: any set of CPUs, any finite
set of environments, any number of queues, any timers, both builds; any number of pages, any layout of tables, any program that forks;
any lines, any number of processes and pipes, any number of lines and of arguments per command, any number of failing calls;
any sizes of blocks and regions, any limit, any finite set of places for blocks, both search strategies.

| module | theorem | argument |
| --- | --- | --- |
| `KernelLockProofs` | `KernelLockIsSafe`, from `KernelLockMutualExclusion`, `KernelLockNoPanic`, `KernelLockHoldingIsTrue` | one inductive invariant `IInv` |
| `KernelLockProofs` | `KernelLockImplementsMutex` | the `xchg` that wins is `Acquire`, the one that clears is `Release`, every other step is a stutter |
| `MlfqProofs` | `MlfqTypeOK` | `TypeInv`, the types with what the timer registers and the program's trap say of each other |
| `MlfqProofs` | `MlfqWhoRuns`, from `MlfqExclusiveExecution`, `MlfqRunningIsCurrent` and `MlfqMonitorMeansIdle` | `CoreInv`, assuming `LIBRARY` |
| `MlfqProofs` | `MlfqBookkeeping`, from `MlfqTypeOK`, `MlfqQueueMembership` and `MlfqFreeListExact` | `CoreInv` with `ListedInv`, assuming `LIBRARY` |
| `MlfqProofs` | `MlfqRightChoice`, from `MlfqHaltsOnlyWhenIdle` and `MlfqBestPriorityRuns` | `CoreInv` puts whoever is RUNNABLE into a queue, and the scan passes everybody in it; assuming `LIBRARY` |
| `MlfqProofs` | `MlfqOnlyBoostRaises`, `MlfqZombieFreedByItsTrap` | `CoreInv`, action by action, assuming `LIBRARY` |
| `MlfqProofs` | `MlfqImplementsAbsScheduler` | `CoreInv`, step by step, assuming `LIBRARY` |
| `MlfqProofs` | `MlfqPreemptible` | `TickInv` with `RemainsInv`, assuming one CPU; for any calls, page fault upcalls included |
| `MlfqProofs` | `MlfqOnlyInterferenceStopsTimer` | `TypeInv` with `SilentInv`, action by action; for any number of CPUs and any calls |
| `MlfqProofs` | `MlfqDowngradesEndInQueue2` | `SinkInv`, assuming that programs make no priority call (`"change_prio" \notin Calls`) |
| `MemoryProofs` | `MemoryPagesCounted`, `MemorySpacesSound`, `MemoryPrivate`, `MemoryFreed` | `MemInv` |
| `MemoryProofs` | `MemoryTlbsCoherent` | `MemInv`, assuming `LIBRARY` |
| `MemoryProofs` | `BootPagesAreApart`, `BootDevicesApart` | `PagesInv`; `DevicesInv`; both assuming `Geometry` |
| `MemoryProofs` | `BootLayoutIsRight`, `BootMapsOnce` | `BootInv`, assuming `Geometry` and `Roomy` |
| `CowProofs` | `CowMemoriesArePrivate` | `CowInv`, step by step: a store that finds `"w"` is `Write`, `StartChild` is `Fork`, every other step but an end is a stutter |
| `CowProofs` | `CowSharingIsSafe`, `CowTypeOK` | `CowInv` |
| `ShellProofs` | `ShellWaitsRight`, `ShellDescriptorsRight`, `ShellTypeOK` | `ShellInv` |
| `LabForkProofs` | `CommandsGetTheirLines` | `XargsInv` |
| `LabForkProofs` | `FindIsRight`, `FindClosesDirectories` | `FindInv`, for any number of names (`N \in Nat`) |
| `LabForkProofs` | `PingPongAnswers`, `PingPongCloses` | `PingPongInv`, assuming `PingPongConstants` |
| `LabForkProofs` | `SieveEndsAreNeighbours`, `SieveCloses`, `SieveTypeOK` | `SieveInv`, assuming `SieveConstants` |
| `MallocProofs` | `MallocInvariant`, and from it `RegionsTile` and `WhatIsHeldIsInUse` | `MallocInv`, assuming that no request wraps when a header is added (`NoOverflow`) |

*Why `IInv`.* Mutual exclusion alone does not survive a step: it needs that `locked` is exactly "somebody owns"
(`LockedInv`), that the record names the owner between the two stores around it and nobody who does not own (`OwnerInv`), that only a CPU that
halted finds `CPU_HALTED` in `trap` (`HaltedInv`), and that `after` leads a caller of `spin_lock` to a place inside and one of
`spin_unlock` to a place outside (`ReturnInv`).

*Why `CoreInv`.* `CoreInv = TypeInv /\ ControlInv /\ QueueInv`. A dispatch is safe because a RUNNABLE environment is nobody's
`cpu_env` (`RunningIsCurrent`, read the other way round, and `KernelInv` for the CPU in the kernel). It stays so because a send or a
`set_status` wakes only environments that are blocked (`WaitInv`: whoever is receiving, or was just forked, is not executing) and because `exofork` takes only free slots (`FreeListInv`).
`LockInv` gives what makes each of these a step of one CPU. `QueueInv` is needed for control, too: `sched_halt` drops `cpu_env`, and were its RUNNING
environment in no queue, the scan would not have found it, and a RUNNING environment without a CPU would be left behind.

*The scan.* `sched_round_robin` starts behind `curenv`, so "the first eligible one" is a statement about the rotated queue. `RotationAt` and
what follows from it show that a rotation has every member of the queue, so that an environment that is RUNNABLE and queued would have been met.

*Why `ListedInv`.* `CoreInv` says that what is listed is free. That nothing free is missing, and nothing listed twice, is another
invariant: `env_free` pushes only what was live, hence unlisted, and `env_alloc` takes off what becomes live.

*Time.* `SinkInv` bounds what is ever loaded into the timer of a CPU with an environment, hence both fields that `MLFQ_TIME_COUNT` stores, by the
base timer; with `MLFQ_BASE_TIMER > 0` the test of queue 2, `2 * t >= 3 * MLFQ_BASE_TIMER`, is then never true. A page fault
upcall is the one way into user mode that takes what is left of the time as it is. On one CPU that is what the timer showed at the trap (`RemainsInv`), for nobody else stores or resets it, and 0 only if the timer had expired, so that its
interrupt is pending (`TickInv`). On several another CPU may boost the environment, or its parent change its priority, between the store and the lock, and both reset its time; `MlfqOnlyInterferenceStopsTimer` says that
nothing else leads there.

*Why `MemInv`.* Its heart is `Sound(mem)`: types, `pp_ref[p] = Cardinality(Refs(p))`, nothing refers to a free page, and a page that is a directory or a
table is referred to from that place alone. None of the four survives a step without the others: a decrement frees the page only if the count was true, and `page_alloc` gives a page that can become a
table only if nobody refers to it. `PageTablesProofs` has one lemma for each function of `pmap.c`, and under them one fact: when what a place holds is replaced, the references to the old page and to the new one change
by that place and no others do (`Replaced`). `page_insert` raises the count before it removes the old mapping, and the case where both are the same page is why `PageInserted` is a lemma of its own.
`env_free` is proved without counting decrements one by one: the places of the environment become empty, and a page is freed exactly if all its references were among them.

The rest of `MemInv` is what the system calls need. `SpacesLive`: whoever is not FREE has a directory. `CpuInv` and `WaitInv`: a space that changes belongs to the caller, to a child that does not run, or to
a receiver that waits, hence is on no other CPU, so that `invlpg` there is enough; that is the proof of `TlbsCoherent`, and `LIBRARY` enters it in the case of the child only. `MemoryFreed` follows from the lemma about
`env_free`, `MemoryPrivate` from the permissions that `env_page_map` and `sys_ipc_try_send` compare. The assumptions are those on `CONSTANTS`: pages,
environments and addresses are finite sets, tables and pages of address space are told apart, `"w"` is a permission.

*Why `BootInv`.* `mem_init` is one long run, and what each step relies on was left by all those before it. `ChunksInv`: `nextfree` is a whole number of pages, and what `boot_alloc` gave lies between `EXTPHYSMEM` and it, in order.
`ListInv`: what is on the list is not `InUse`, and no table lies on it. Before `page_init` that says that tables are `InUse`, for the only one so far is the directory itself, in its own
entry for `UVPT`; after it, that a page that becomes a table has left the list, by whichever of the three ways pages leave it (`PagesTaken`), and that the rest does not hold it again: each page is on it once, because
`Descending(S)` has each member of `S` once (`DescendingLists`, by counting the members above) and `LowFirst` only changes the order. `Drawn` says where the map is still empty, and is all of `BootMapsOnce`.
The rest of `MapInv` is `LayoutRight` as far as it has been drawn. That no stack reaches into another's pages or gap is arithmetic of multiples of `KSTKSIZE + KSTKGAP` (`StacksApart`), and that
`mmio_map_region` does not reach the stacks is its own test. `Geometry`: sizes are natural numbers and the kernel ends behind `EXTPHYSMEM`. `Roomy`, which only the map needs, is what `inc/memlayout.h` takes
for granted and no line of `mem_init` tests: all of memory fits above `KERNBASE` (256 MB), and `pages`, `envs` and the stacks each in one page table's worth of addresses. `MemoryMC` checks that its machines satisfy both.

*Why `CowInv`.* What the refinement asks of a store is that no other process has the page it writes in, and what it asks of `StartChild` is that the child has copies of all pages. Both are statements about the
middle of a loop whose pages may fault meanwhile. `ShareInv` lists why two places may have the same page: they are shared read-only at the same address, or one of two moments in a fork, or one in a
fault. `CopyInv` says how far the loop is: the pages before `At(e)` hold in the child what they hold in the parent, but for the stack; those behind are not mapped; and what `ReadEntry` saw is still
true of every page but the stack, whose permission may have changed under the fork. `FaultInv` says the same of a fault, and that in a fork it is a fault of the stack. `FrameInv` (a child that is being made
has one maker and does not run), `KindInv` and `SpaceInv` (what may be mapped where) are what these need, and so is `Sound(mem)`, the heart of `MemInv`, because a page that `page_alloc` returns must be nobody's.
None of this needs memory: a call that is refused stops its program, and the others keep their memories. `CalmInv` is the part that does: `FaultsCanBeTaken` and `NobodyDies` hold while no call was
refused, of programs that do not mix `fork` with forks that copy (section 6). The initial states are all of them: any program with a stack, in any pages, any others free, with any contents. The
assumptions say that the addresses are what the library takes them for, that `Order` is a permutation of them, that there are values, and which the permissions are.

*Why `ShellInv`.* `WaitsRight` says that nobody who descends from a foreground line is left, and "descends" is a closure that no single step sees. The invariant has it link by link: whoever exists has
a parent that waits for it or is itself in the background (`ParentInv`), whom a process of a pipe is going to wait for exists (`ChildInv`), and the links go nowhere in a circle (`Rooted`): every set of processes has one
whose parent is not in it. When the shell is at the prompt, the set of those in the foreground would be one without such a member, hence is empty. `StatusInv` follows the foreground child to whichever of the two
`waitpid` reaps it. For descriptors, `OpenInv` says which are open at each step, and `StandardInv` where 0, 1 and 2 come from. It speaks of what 0 and 1 are *about to be* (`In`, `Out`), so that a child between its
fork and its `dup2` is covered by the same sentence as the program it becomes. `PipeInv` is why both sides of a `|` have the same pipe: the parent has its read end open until both children are there. The assumptions are those of the module:
process numbers and pipes are natural numbers, a process has room for 0, 1, 2 and two ends, and `Commands` are what `types.h` says and contain their own parts.

*Why `XargsInv`.* The two functions that free the same slots are right only together with what the slots hold. `Holds` says it for `xargs` and, from its fork until it has executed or
freed, for the child: the lines read since `Begin` and `NULL` behind them, with a buffer for each and no other. So the second `free_all_stored_args` of `xargs`, after the one that follows
`wait`, meets `NULL` everywhere, and the one of the child that could not execute, which has a copy of everything and was never freed before, meets every buffer. `Batched` says that `Begin` is a multiple of `NARGS`
and that only the last batch is short. `RanInv` relates this to the commands: those executed got batches before `Begin`, or before `pos` once the present one went to its child; and as many of them as there were
batches, if no call failed. `XargsAssumption` is that there is at least one argument per command, that lengths are numbers, and that `EOF` and `None` are not lines.

*Why `FindInv`.* That nothing was missed shows only at the end, when the recursion that looked for it is gone. The invariant keeps what was seen: there is a set `S`, closed upwards, of the names that `readdir` has
returned, and what was printed are the paths of those in `S` that match, each once (`Seen`). What was there all the time, and whose directory is in `S` and was opened, is in `S` or yet to come in a frame that still reads, unless
a call has failed. At the end no frame is left, and the least name that was missed would have its directory in `S`, for nobody removes a directory that is not empty (`ExistInv`). Nothing is printed twice since
what a frame has yet to return is outside `S`: also a name that appears meanwhile, which was neither there nor changed before. `FrameInv` makes the recursion a path from `.` downwards, which is why no two frames hold
the same directory, why `close` in one takes none from another, and why each path is the right one: `PathTo` is a recursive function, and `PathsStep` proves, from the least name without a path, that it is defined for every tree in which a directory
comes before what is in it. `OpenInv` says that whoever fails ends the search, so that at most one descriptor is left by a failed `fdopendir`. `LabForkMC` checks both properties on trees of 4 names.

*Why `PingPongInv`.* The processes of `pingpong` are two, but each may fail or be killed anywhere, and descriptors are numbers that are given out again. The invariant says for each place in the two programs which
descriptors are open and what they are, so that `close` by a number closes what the program means, on the failure paths too; and it follows the number: before the parent has sent one there is none (`sent` is `None`),
and what is in either pipe, and what the child holds, is the number that was sent. So what the parent reads can only be that one, and it returns 0 only after it did.

*Why `SieveInv`.* A chain may be of any length, so that who holds an end of which pipe must follow from what one process knows of itself. `LinksRight` says it row by row: a stage at work has the end it reads from, which is its
parent's pipe, and the one it writes in, which is its own (`Stay`); when it has forked it also has what it is about to close (`ToClose`), and a new child what came with the fork, its grandparent's end included. A fork copies a row,
and what the parent's row says before is what the child's says after with the numbers of the pipes moved by one (`ForkedRight`). `EndsAreNeighbours` is this seen from the pipe.
What a stage closes when it returns through the frames of its ancestors are numbers; `StageRight` keeps that the end it reads from is among them, which is why a failed `pipe` or `fork` leaves nothing open either. That no number
in a pipe is less than 2 is needed for types, and rests on a filter that never holds 1: `n # 1`. The theorems hold for any `CAP`, 0 included, and for `Terminal` either way, which they do not depend on.

*The constants of the two.* `PingPongConstants` and `SieveConstants` say that there is room for the descriptors a process has at once, that processes of the chain are numbered from 0 on without a gap, each with a pipe
of its number, and that `None` is no descriptor. The chain may be infinite; `LabForkMC` has 7 processes and 12 descriptors.

*Why `MallocInv`.* `Tiling` speaks of the regions that `next` links lead to, a recursion, and a step changes some of the links. The invariant gives the set of all regions instead: there is an `L` such that the headers
in `L` are a `Chain`, in which every region lies in its block, ends where the next one of `L` begins or where the block ends, and, but for the first of a block, is the next one of another. From this alone follows,
by lowest and highest addresses, that no region begins inside another (`Apart`) and that `Regions` of a block is exactly what `L` has there. Splitting adds a member to `L`, merging
takes one out, moving the next region down exchanges two, `return_block_to_OS` takes a block's first and only one out; each of these is a lemma, and `malloc`, `free` and the ways of `realloc` are sequences of them. Of `prev` links the
chain says only that they stay in their block, since splits leave them stale (section 6); that `free` and `realloc` merge with the right region all the same is what `sane` means. `Bounded` is needed beside it, as a
header that was merged away stays in memory: what a stale `prev` finds there is still a header with the size of some former region, so that the types hold even after the library was misled. `Holds` says that the regions of `L` that are not free are those
that programs hold, with enough room for each; filling them changes no header of `L`, by `Apart`. `Books` (each block is listed once, `total_mmy` is the number of units mapped) holds in every state. The assumptions (`SizesAssumption`) are that blocks are ordered by size and have room for a smallest region, that a `size_t` can hold the sum of two
blocks, that the limit is not 0, that there are finitely many places for blocks, and that garbage is not a header.

*Where the conditions are needed.* `LIBRARY`: a receive that is refused leaves a running environment marked as waiting (section 6), and a parent that changes the space of a child that runs leaves its TLB behind. One CPU in `MlfqPreemptible`:
section 6. Without the condition on the priority call, that call
puts a child into any queue. `NoOverflow`: a request for nearly all that a `size_t` can count passes the test for the largest block (section 6). The conditions are on `CONSTANTS`, and the runs of these properties have the values that satisfy them.

Only model-checked: liveness and everything under fairness, which is out of the reach of the provers; `FisopFs` and `ShellParse`, whose operators fold over sequences or recurse,
so that what they compute needs induction over data; of `BootMemory` that there are pages, and low ones, for all tables (`TablesReachable`, and that no step faults), which is a matter of how much memory there is; and of `Sieve` the numbers (`PrimesInOrder`, `NothingLost`): that what reaches stage `i` has no divisor among the first `i` primes, in order and each once, is an
induction over the chain and over the numbers below.

---------------------------------------------------------------------------

## 6. What else reading the code showed

These have no run of their own; the two that have one are in section 4. Where a property excludes what is said here, its comment says so.

Kernel:

* `inc/sched.h:29`: `mlfq_time_count` is loaded and stored without the lock. On two CPUs an increment can be lost, and a reset
  by `boost` can be overwritten by a sum from before it. The scheduler's `README.md:117` has the boost after a fixed time.
* `inc/sched.h:31`: the times of an environment are stored before the lock is taken and may overwrite what a boost on another CPU has just reset.
* `kern/env.c:532`: a page fault with an upcall goes through `env_run` without the threshold test, and executes `TIMER_SET` of what `time_remaining` is by then. On several CPUs that may be 0 without an interrupt pending, after a boost, and the
  one-shot timer is off (`OnlyInterferenceStopsTimer`). `kern/lapic.c:81` says that it counts down repeatedly.
* `kern/env.c:471`: a second `env_destroy` of an environment that is DYING on another CPU frees it under that CPU; the comment above says that
  a zombie is freed when it traps. No program of the repository destroys a child twice (`LIBRARY`).
* `kern/syscall.c:424`: `sys_ipc_recv` sets `env_ipc_recving` before it refuses a bad address; a later send makes the caller RUNNABLE (line 406) while it executes, and a second CPU picks it, which `kern/sched.c:93` says
  never to do. No program of the repository passes such an address.
* `kern/syscall.c:57`: `env_page_alloc` does not free its page when `page_insert` fails, as the hint at line 237 asks.
* `kern/syscall.c:390`: a send whose second half fails has already replaced the receiver's page by an empty one; line 347 says that the ipc only happens when no errors occur.
* `kern/syscall.c:389`: when the receiver asks for no page, `env_ipc_perm` keeps what an earlier message left there; line 340 says 0.
* `kern/pmap.c:578`: `tlb_invalidate` reaches the executing CPU only. A parent that unmaps a page of a child that runs on another CPU leaves that CPU the translation until it loads `cr3`.
* `lib/fork.c:28`: `(err & FEC_WR) & !(pte & PTE_COW)` has a bit and a truth value and is always 0; a write to a text page is not refused but gets a private writable copy. `Cow` has this as it is.
* `lib/pgfault.c:35`: `set_pgfault_handler` returns without a word when there is no page for the exception stack; the fork goes on, and when it succeeds the parent's first store kills it.

malloc:

* `malloc.c:784`: `ALIGN4(size) + sizeof(region_header_t) > BLOCK_LG` wraps for the last few sizes a `size_t` can have, and such a request is then taken for one that a small block can hold. The theorems
  exclude these requests (`NoOverflow`), and the run has none.
* `malloc.c:462` and `632`: a split leaves the `prev` of the following region as it was; freeing that one, or growing it, merges across regions in use. `sane` marks where it begins.

File system:

* `fs.c:170` and `697`: a directory made on a full disk has no `.` and `..`, though `README.md:57` says that every directory has both; `dir_is_empty` counts entries, so two files in it count as those and `rmdir` removes
  the directory with them in it, which `README.md:86` says it does not. `TreeIsSound` says that no other directory lacks them, and the run ends at the first that does.
* `fs.c:302`: the indirect block of an inode is not given back; `BlocksAreOwned` says exactly that those are the blocks that are marked and owned by nobody.
* `fs.c:335`: growing a file by more than a KiB writes all that is left on each turn, from a buffer of one KiB; the file ends longer than asked.
* `fs.c:421`, `441` and `961`: `README.md:61` says that after a load the user's information is complete. A state file that is written after a file with a size was removed is read out of step, and thrown away or
  misread. And a load writes with `fiuba_write`, which takes one block more at the end of every full one, at a time when the data bitmap does not know which blocks belong to inodes that are still to come: when the direct blocks are used up
  such a block becomes an indirect one over their data, and when the disk is full the data is not written. What comes back are the states in `Loadable`: no removed inode has a size, no inode gets to its indirect block by a load, and there are enough blocks.
* `fs.c:898`: `fiuba_read` changes blocks one byte late.
* `fs.c:961`: a write that ends at the end of a block goes on in a new block though the inode has a next one, so that a write
  over a longer file is not found where it was written; `AppendsAllOrNothing` is about files that end in their last block (`Tight`).
* `fisopfs.c:410`: the state file is opened without `O_TRUNC`: a shorter state leaves the end of an older one behind. `deserialize` reads
  as much as the inodes it has read ask for, so the remainder is not noticed when the file is read in step; out of step it is read as data.

Labs:

* `xargs.c:80`: when the input is empty, the buffer of the first `getline` is not freed; line 118 says why it has to be. `NothingLeaks` is about all other inputs.
* `runcmd.c:51`: the `waitpid` for anybody may reap the foreground child that was just started, and the second one then fails. The shell's README, lines 107 to 108, says that
  the two never wait for the same. `$?` is right all the same, since the first has stored the status (`WaitsRight`).
* `runcmd.c:34`: a failed `fork` is not looked at: -1 is waited for, and `waitpid` with -1 waits for anybody, also for a job in the background that never ends. The shell's `README.md`, lines 101 to 102, expects that processes go on being
  executed without waiting for those before. This is one of the two ways in which `ComesBack` lets somebody wait for ever.
* `exec.c:330`: when the second fork of a pipe fails, the left command is waited for with the read end open; the comment at 288 says that descriptors are closed in case of an error. A command that writes more than a
  pipe holds is never waited out; this is the other way.
* `parsing.c:82`: any `-` after or before the `=` makes a word an argument; the comment at lines 74 to 76 speaks of the KEY part. `A=b-c` sets no variable and is an argument. `LineMeansWhatItSays` says what the comment says, of the lines without such a word (`NoDashedValue`);
  words with a `-` in their key are in the run.

### What the models leave out

* `Mlfq`: statistics, the generation in an environment id, spurious and keyboard interrupts.
* `Memory`: `user_mem_check`, which changes nothing; the parsing of the ELF image, of which what it maps is kept; an environment that is destroyed twice and the receive that is refused (`syscall.c:424`), which are in `Mlfq`.
* `BootMemory`: the second table of `entrypgdir.c`, which is not compiled.
* `Cow`: programs that use both `fork` and `fork_v0`, which it replaced. Programs that use `dumbfork` after `fork` are there, and keep their memories apart; but `dumbfork` gives a child the handler's variable
  and no upcall, so that a `fork` in that child is killed by its first store, and `SharingIsSafe` says that nobody dies only of programs that do not mix them.
* `FisopFs`: reading and the times and rights it changes; the threads of libfuse; directories wider than one block; in a state file that is read out of step, pieces of cells, and block numbers that lead out of the disk.
* `Xargs`: what the C library does to the position of a file that is standard input when a child exits.
* `Shell`: `cd` and `pwd` are recognized and no more.
* `ShellParse`: an empty command on the left of a pipe and a line that begins with `&`, for which the C code defines nothing; `MAXARGS` and `BUFLEN`.

---------------------------------------------------------------------------

## 7. Running

    tlc -workers 2 -config MlfqSmp.cfg MlfqMC.tla
    tlapm MlfqProofs.tla

The `*MC` modules give constants their values, with a symmetry set and a view where one is sound, and put machines side by side. Each property of a run that passes has a mutant in
`PROJECT.json`: an operator beside the original that changes it as a plausible slip would, under which TLC finds the property violated.
