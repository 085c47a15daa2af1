# TLA+ specifications for public_systems_projects

The repository holds the assignments and labs of a systems course. Most of its
logic is in one place, the xv6 kernel of Assignment 9
(`src/Assignment9_xv6/part1/xv6-public`, below just `proc.c`, `log.c`, ...): a
multiprocessor Unix kernel with a crash-safe file system. Around it are small
programs: data structures (Assignments 2 and 4), a shell (5), two memory
allocators (6 and 8), two concurrent programs, a relay race and a program of
painting threads (7), and a cache simulator (Lab 6).

This directory specifies these parts, checks them with TLC on small instances,
and proves some results for all instances with TLAPS.

## The system

### Components of the kernel

**Sleep locks** (`sleeplock.c`, with `sleep()` and `wakeup()` of `proc.c`).
State: `locked`, `pid` and the spin lock `lk` of each lock; the state and
channel of each process. Hard: a process goes to sleep under one spin lock while
the condition it waits for is changed under another; `kill()` wakes it at any
time. Correct means: one owner, no wakeup missed, every sleeper woken.

**Process table and scheduler** (`proc.c`, `trap.c`, `sysproc.c`, `init.c`).
State: the slots of `ptable` and `ptable.lock`, the process each CPU runs, the
kernel stacks (implicitly, by who is on which CPU). `swtch()` hands `ptable.lock`
from one thread of control to another. Hard: a ZOMBIE is still running on the
stack its parent will free; a parent exits before, after or while its children
do; slots are reused. Correct means: a process is on one CPU, its slot is not
reused under it, no zombie is forgotten, a killed process exits.

**The log** (`log.c`). State: the header and the data blocks of the log on the
disk; `outstanding`, `committing` and the header in memory. Hard: a crash
between any two disk writes, also during recovery; space reserved for
operations that have not written yet. Correct means: after a crash every
operation has happened completely or not at all, and operations neither
overflow the log nor wait for ever.

**Buffer cache and disk driver** (`bio.c`, `ide.c`). State: the buffers with
flags, reference count, sleep lock and place in the LRU list; the queue of the
driver and what the disk is doing. Hard: the lock of the cache, the lock of a
buffer and the lock of the driver are taken one after the other, never
together; buffers are recycled. Correct means: one buffer per block, readers
find the last write, no write is lost.

**Inodes and directories** (`fs.c`). State: the inodes on the disk, the inode
cache with its reference counts and sleep locks, directory entries, the block
map of each inode, the bitmap. Hard: a name is looked up, the lock of the
directory given up, and the entry used later; an unlinked inode is freed by
whoever drops the last reference; two inodes are locked in one call. Correct
means: counts are exact, what is in use is not freed, what is not is freed,
nobody waits in a circle, blocks have one owner.

**File table and file system calls** (`file.c`, `sysfile.c`). State: the open
files and who holds them, the descriptors of a process. Hard: the calls are
sequences of sections with every failure in between (no inode, no file, no
descriptor) and processes share files through `fork()` and `dup()`. Correct
means: reference counts are the number of holders, offsets are shared, nothing
is leaked or panics.

**Pipes** (`pipe.c`). State: the ring, `nread` and `nwrite` (unsigned, they
wrap around), which ends are open. Hard: several readers and writers, requests
longer than the pipe, kill and close at any time. Correct means: first in,
first out; nobody sleeps without a reason; data and end of file are delivered.

**Memory** (`kalloc.c`, `vm.c`, `exec.c`, and `growproc()`, `fork()`, `wait()`).
State: the free list, page tables, sizes of processes. Hard: every allocation
may fail half way through a call; sizes wrap around. Correct means: a page has
one use, a failed call gives everything back, a process has the pages below
its size.

**Console** (`console.c`, `kbd.c`, `uart.c`). State: the ring with its indices
`r`, `w` and `e`, the modifiers, the cursor. Hard: the ring is full or empty,
lines are edited in it, readers compete, `^D` must be seen twice. Correct
means: it is a terminal with line editing, and no reader sleeps through its
input.

**Spin locks** (`spinlock.c`): the atomicity everything else relies on; hard
because interrupts come in between. **Start-up** (`main.c`): pages are given out
without a lock while the CPUs start one by one. **Clock** (`trap.c`,
`sysproc.c`): `ticks` wraps around under a sleeping process. **Argument
fetching, strings, formatted output** (`syscall.c`, `string.c`, `console.c`):
functions with boundary cases.

### Programs

**The xv6 shell** (`sh.c`): parses a line into a tree and runs it with
processes and pipes; every copy of a descriptor must be closed for an end of
file to come. **User library** (`umalloc.c`, `ulib.c`, `printf.c`) with a heap
that splits and joins blocks. **grep, wc, cat**: input arrives in pieces.
**mkfs**: the initial image.

**Relay race** (`Assignment7_ConcurrentArtists/part1/relay.c`): threads in a
chain of semaphores. **Artists** (`part2/painters.c`): threads that paint one
canvas, with a mutex per pixel and `pthread_mutex_trylock`. **Allocators** of
Assignments 6 (best fit) and 8 (best fit, a list and a lock per CPU).
**Mini-shell** of Assignment 5: two-command pipelines, a history, SIGINT.
**Queue, stack, hash map** (2 and 4), **cache simulator** (Lab 6): sequential.

### How they interact

    shell, programs -> arguments (syscall.c)
      -> file calls -> inodes -> log (begin_op/end_op) -> buffer cache -> disk <- interrupt
      -> pipes ---------+----------+---------+-------------------+
      -> console -------+                    |
      -> fork/exit/wait +--> sleep / wakeup / ptable.lock <- timer, kill()
      -> memory: kalloc                  sleep locks
                               everything: spin locks

Everything that waits does so in `sleep()`, so the protocol of `sleep()` and
`wakeup()` occurs in every module. `SleepLock` has it step by step. The others
use what it establishes: in `ProcTable` `sleep()` runs under `ptable.lock`
throughout, in `Pipe` and `Clock` a process keeps the other lock until it is marked
asleep (with `kill()` possible in between), in `Log`, `Bcache` and `Console` a
section under the spin lock is one step and sleeping ends it. That such a
section is one step is what `SpinLock` shows. `Bcache` takes and gives up the
sleep lock of a buffer in one step; `Log` reads and writes blocks through a
cache that behaves as `Bcache` shows it does (`ReadsLastWrite`, `NothingLost`);
`Inode`, `FileTable` and `FileIO` see the disk as `AtomicDisk` promises it.

## The modules

| Module | Models | State and actions |
|---|---|---|
| `SleepLock`, `WaitingProofs` | `sleeplock.c`, `sleep`, `wakeup`, `kill` | every acquire and release of the two spin locks is a step; `pc[p]` is the line of the process |
| `ProcTable`, `ProcTableProofs` | `proc.c`, the killed tests of `trap.c`, `init.c` | slots are numbers, `lock` is the CPU that holds `ptable.lock`; a section that ends in `sched()` leaves the lock with the CPU, as `swtch()` does |
| `AtomicDisk` | what the comment at the top of `log.c` promises | disk and view; the view becomes durable in one step; a crash falls back to the disk |
| `Log`, `MachineProofs` | `log.c` | one step per block `commit()` or recovery writes; `Crash` at any time; `Durable` and `View` map it to `AtomicDisk` |
| `Bcache`, `BcacheProofs` | `bio.c`, `ide.c` | one step per critical section; `cmd` is the command the disk executes; `view` and `bad` are history |
| `Inode` | inodes and directories of `fs.c` | what a process has still to do is a stack of sections, `todo[p]`; a call pushes those of the callee |
| `FileTable` (extends `Inode`), `FileTableProofs`, `InodeProofs` | `file.c`, `sysfile.c`, and what `pipe.c`, `fork`, `exit` do with files | one section per stretch between two locks; `reg[p]` are the local variables, without those that are not used any more (`Gone`) |
| `FileIO` | `balloc`, `bmap`, `itrunc`, `readi`, `writei`, `fileread`, `filewrite`, `mkfs.c` | the disk is a record of bitmap, inodes, data; one step per transaction |
| `ByteChannel` | what a pipe promises | a bounded queue of bytes |
| `Pipe`, `StorageProofs` | `pipe.c` | one step per byte copied; `Queue` maps the ring to `ByteChannel` |
| `Memory` | `kalloc.c`, `vm.c`, `exec.c`, `growproc` | the functions work on a record of free pages, address space and success; a system call is a step that may find any number of pages free |
| `Terminal` | what the console promises | the line being edited and the finished lines |
| `Console`, `ConsoleProofs` | `console.c`, `kbd.c`, `uart.c` | one step per character and per section of `consoleread`; the parts of the ring map to `Terminal` |
| `SpinLock` | `spinlock.c`, interrupt gates | a CPU has a list of calls; the first is replaced by what is left of it after each access to a lock or the flag; an interrupt puts the list aside |
| `Boot` | `main.c`, `kinit1`, `kinit2` | reading and writing the head of the free list are two steps; `doing[c]` is the line CPU c is at |
| `Clock` | `sys_sleep`, timer interrupt | `ticks` is below `WORD`; `age[p]` counts the ticks of a call |
| `MachineProofs` | | theorems about `SpinLock`, `Boot`, `Clock` and `Log` |
| `Library` | `string.c`, `ulib.c`, `syscall.c`, `cprintf`, `printf` | functions, beside references |
| `Shell`, `WaitingProofs`, `ShellParser` | `sh.c` | a process has its place in `runcmd()` and its descriptors; the parser works on tokens |
| `Filters` | `grep.c`, `wc.c` | functions on an input in pieces, beside references |
| `UMalloc` | `umalloc.c` | the circular free list; addresses count headers |
| `Relay`, `WaitingProofs` | `relay.c` for any number of runners | `sem[k]` is what runner k posts and runner k + 1 waits for |
| `Painters`, `WaitingProofs` | `paint()` of `painters.c` | a step between two operations on shared memory |
| `BestFit`, `StorageProofs` | Assignment 6 | one step per call |
| `MiniShell`, `WaitingProofs` | Assignment 5 | children, descriptors, history ring; each `pipe()` and `fork()` may fail |
| `Containers`, `StorageProofs` | queue, stack, hash map | one step per call |
| `CacheSim` | Lab 6 | one step per address |
| `MC...` | | constants for TLC, and suites of modules (below) |

The actions have the names of the functions, or of the part of a function they
stand for. Definitions that start with "Mutant of" in their comment are faulty
variants of the action they follow; no specification uses them, and each makes
one of the properties fail.

What is abstracted. Block contents, bytes and characters are model values or
members of small sets. In `ProcTable` what a program does next is free, except
that `init` runs `init.c` (it forks, waits, makes no call of `exit` or `kill`,
and exits if a `fork` fails). `Bcache` lets a process hold one buffer at a time,
although `bmap()` and `write_log()` hold two. In `FileTable` a directory is the
sequence of its entries and the programs make the calls of a given set. In
`Memory` the content of pages is left out, and addresses count words of small
pages. `Shell` has three programs: one that writes, one that copies to the end
of file, one that does not exist. The colour of a pixel is the artist's name;
the dice of an artist are a free choice among the eight directions.
`hashmap_create()` does not write its lists; `Containers` takes them to be empty.

`pthread_mutex_unlock` of a mutex that another thread holds is undefined in
POSIX for default mutexes; `Painters` does what glibc does, it unlocks.

## What TLC checks

| Run | Instance | What it shows |
|---|---|---|
| `waiting` | sleep lock: 3 processes, 3 kills; process table: 1 CPU, 3 slots, `kill(2)`, `kill(3)` | `MutualExclusion`, `NoMissedWakeup`, `SleeperWoken`; `OrphanReaped`, `KilledExits` |
| `proc_smp` | 2 CPUs, 4 slots, pids up to 4, `kill(2)` | `OneCpuPerProcess`, `WaitSleepsForAReason`, `Family` |
| `files` | 2 processes, 3 inodes, 3 files, 2 descriptors, 17 calls on a tree of two levels | `LinksCounted`, `ReferencesSound`, `NoPanic` |
| `pipe` | 1 reader, 2 writers, 2 bytes, pipe of 2, words of 2 bits, requests of 1 and 3 | `Fifo` (the pipe implements `ByteChannel`), `NoMissedWakeup`, `EndOfFile`, `DataDelivered` |
| `programs` | relay: 10 runners; shell: 5 processes, 2 pipes of 1 byte, 3 command lines; log: 2 operations that write 2 blocks, 2 contents, a crash anywhere, and 2 operations that could fill the log; clock: 2 processes, 4 values of `ticks` | `RunInTurn`, `DestroyedUnused`; `NothingLeftOver`; `CrashAtomic` (the log implements `AtomicDisk`), `LogSound`; `SleepsLongEnough`; `EveryWaitEnds` for all four |
| `resources` | files: 2 processes, 6 blocks of 2, 2 files; memory: 2 processes, 14 pages, 8 programs; console: 2 readers, ring of 3, both control keys | `FilesIntact`, `SpacesIntact`, `FailureGivesBack`, `NoMissedInput`, `ModifiersFollowKeys`, `LineDiscipline` (the console implements `Terminal`) |
| `shared` | cache: 3 processes, 2 buffers, 3 blocks; spin locks: 2 CPUs, 2 locks, handlers that take either; start of 3 CPUs; 2 artists on 4 x 2 pixels; two heaps; the mini-shell; queue and stack of 2 places, map of 3 keys in 2 buckets; the cache simulator; the functions on all small inputs | `BufferCacheSound`, `NothingLost`, `SpinLocksSound`, `PagesGivenOnce`, `NoIslands`, `HeapsWhole`, `PromptSettled`, `ContainersKeep`, `FunctionsAgree` |
| `proc_kill0`, `files_deadlock`, `files_leak`, `pipe_lost`, `painters_pixel` | | see Findings |

`waiting`, `programs`, `resources` and `shared` are suites. The initial state
chooses a part, `part`, and the behaviour is one of that module with all other
variables at their initial values; the parts do not interact. A suite extends the
modules whose properties are proved as well (`MCWaiting`: `SleepLock`;
`MCPrograms`: `Relay`, `Shell`, `Log`, `Clock`; `MCResources`: `Console`; `MCShared`: `Bcache`, `Boot`,
`SpinLock`, `Painters`, `MiniShell`, `Containers`, `BestFit`), and checks their own definitions in every part; the other modules
are instances, and their properties stand behind the guard `part = "..."`. What
the code does compose is composed in the modules: `FileTable` extends `Inode`, `Shell` has
processes, descriptors and pipes in one state.

What the conjunctions stand for. `LinksCounted`: whenever no process is inside a
transaction, `nlink` of an inode on the disk is the number of its names. `ReferencesSound`: whenever no process
is inside a call, `ref` of an inode is the number of current directories and open
files, `ref` of a file is the number of descriptors, and the open ends of a pipe are
those of its files (`RefsCounted`); in the middle of calls, the cache entry of an
open file or of a current directory is in use for the same inode, this inode is
not free on the disk, and no end of a pipe has two files, of which the first to be
closed would close it (`InUseStays`). `BufferCacheSound`: one buffer per block, the
holder of a buffer finds the last write to its block, the disk works on the head
of the queue, `bget()` panics only when all buffers are in use. `LogSound`: the
type invariant (which relates `outstanding` to the operations), `NoPanic`,
`LogFits`, and `QuietIsDurable`. `SpinLocksSound`: exclusion, and no handler ever
spins on a lock its own CPU holds. `HeapsWhole`: no memory is given twice, none
is lost, in the heaps of `umalloc.c` and of Assignment 6. `ModifiersFollowKeys`: in
any order of presses, repeats and releases, no modifier bit is set without a key of
its kind that is down; a key that is down has its bit, unless two of its kind have
been down together, of which the first to be released takes the bit with it; and the
cursor is on the screen. `PromptSettled`: at its prompt the mini-shell has no more
children and descriptors than the pipelines before left it, one more of each at most
for each `fork()` that failed in one. `EndOfFile`: a process inside `piperead()`, from
its call on and wherever it stands, returns once the last writer has closed, and a
process inside `pipewrite()` once the last reader has. `FilesIntact`: the bytes read are those
written, blocks have one owner, a shared offset moves with every byte, and a
transaction fits its reservation. `EveryWaitEnds`: `main()` of the race returns;
the prompt comes back; a process asleep in `begin_op()` goes on; a killed process
leaves `sleep()`. `FunctionsAgree`: memory and string functions against their
definitions with overlapping ranges, numbers printed and read with wrap-around,
arguments of system calls inside the process, formats, regular expressions
against a declarative matcher, input cut into pieces, and the parser against the
grammar of the shell.

### Bounds

- Sleep lock: with three processes one can own the lock, one be asleep and one
  arrive between the two. `MaxKills` bounds the wakeups without a reason.
- Process table: four slots hold init, a parent, its child and its grandchild,
  the smallest family in which init inherits a zombie while it sleeps. Slots
  are reused within three forks (`MaxPid` 4), because a pid may be given out
  after its predecessor was reaped. On one CPU preemption is possible at every
  step outside `ptable.lock`; what needs a second CPU is in `proc_smp`.
- Log: two operations are enough for one to commit for the other and for one to
  wait for the space of the other; `LOGSIZE` is twice `MAXOPBLOCKS`, so that two
  operations run together (three in the kernel). The number of crashes is not
  bounded. A transaction of two blocks does not fill the log, so that the suite
  has the log a second time (`full`), with more blocks than the log may take;
  operations that fill their whole reservation are left to the theorem.
- Buffer cache: two buffers for three blocks and three processes: buffers are
  recycled all the time, and two processes wait for one buffer. Two are too few
  for three processes; the panic of `bget()` is reached, and `BuffersSuffice` says
  that it is reached only then.
- Files: `MaxCalls` calls (3) after those that build the tree, between two
  processes that each may have forked from the other. Every table is small
  enough to run out: no inode, no file, no descriptor. Three calls are enough
  for a race of two calls after one that prepares it.
- File content: a file reaches its indirect block with five bytes, a long
  `write()` takes four transactions, the image of mkfs fills some of the blocks.
- Pipe: `WORD` is twice `PIPESIZE`, so the counters wrap around while there is
  data in the ring, and a request of 3 is longer than the pipe.
- Memory: less than what two processes need; a step may find fewer pages than
  are free in the model, since other CPUs may hold the rest, so that every
  allocation of every call fails in some step. Programs reach each refusal of
  `exec()`.
- Console: a ring of three whose indices wrap after six.
- Shell: a pipeline of three programs, a list with a program that does not
  exist, a background pipeline with a redirection; pipes of one byte, so that
  writers wait.
- Artists: on a canvas four wide they meet in the middle.
- Heaps: the largest heap holds three or four blocks, enough to split, to join
  on either side and to choose the best fit.

### Fairness

- `SleepLock`: weak fairness for every process inside `acquiresleep()` or
  `releasesleep()` or holding the lock: the scheduler runs it again, and no
  kernel path keeps a sleep lock for ever. Nobody is assumed to call.
- `Pipe`: a process inside a call goes on, with strong fairness, because it
  contends for `p->lock`: every owner keeps that for a bounded time, and `xchg`
  does not favour one contender for ever. A killed process exits, which closes
  its descriptors. Nothing is assumed about processes outside.
- `ProcTable`: the scheduler loop runs, the timer interrupts again and again, a
  running process goes on, and `init` calls `wait()` again and again
  (`init.c:34`). No other program is assumed to do anything.
- `Log`: operations end, and commit and recovery go on. They do I/O and no
  other waiting.
- `Shell`: each process is scheduled. Nothing is assumed about the user.
- `Clock`: the timer interrupts again and again, and a process contends for
  `tickslock` as for `p->lock` above.
- `Relay`: threads are scheduled.

In the suites the fairness formulas of several parts are merged into one where
their actions belong to different values of `part`: only one of the disjuncts
can ever be enabled in a behaviour, so that the merged formula is the formula of
the part that runs.

Deadlock is checked in `proc_smp` and `proc_kill0`. The others may stop: on one
CPU after the panic of init or with no pid left, a cache after the panic of
`bget()`, a pipe when both ends are closed, a race or a painting when it is over,
programs when their bounded calls are made, all functions at once.

## Findings

- **`kill(0)`** (`proc_kill0`): `kill()` compares pids without looking at the
  state of the slot; a free slot has pid 0, keeps the `killed` flag it gets, and
  the next process created there dies at its first trap.
- **Two processes that wait for each other's inode** (`files_deadlock`): `create()`
  holds the new inode when `iput()` of the directory locks the directory again;
  `unlink()` of the same name holds the directory and waits for the inode.
- **An inode nobody frees** (`files_leak`): `iput()` tests `ref == 1` in one section
  and drops its reference in a later one; the last two users of an unlinked file
  can each see the other.
- **A killed writer** (`pipe_lost`): `pipewrite()` returns without `wakeup()` when
  its process has been killed; readers sleep on although the pipe is full.
- **The wrong mutex** (`painters_pixel`): an artist that steps back does so before
  it unlocks, and unlocks the pixel it returns to. Two artists can then be at one
  pixel, and the pixel that was tried stays locked.

Seen while modelling, without a run of their own:

- `begin_op()` reserves against `LOGSIZE`, but `mkfs` gives the log `LOGSIZE` blocks
  including its header, and `log_write()` panics one block before that. Operations
  that use all of their reservation would panic; those of the file system stay
  below it (`OpFitsLog`), and `LogSound` holds for a reservation that fits.
- `dirlink()` and `create()` with the name "." wait for a lock they hold; lookups of
  ".." lock child and then parent, `unlink()` the other way. `create` and `link` in
  a directory that was removed in between leave an entry nobody reaches. The ".."
  of a removed directory leads to an inode that may be free by then ("ilock: no
  type"). `Calls` leaves these paths out so that `NoPanic` says something about the
  rest.
- `sbrk()` of minus the size gives all pages back and returns -1.
- `sleep(-1)` sleeps for 2^32 - 1 ticks.
- `findOptimalFreeBlock()` of Assignment 8 gives up the lock of its list, and
  `mymalloc()` marks the block as taken afterwards (`mymalloc.c:126-129`): two threads
  on one CPU, or one that migrates in between, are given the same block. The README of
  the assignment names this case as the one the lock is for. The size passed to
  `mmap()` leaves out the header, so that a block from it runs into the next mapping
  (lines 84-89). A second `free()` returns with the lock held.
- `kbdgetc()` has one bit for the two keys of a kind: with both control or both shift
  keys down, the release of one clears the bit although the other is still down
  (`kbd.c:23-26`). `ModifiersFollowKeys` states what is left, with the history
  variable `both`.
- A read of a block that was never allocated, at the end of the root directory mkfs
  rounded up, allocates it outside of a transaction, where `log_write()` panics unless
  another process is in one (`Fileread` of `FileIO` has both outcomes).
- `calloc()` of Assignment 6 clears `NULL` when `malloc()` fails.
- The queue and the stack return a constant from their dequeue functions,
  although the comments say the item. The hash map allocates a byte less than a key
  needs and in `update` the size of a pointer.
- `grep` forgets the part of a line it has when a `read()` brings no end of line.
- The mini-shell keeps one end of a pipe per pipeline and, when its second
  `fork()` fails, a child and both ends (`PromptSettled` counts them). Its `history`
  prints `commands[0]` to `commands[size - 1]`, and `size` goes back to 0 after 128
  commands (`shell.c:206`): the commands since then, and none right after. The README
  of the assignment says "The function returns the past 128 history calls, correct or
  otherwise" (`src/Assignment5_Shell/part1/README.md:176`), which holds up to the first
  127 only. `PromptSettled` states what the ring does hold.

## What is proved

The theorems hold for every value of the constants; the provers check every
step. No assumption is made beyond the `ASSUME`s of the modules and the hypotheses
named below.

**`WaitingProofs`**. Sleep locks, for any set of processes and any number of kills: `SpecTypeOK`,
`SpecMutualExclusion`, `SpecNoMissedWakeup`. Neither of the last two is inductive: that a
process owns the lock says nothing about the process that is about to
set `locked`. The inductive invariant `IInv` adds who holds the two spin locks
(at most one process, as told by the program counters), that `locked` is set
exactly while some process is between `acquiresleep()` and `releasesleep()`,
that a sleeper is inside `sched()` with its channel set, and that from the test
of the lock to its sleep a process sees the lock held or a releaser whose
`wakeup()` is still to come. `SpecIInv` is proved action by action; the three
theorems follow from it.

The relay race, for any number of runners: `SpecRunInTurn` and
`SpecDestroyedUnused`. A runner takes off because a semaphore is positive, so
`RaceIInv` adds that only a runner that is done has posted its
semaphore, that `main()` has joined only threads that are done, and that it has
joined all of them before it destroys the semaphores. For any number of artists
and any canvas: `SpecNoIslands`. `PaintIInv` adds where an artist is within an
iteration: at most one pixel from its ground (what it has painted, and where it
started), to which it can step back, and with paint left. A pixel beside a
connected ground keeps it connected (`StillConnected`); the dice lead to a pixel
beside the last one although they are clamped at the border (`TargetBeside`). The
wrong mutex (`painters_pixel`) does not matter for this.

The shell of xv6, for any number of processes, descriptors and pipes and any command
lines: `SpecNothingLeftOver`. The assumption on the lines (`ShellAssumption`) is what `parsecmd()`
makes: `Trees` holds the commands with the commands they are made of, a redirection is
for descriptor 0 or 1, and what is executed is one of the programs of the model or a
file that is not there. What a program has open depends on the way to it.
`ShellIInv` says what is open at each place of `runcmd()` (`Fits`): the three descriptors
everywhere (`PlainFds`), and from `pipe()` to the two `close()` the ends of one pipe
besides (`PipeFds`). `dup()` takes the lowest free descriptor, which is the one just
closed because 0, 1 and 2 are open (`Replaced`); this is why the two sides of a pipeline,
and a redirection, get 0 or 1 (`SidePlain`, `RedirectedPlain`), and why `pipe()` gets two
above 2. `Kids` adds that the shell has no child at its prompt and one while it waits,
also when `fork()` or `pipe()` fails somewhere in the line and processes leave children
to `init`.

Mini-shell: `SpecPromptSettled`, for any commands and any size of the history, with
every `pipe()` and every `fork()` free to fail. `PromptSettled` speaks of the prompt only;
`MiniIInv` says of every place how many children the shell is still going to wait
for (`DueAt`), which end it still has to close (`HalfAt`), and that the pipes of the
ends are among those made, so that `pipe()` brings two that were not open. A `fork()`
that fails leaves each of these counts one too high for good, which is what `unforked`
counts. `Remembers` is the ring after any number of commands; it is kept by each
`Store` because the next place is the remainder of the next number (`NextRemainder`).

**`ProcTableProofs`** (any number of processors, slots and pids): `SpecTypeOK`,
`SpecOneCpuPerProcess`, `SpecFamily`, `SpecWaitSleepsForAReason`. That `wait()` frees no stack
in use depends on where the process is that left the slot, and that a parent can
still call `wait()` depends on what every `fork()` under way is going to write.
`IInv` adds therefore what the state of a slot says about the place of its process
(`Places`), that every `EMBRYO` a `fork()` is filling has that one `fork()` (`Forks`),
and when `parent` is set and cleared (`Parents`). The free slot that `allocproc()`
finds is the least one; that a set of numbers has a least member comes from the
well-foundedness of `<`.

**`FileTableProofs`** (any finite set of processes, any sizes of the tables, any
system calls with any arguments): `SpecRefsCounted`. At rest every count equals
what can be seen; in the middle of calls a reference may also be in a local variable
of a process, or belong to a section it has still to execute (the `iput()` of an
error path, the `fileclose()` of an `exit()`). `IInv` counts all of them: `SlotRefs`
for `iget()`, `idup()` and `iput()`, `FileRefs` for `filealloc()`, `filedup()` and
`fileclose()`. That each is dropped once rests on the shape of what a process has
still to do. `Shapes` says which sections can stand below which others and which
local variables hold an inode meanwhile, so that `open()` with a full file table,
`pipe()` with one descriptor left and `link()` after a failed `dirlink()` drop what
they took; `Lasts`, `Exiting` and `Opening` say what the last sections find: a file
that `open()` or `pipe()` has allocated and not yet filled in, and a section of
`exit()` for every descriptor that is open. `Contents` and `PipeEnds` relate the
type, inode and pipe of a file to its count. Nothing is claimed after a panic, when
no process moves. Most of the lemmas say how often a value occurs in a function that
changes at one or two places, and what a call does to the stack of sections; the
counts are cardinalities of finite sets, so that no recursion is needed.

**`InodeProofs`** (the same, continued): `SpecReferencesSound`, that is also `InUseStays`, in
every state and not only between calls. An inode without links is freed by an
`iput()` that finds `ref` at 1 and writes the disk later; nothing but the order of locks
keeps another process from opening the inode in between. `JInv` adds to
`IInv` of `FileTableProofs`: an inode that has a user (an open file, a current
directory, or a section to come that makes it one) is not free on the disk, and is a
directory if it is a current one (`InUse`); the sections of `open()`, `chdir()` and
`create()` that make it one run with the inode locked, and before them on the stack of the
process is only the `ilock()` that locks it (`Held`), or, for `open()` with `O_CREATE`, sections of
`create()` that give up another inode than the one it returns (`Created`, `Fresh`); the
`iput()` that is about to free an inode has it locked and the inode has no user
(`Freeing`), which holds because the reference it has is the only one, as the counts
of `IInv` say. That what is locked was read from the disk since it became valid, is not free and has
one entry in the cache (`ReadIn`, `Unique`) makes the freeing of one entry leave all others
alone. Beyond the model it needs that `open()` is called for reading or for writing
(`FileTableAssumption`). Nothing is claimed after a panic, when no process moves.

**`StorageProofs`**. Of `Pipe` (any readers and writers, any requests, any `PIPESIZE` that divides
the range of the counters, as 512 divides 2^32): `SpecTypeOK`, `SpecNoMissedWakeup`,
`SpecAwake`, `SpecFifo`. The last is the refinement of `ByteChannel`: the bytes between
`nread` and `nwrite`, read modulo `PIPESIZE`, are the queue, also while one counter
has wrapped around and the other has not. `IInv` adds to the types how far a
process is in its request (`Left`), who holds `p->lock` (`Places`, `Held`), which
ends are open (`Ends`), what a sleeper waits for (`Reasons`), and that the pipe still
gives that reason or a process inside its call has a `wakeup()` to make
(`Awake`). A writer that is killed leaves without its `wakeup()`, the finding
`pipe_lost`; so `Awake` says something only until a writer has been killed, and
`SpecNoMissedWakeup` has the hypothesis of the run, that no writer ever is.

Of `Containers`, for any capacity that is not 0, any items, keys and values and any
number of buckets: `SpecContainersKeep`. `ContainersInv` has a part for each
structure. For the queue (`QueueSound`) the property is inductive with its types; the
work is in the arithmetic of the ring, where two places less than `Capacity` apart
are different also across its end. For the stack, `Reverse` of the nodes is the
history. For the map (`MapSound`) each key is once in the list of its bucket and in no
other (`OnceIn`), and its pair is there exactly when the key has a value (`Holds`);
removing a pair from the middle of a list moves those behind it.

Of `BestFit`, for any requests, any size of the header and whatever the C library takes
from the heap in between: `SpecBlocksDisjoint`. `HeapSound` adds to it that the blocks
are below `brk` (`InOrder`), and that what the program holds and the blocks marked as
taken are one for one (`OneForOne`), also after a block has been freed twice.

**`BcacheProofs`** (any finite set of processes, any blocks, any number of buffers):
`SpecBufferCacheSound` and `SpecNothingLost`. `bget()` looks for a block, then for a buffer to recycle,
within one section, and `iderw()` and `ideintr()` work on a buffer that a process
holds. `IInv` relates the reference count of each buffer to the processes that
hold it or wait for it (`References`), the LRU list to the buffers (`List`), the sleep
locks to their owners (`Owners`), the queue of the driver to the processes in
`iderw()` (`Requests`, `Sleepers`) and the command the disk executes to its head
(`Active`). `Contents` says which of buffer and disk has the last write of a block.
That `bget()` finds no buffer only when those in use and those pinned by the log
are all of them (`BuffersSuffice`) is a count of two finite sets.

**`ConsoleProofs`** (any readers, keys and size of the ring): `SpecLineDiscipline`,
that `Console` implements `Terminal`; `SpecNoMissedInput`; `SpecModifiersFollowKeys`. `IInv`
has the order of `r`, `w` and `e` and their distance (`Ring`), that there is no end of
line between `w` and `e` (`Unfinished`), what a reader that sleeps has seen
(`Sleepers`), the bits of `shift` in terms of the keys that are down, and that one key of a kind is
down at most unless two have been together (`Bits`), and the place of the cursor (`Cursor`). Each step changes one end of the line or of the
input, which are sub-sequences of the ring by position.

**`MachineProofs`**. `SpecSpinLocksSound`, for any processors and locks and any
paths through the kernel and the handlers that acquire and release in
matched pairs (`SpinAssumption`): one processor is inside a lock; `acquire()`,
`release()` and `popcli()` do not panic; the flag is restored; no handler spins on a
lock of its own CPU. `SpinIInv` follows the calls of each CPU and of what it has
put aside: the locks they have still to release are the ones `cpu` names
(`Owners`), their number is `ncli` (`Depth`), and interrupts are off whenever it is not
0 (`Flags`). `SpecPagesGivenOnce`, for any processors and pages: `kalloc()`
and `kfree()` read and write the free list in two steps, without a lock until
`kinit2()` ends, and this is right because nobody else is in them by then
(`OneInList`), which depends on where CPU 0 is while the others start (`FirstAt`,
`OthersAt`). `SpecSleepsLongEnough`, for any processes, arguments and width of the
counter: `ClockIInv` says that `ticks - ticks0`, as unsigned, is at most the
number of ticks since the call.

The log, for any number of operations, blocks and contents, any size of the
log and a crash at every step: `SpecCrashAtomic`, that `Log` implements `AtomicDisk`,
and `SpecTypeOK`, `SpecQuietIsDurable`, `SpecNoPanic`. The hypotheses: the operations
are finitely many, and none writes more blocks than it reserves
(`SizesAssumption`); for `SpecNoPanic` also `KernelSizes`, two blocks fewer and a log on
the disk that is not smaller than `struct logheader`. `LogInv` says for each phase of
`commit()` and of recovery which operations can run (`Turns`), what the header on
the disk is (`Header`), where cache and disk may differ (`Clean`), and up to which
block log, cache and home agree (`Copies`). The space of the log is accounted
for by the pairs of an operation and a block it has put in the log (`Paid`):
`Len(lh) + outstanding * MAXOPBLOCKS` exceeds `LOGSIZE` by no more than their
number, although `begin_op()` tests that once and `log_write()` tests without the
lock. Every step then maps to a step of `AtomicDisk` or to a stutter: `WriteHead` is
`Commit`, the other steps of `commit()` and recovery do not show.

`SpecLogSound` is the conjunction `LogSound` of the run, under `KernelSizes`.

### Only model-checked

- Liveness (`EveryWaitEnds`, `SleeperWoken`, `OrphanReaped`, `KilledExits`,
  `EndOfFile`, `DataDelivered`) and what recursive definitions compute. Both are
  outside the reach of the provers: `Library`, `Filters`, `ShellParser`, `CacheSim`
  and the modules that use recursion are for TLC only.
- `LinksCounted` and `NoPanic` of `FileTable`. What holds of the links and of the
  names depends on which calls the programs make (`Calls`): with all
  of them the code does panic, `..` of a directory that has been removed leading to
  an inode that is free.
- `FilesIntact`, `SpacesIntact`, `FailureGivesBack`, `FunctionsAgree`: functions
  over data structures of recursive shape, or sequential programs whose small
  instances show what is in them.
- `HeapPartitioned` of `UMalloc`, the part of `HeapsWhole` that is about the user
  library; that of Assignment 6 is proved. Where `free()` puts a block is found by
  a search around a circle, a recursive function.

## Not modelled

- Interrupt controllers, `mp.c`, the boot loader and the assembly files: they
  program devices and load registers. Their effect on the kernel is in the
  modules that need it.
- `memide.c`: the RAM disk, not part of the default build; it never waits.
- `mkfs.c` apart from its block allocation; the printing of `ls.c`, `cps.c`,
  `procdump()` and `painters.c`; programs that make one call per argument.
- `usertests.c`, `forktest.c`, `stressfs.c`: tests, read for what they promise.
- The tracer of Assignment 4, the assembly exercises, the shell script and the
  labs: examples of a few lines without state that outlives a call.
- Undetected write errors of the disk, for which `ide.c` has no path.
- The allocator of Assignment 8: with two threads on one CPU the lines quoted under
  Findings give out one block twice, and to assume that each thread has a CPU of its
  own would leave out all that is concurrent about it.

## Plan

1. `LinksCounted` of `FileTable`, for programs that keep to what `Calls` allows in
   the run: the links of an inode are the entries that name it.
2. Runs for what is under Findings without one: the history of
   the mini-shell against its README, two threads in the allocator of Assignment 8.
