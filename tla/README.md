# A verification project for os-unix

The repository holds the laboratory programs of an operating-systems course:
about 3,500 lines of C, C++ and assembly in two directories, `5-semestr` and
`6-semestr`, with no test suite and no shared library. Each program is small
and each is about something that is hard to test: processes that share memory
under System V semaphores, threads that share a monitor under Win32 events,
daemons that leave their terminal, kernel modules that race with the users of
their /proc files and with their own interrupts. This directory specifies them
in TLA+, checks the specifications with TLC on small instances, and proves the
central results for all instances with TLAPS.

Paths below are relative to the root of the repository, without `src/`.

## 1. Inventory

Programs do not call each other, except where a row says so; what couples the
processes, threads and modules is the shared state in the second column.

| component | state it keeps | operations | hard behaviour | what makes it correct |
|---|---|---|---|---|
| producers and consumers, `5-semestr/lab5/task1.c` | a shared segment (two positions, nine slots), three semaphores, a private letter per child | `producer`, `consumer`, `make_producer`, `make_consumer`, `main` | increments in shared memory are a load and a store; `sem_flg` is 0, so a death undoes nothing; fork may fail half way | one child inside at a time; the letters go through a FIFO; no access outside the segment; everybody ends |
| readers and writers, `5-semestr/lab5/task2.c` | a shared int, four semaphores | `writer`, `reader`, `make_*`, `main` | arrays of five operations are atomic; nobody looks whether semop failed; starvation; death inside; the group kill when a fork fails | a writer that was let in is alone; semaphores equal what they count; how far a failed call does damage; who can starve whom |
| readers and writers over events, `5-semestr/lab6/main.cpp` | a mutex, two manual-reset events, two unsigned counters, three statistics, an int | `StartRead`, `StopRead`, `StartWrite`, `StopWrite`, thread loops, `Create_Threads`, `main` | the events are waited for outside the mutex and set inside it; CreateThread is not checked | the lock is a readers-writer lock; no lost wake-up; the counters never pass below zero |
| Hoare monitor, `5-semestr/lab6/a.c` | a mutex, an auto-reset and a manual-reset event, two counts, a flag, a short | `start_read`, `stop_read`, `start_write`, `stop_write`, thread loops, `main` | a thread waits for an event *while it keeps the mutex*; the stop functions take no mutex | a thread that sleeps can be woken by one that needs no mutex |
| daemon, `6-semestr/lab1/daemon.c` | the process's session, terminal, SIGHUP disposition, directory and descriptors; the lock file and its lock | `daemonize`, `already_running`, `main` | several copies race for one file; the terminal hangs up, or a signal ends a copy, at any moment; every call may fail, most of them unnoticed | a running copy is detached but for what failed; the pid file names one that came to run; one copy at a time |
| daemonize of the proc reader, `6-semestr/lab4/part1/daemonize.c` | the same process attributes | `daemonize`, `err_quit` | the same, with two forks | no terminal now or later |
| proc reader, `6-semestr/lab4/part1/1.c`, `lab4/part11` | none that outlives a call | reads /proc and prints it | input and output only | — |
| variant of the producers, `5-semestr/lab5/v2.c` | as task1.c | as task1.c | line 145 stores through a null pointer before the first fork | — |
| process exercises, `5-semestr/lab4` | pids, exit statuses, a pipe, a flag set by a signal handler | fork, wait, exec, pipe, signal | order of children, each process's own flag, the end of the file | every child that is waited for is collected, messages arrive whole, everybody ends |
| mode switch, `5-semestr/lab2/main.asm` | descriptor tables, the interrupt controllers' vectors and masks, `escape`, the registers a handler shares with the program | real mode to protected mode and back, timer and keyboard handlers | an interrupt between two steps of the switch; handlers that do not restore one register and take another as they find it | no interrupt is taken while table and vectors do not match the mode; the machine is left as it was found |
| interrupt listing, `5-semestr/lab1` | — | a disassembly listing, not a source | — | — |
| directory walk, `6-semestr/lab2` | the working directory, the open directories, the counters | `dopath`, `counter`, `main` | recursion with chdir, whose results nobody looks at; one name looked up three times; files that others move; calls that fail half way | every name is looked up in the directory it was read from; every file is counted once |
| module demos, `6-semestr/lab3` | a string and a number that never change | init, exit | none: the modules print | — |
| fortune in /proc, `6-semestr/lab4/part2` (two modules) | a page, a write index and a read index | open, read, write, init, exit | concurrent readers and writers with no lock; indices at the end of the page; a show function that seq_read may call twice; files in /proc before the end of init and after its failure | messages come back whole and in order; who leaves the page, and when |
| open files and stdio, `6-semestr/lab5` | descriptors, file offsets, stdio buffers | open, fopen, read, write, close from one or two threads | two buffers over one offset, two offsets over one file | which characters are printed or lost |
| datagram server and clients, `6-semestr/lab6/part_01` | the socket file, each socket's queue, the client's last word | bind, recvfrom, sendto, signal handlers | several servers and one name; SIGINT before bind or behind one that failed; a name that outlives its server; a length read before it is set | one server behind the name; words arrive in order and once |
| select server and clients, `6-semestr/lab6/part_02` | the table of clients, two descriptor sets | `main`, `connection`, `message`, `close_signal`; clients | a blocking read inside the loop; the search for a free slot; clients that leave with an answer unread | the client in the table is answered; what is open is watched; a clean departure ends nobody |
| virtual file system, `6-semestr/lab8` | registration, a slab cache, mounts, inodes | init, mount, make_inode, fill_sb, exit | errors half way; a mount during init and unload | nothing is left behind, nothing is used after it is freed |
| interrupt with a work queue, `6-semestr/lab9/queue` | a work queue, two work items, a counter, a shared interrupt line | init, handler, two work functions, exit | the handler exists before the queue and after it | every scheduled work finds its queue |
| interrupt with a tasklet, `6-semestr/lab9/tesklet` | a tasklet, a /proc file, a shared interrupt line | init, handler, tasklet function, show, exit | the tasklet is killed before the interrupt is freed | no tasklet runs after the module is gone |

`PROJECT.json` lists the same components with their status, and under `hazards`
every place where something can go wrong that a test would hardly reach, with
the property that would catch it.

## 2. Plan

All parts that keep state are modelled, in this order: the two semaphore
programs (the core: shared memory, several processes, failure), the two Win32
monitors (the same problem with weaker tools), the two daemons, the select
server with its clients, the programs that open one file twice, the exercises
with fork and pipe; then the fortune files with the log they promise, the life
of the five kernel modules, the directory walk, the datagram server, and the
mode switch.

Small components that never interact share one run, as the programs of
`OpenFiles`, `ProcessTree` and `ModuleLife` do: Init chooses the program.
`MCFiles` and `MCDaemons` do the same with whole modules: the one that is
chosen runs and the others stay in one initial state. `MCPrograms` holds
`ProcessTree`, `ProtectedMode` and `ModuleLife` beside the daemons in the same way,
with a specification and a run for each of the three: one module, so that
`SystemProofs` can state what all these runs check.

Abstract specifications: `BoundedFifo` (what the producers and consumers
promise together), `RWLock` (what the readers and writers over events promise),
`RWStrayLock` (the same lock for callers that do not look whether they were let in) and
`CookieLog` (what both fortune modules promise).

Theorems: section 6. Every module of a program has some, and every invariant and action property
of the runs is stated by one; what stays with TLC is at its end. The modules that carry theorems use recursive *functions*
(`semop` in `SysVSem`) and no RECURSIVE operator.

## 3. Modules

| module | of | what it holds |
|---|---|---|
| `SysVSem` | semop(2), external | an array of operations performed in order, all of them or none |
| `BoundedFifo` | abstract | a queue of at most `Capacity` letters |
| `ProducerConsumer` | task1.c | the whole program |
| `RWLock` | abstract | readers together or one writer, and the value between them |
| `RWStrayLock` | abstract | the same lock when who waits may go in uncounted |
| `ReadersWriters` | task2.c | the whole program |
| `EventMonitor` | main.cpp | the whole program |
| `HoareMonitor` | a.c | the whole program |
| `Session` | kernel, external | sessions, controlling terminals, SIGHUP, flock |
| `Daemon` | daemon.c | several copies of the program |
| `Daemonize` | daemonize.c | several copies of its caller |
| `SelectServer` | lab6/part_02 | server.c and any number of client.c |
| `OpenFiles` | 6-semestr/lab5 | seven programs that open one file twice |
| `ProcessTree` | 5-semestr/lab4 | six programs of a parent and its children |
| `CookieLog` | abstract | a log of messages read in order, one a read |
| `Fortune` | 6-semestr/lab4/part2 | fortune.c and main.c between init and exit: reads, writes, shows |
| `ModuleLife` | lab4/part2, lab8, lab9 | init and exit of five kernel modules, with what comes from outside meanwhile |
| `DirWalk` | 6-semestr/lab2 | the whole program, and somebody who moves files |
| `DgramServer` | lab6/part_01 | several server.c and client.c |
| `ProtectedMode` | 5-semestr/lab2 | the program, the interrupt controllers and the devices |
| `MC...` | | the instance TLC checks; `MCFiles`, `MCDaemons` and `MCPrograms` also put several programs together |
| `...Proofs` | | the proofs about the module of that name; `FilesProofs` those about `DgramServer`, `OpenFiles`, `DirWalk` and `MCFiles`, `SystemProofs`, in one part for each, those about `Daemon`, `Daemonize` and `MCDaemons`, `ProcessTree`, `ProtectedMode` and `ModuleLife` |

Every definition that stands for code has its lines in `PROJECT.json` under `map`.
Definitions whose names end in `_Something` and whose comment begins with
"Faulty" are not part of any specification: each is a plausible mistake in the
action it is named after, and putting it in that action's place makes TLC
report a property violated.

### ProducerConsumer

`sem`, `shm_buffer`, `shm_pos_producer`, `shm_pos_consumer` are the shared state of
task1.c under its own names. `output` is a function of the child, because the
global is copied by fork; the `output` that `main` increments is a local which
shadows it, so each producer counts from 97 (`'a'`) in its own copy. Between the two
semop calls every access to the segment is a step: the use of the slot, the
load of the position and its store. `Start` and `Stop` are the two semop calls; a
call whose array cannot be performed is an action that is not enabled, which is
what sleeping means. `Stop` includes the head of the loop and the exit. `Die` is a
signal at any point, or the `exit(EXIT_FAILURE)` after a failing semop: `sem_flg`
is 0, so nothing is undone. `ForkFails` is the parent's exit with its children
left behind. Children are numbered in fork order, consumers first, as in `main`.

Left out: failures of shmget, shmat, semget and semctl, which end the program
before there is a second process. The code computes `shm_buffer` by arithmetic on an `int *`,
so it lies farther into the page than `shm_size` says; the kernel rounds the
segment up to a page, and the distance changes nothing between the processes.

### ReadersWriters

Each writer is `StartWrite`, `Load`, `Store`, `StopWrite`; each reader `StartRead`,
`StopRead`; sleeps and prints are not steps except that a reader's printf is the
read of the int for which it is inside. The arrays have up to five operations,
which raise and lower a waiting count around two waits for zero. semop makes
them one step, so the waiting counts are never seen above zero by anybody: the
intended preference of waiting writers does not exist, which `SemAccounting`
states and `WriterProgress` is about. `ForkFails` is `kill(0, SIGKILL)`.

Lines 57, 62, 71 and 75 do not look at what semop returned. A call that can be
performed is; one that sleeps may also fail (`Interrupted`), because a stop signal
and SIGCONT end it with EINTR, and its process goes on as if it had been let in. The other
errors of semop do not occur here: EIDRM takes somebody outside the program who removes the set
(`main` does so when all its children have ended), ENOMEM takes SEM_UNDO, and the values stay small. The
history variables `strayW` and `strayR` count who is inside beyond the rule: one more
for every start call that failed, one less for every stop call that did. Which process is the
stray cannot be said, as a stray that leaves takes the count of another one along. The properties say how far the damage goes:
a writer that was let in has at most the strays beside it, the counts are those inside less the strays,
no increment is lost while no stray writer is left, and a stray reader that
remains sleeps in its stop call or leaves somebody else there. With no failed call they are
the plain properties of a readers-writer lock.

### EventMonitor

One action per wait, per release of `single_mut` and per access to `value`. What a
thread does between acquiring the mutex and releasing it has at most one effect that
a thread without the mutex can observe (an event set or reset), so it is one
step with the acquisition. The unsigned counters are kept modulo `UIntModulus`.
`waiting_writers` is incremented a second time in `StopWrite`, as in the code: it
only counts up. `main` ends the process
when its two waits return, also when threads still run; a wait for a handle
CreateThread did not give fails at once.

### HoareMonitor

The stop functions run without the mutex, so every access to a variable they
use is a step of its own, under the mutex too. `WaitRead` takes the signal of the
auto-reset event, `WaitWrite` leaves the manual-reset one. The comments at
`DecideRead` and `DecideWrite` say why reading two variables is one step there.

### Daemon and Daemonize

A copy of the program is one line of processes (when fork succeeds the parent
exits and the child is the copy from then on). `Session` holds what the kernel
does: what fork, setsid and a hang-up do to a process, and flock. The descriptors
are one value of three (inherited, closed, on /dev/null), since the code treats
0, 1 and 2 alike. `failed` is the set of calls of a copy that failed. In `daemon.c` those of getrlimit, fork, sigaction
and chdir are reported and the copy goes on; a failing getrlimit leaves `rl` uninitialised, and the
close loop then closes either all descriptors that matter or not. The results of ftruncate and write are not even looked at: the old contents
may stay, or a part of a pid may be written. `Hangup` and, in `daemon.c`, the end of a copy by a signal (`Die`) may come at any
step; nobody removes the pid of a copy that was ended. In `daemonize.c` a call that fails ends the copy. The function `lockfile` of daemon.c is never called and not modelled.

`daemon.c` leaves its second fork commented out (lines 103-106), although the
comment at line 96 says that no terminal can be had again: a running copy still
leads its session and may get another terminal, and `RunningIsDetached` promises no more than that
a hang-up does not end it unless both fork and sigaction failed. `daemonize.c` has the second fork, and `NoTerminalEver` holds.

### SelectServer

Every system call that can block, or that somebody else can notice, is a step:
`Select`, `Accept` (with the search for a slot, `Placed`), `ReadPid`, then one
step per slot in `message()`, and `EndRound`, which looks at errno. Of what
travels only the amount is kept. A client's end is one of three things for the
server: data and then the end of the file; a *reset*, when the client leaves
with an answer unread, which makes read fail (n is -1, the code tests for 0,
writes, and SIGPIPE ends it) or sets errno in write, after which `main` leaves its loop;
or a *refusal*, when the server writes to a client that left cleanly, after which the
next write is SIGPIPE. These are the kernel's and are marked external.

The loop that looks for a free slot stops at once unless slot 0 is taken, and if
it is, it only ever tests slots that are taken. So a second client gets no
slot: its descriptor is in `allset` and nowhere else, select reports it for ever,
and nothing closes it. When the descriptors run out accept fails and main ends. `pid_client` is
written one slot or more after the slot served. `OnlyFirstServed` states this as what
the code does: a client that is not in slot 0 when it is accepted never gets there, is never answered, and its
descriptor is watched for ever and never closed. Clients are followed while the server runs; what they do after its end
touches nobody.

### OpenFiles

`program` is chosen by Init, and the file, two offsets and two buffers are all there
is: 1.c has one offset and two buffers, 2.c and 2_1.c two offsets and no buffer
(`read`), 3.c to 3_3.c two offsets and two buffers, flushed by fclose. A failing
pthread_create ends the process while the first thread runs, and exit flushes
the stream that thread may have open (`CreateFails`). What 3.c to 3_3.c print about the file
is left out.

### ProcessTree

`program` is chosen by Init, and every process of the family runs the same steps:
`Fork`, `ForkFails`, then what its program has for it (`PrintAndEnd`, `OpenPipe`
and `Write`, `ReadMessage` or `ReadByte`, `StartWaiting`, `Wait`, `Return`). `rd` and `wr`
are the processes that have each end of the pipe open: fork copies them, close
and exit remove from them, and read sees the end of the file when `wr` is empty.
`CtrlC` sends SIGINT to the whole group at any moment, once; each process takes
it when it comes to it (`Interrupt`): with a handler its own copy of the flag is
set, without one it ends. Sleeping is not a step; any process may be slow. What
`ps` and `ls` do after execlp is left out.

### Fortune

`pot`, `windex` and `rindex` are the page and the two globals, under one name for both
files. Each call of a process is as many steps as it has accesses to them: for a write
the test with the address of the copy (`BeginWrite`), the copy, the load
and the store of `index += len`, and the NUL; for a read `AllRead`, the copy, and
the load and the store of the other index; for `my_show` the seq_printf, the strlen and the
same. `Fits` is the test of fortune.c as C computes it: the space is one more
than there is, and below zero an int that is compared with a size_t is huge. main.c has no test.

A process that touches what lies beyond the page, or the byte before it, is
ended within its call: vmalloc leaves a guard page. `ShowAgain` is seq_read's: when a
record does not fit into its first buffer it doubles the buffer and calls
`my_show` again, which has moved `read_index` by then.

`ImplementsCookieLog` says what of this keeps the promise of a message log. Both
programs keep it only alone: calls of two processes that overlap lose it, and `broken`
remembers why it is off. It is off, too, after a copy that fails (the process's own
buffer), after a reader's buffer was too short for the message, and, in fortune.c,
after a read of an empty pot, which moves `next_fortune` to 1. What
remains is what one process after another sees: whole messages in order,
again from the start in fortune.c; in main.c an empty message stops
every reader for good, and one that is too long for the seq buffer is passed over.

### ModuleLife

An init function is the sequence of what it takes and, for each refusal that
makes it fail, of what it gives back; an exit function is the sequence of what it gives back
and waits for. Between any two steps, on other processors: the interrupt handler
runs, the bottom halves run (`StartItem`, `EndTasklet`, `EndWork`), a process calls into /proc, the
file system is mounted and unmounted. The kernel's part is external: what free_irq,
remove_proc_entry, tasklet_kill and destroy_workqueue wait for (`Waited`), that the last two refuse new work while they wait (`Drain`: tasklet_kill once it
has found the tasklet not scheduled, destroy_workqueue at once), and that a module
with a mounted file system is not unloaded. Interrupts are not bounded.

`lab9/queue/queue.c` uses `SHARED_IRQ` and `irq_call_n`, which it does not declare; they are taken
for `IRQ_NUM` and `irq_call_count`, the names that it declares and does not use. The
data of the work items is not modelled, their memory is.

`accidents` is a history of what went wrong; `AccidentsExplained` says for
each kind the only moments in which it can. So it is a list of what is
wrong in the order of these functions, and TLC checks that there is
nothing else in the instance: an interrupt between `alloc_work` and `INIT_WORK`, or between
`destroy_workqueue` and `free_irq`; a tasklet scheduled since `tasklet_kill`; calls and mounts
that find what a failing init function left; calls before fortune.c's init ends;
`iput` after a `d_make_root` that failed.

### DirWalk

The argument is any path: where it begins (the working directory or the root) and the names it consists of. `top` is the
file it led to at the start. `stack` is the recursion: the directories that are open and the names unread in each. `arg` is
the name dopath is called with below the first call. lstat (`NotThere`, `NoDirectory`, `Directory`), opendir (`NotReadable`, `OpenDir`)
and chdir (`ChangeDir`) are steps of their own and each looks the name up again (`Named`), in `cwd`, which chdir
changes when it can. Which directories can be read and which can be searched is chosen
at the start, and the number of directories a process can open is `MaxOpen`. `Move` is another
process, which moves a file between any two of these steps; whether a readdir under way notices is open (`Seen`).
`astray` is set when a chdir does not lead where opendir did, or a directory that is open is moved: what follows has no
sense the program could be held to, and `WalkIsRight` says nothing of it. A walk that ends well ends in the
parent of its argument, which is where it began only if the argument is one name there. Line 78 of the source ends in words that were meant as a
comment. The depth only indents the output.

### DgramServer

`file` is the copy whose bind made `socket.soc`; the file outlives it. `close_app` closes the
socket, or descriptor 0 before there is one, and then removes the name: two steps, and both whoever bound the name.
A copy whose bind or recvfrom failed is on its way out of main with the handler still set (`failing`, `broken`), and SIGINT may come there, too.
`recv_len` starts as what the stack held: recvfrom fails when that is below
zero. `Send` is scanf and sendto, whose results nobody looks at; a full
queue makes it wait. `OneServer` says who has the name (`Bound`) until another copy has removed it (`robbed`), and that
it takes a copy in `close_app` without a bind of its own (`intruders`).

### ProtectedMode

`pc` names the instruction, or the few that belong together because no interrupt can tell
them apart. The controllers are kept as their vectors, masks and waiting lines; an
interrupt is accepted when the flag is set, by priority. One that meets the table or the
vectors of the other mode goes `astray`, which ends the model. `edi` and `at` are kept because
`new_int08` does not restore edi: a tick while the memory size is printed moves the
rest of it, and `DigitsMissTheClock` says where to at most.

The handlers do not load ds. Between lines 223 and 238 (`pc = "memory"`, `flat`) it holds the flat segment, and what they take
for their variables is low memory: the tick counts there, an Enter sets a byte there (`low`) and is lost, and a letter is printed where
low memory says, which may be beyond the video segment. That is an exception whose handler returns to the same instruction, for ever (`fault`).
It is assumed that the assembler reaches the variables through ds, which the program loads with their segment (123-124).
The `ASSUME` of line 23 names cs alone; an assembler that took cs for them would write into a segment that can only be
executed (29), the first tick would fault, and the program would never work: that build is not modelled.
What the low words hold afterwards is not modelled.

## 4. Runs

| run | instance | states | shows |
|---|---|---|---|
| `ProducerConsumer` | 2 consumers, 3 producers, shares 2 3 / 2 2 1, five slots, one death, fork may fail | 384,617 | exclusion, what the semaphores count, bounds, FIFO refinement, no entry after a death inside, everybody ends otherwise |
| `ReadersWriters` | 2 + 2, any sleeping call may fail, every child may die, fork may fail, int modulo 2 | 92,120 | exclusion and counts but for the strays, the abstract lock, no entry after a death inside, readers never starve, a writer does not starve once at most one reader is left |
| `EventMonitor` | 2 + 2, two rounds, up to two threads not made | 55,508 | events match counters, the abstract lock (which has no lost increment), no thread waits for ever |
| `HoareMonitor` | 2 + 2, one round, CreateThread may fail | 44,667 | readers never sleep, a sleeping writer has a waker, all writers finish, and the program ends unless an increment is lost |
| `Daemons` | `Daemon` and `Daemonize`: 2 copies each, any call may fail, a hang-up or the end of a copy at any step | 1,129,893 | what a running copy of daemon.c is sure of, whom the pid file names; no terminal ever in daemonize.c |
| `DaemonSingleInstance`, `DaemonForkFails` | 2 copies | | the two findings below |
| `SelectServer` | 3 clients of one line each, 2 descriptors to give, pid, line and buffer of 1, 6 and 5 units, SIGINT to anybody | 684,809 | who is served, which departures are harmless, that the client in the table is answered |
| `Files` | `Fortune`: 2 processes, 4 calls, a page of 7 bytes, messages of 0 to 3, read buffers of 2 and 8. `OpenFiles`: the seven programs, 7 letters to read and 6 to write, buffers of 3. `DirWalk`: 4 files in 10 shapes, 5 paths, any directory closed to reading or searching, 2 open at once, two moves. `DgramServer`: 2 copies, 2 clients of 2 words, a queue of 1 | 1,779,076 | what the page holds, the log refinement, which calls leave the page; where every letter of a file read twice is, and what is left of one written twice; that the walk is where it thinks and counts right; one server behind the name |
| `ProcessTree` | the six programs, a message of 3 bytes, fork may fail, Ctrl+C at any step | 2,514 | what a parent has collected when it returns, and that every process ends |
| `ModuleLife` | the five modules, any refusal, any number of interrupts, one caller, one mount at a time | 1,478 | what is left behind, which accidents there are and when, that loading and unloading end |
| `ProtectedMode` | four interrupt lines, the unmaskable one, three kinds of keys | 771,872 | when an interrupt goes astray, that the machine is left as found, where the digits go, when Enter leads back |

Bounds and why they are enough:

* `N = 5` slots and five letters instead of nine, in unequal shares: the code has
  exactly as many slots as letters, and so does the instance. Two consumers and
  three producers are the numbers of the code. The proofs remove this bound.
* `MaxKills = 1` in `ProducerConsumer`: one death inside already closes the section for
  good (`NoEntryAfterDeathInside`), deaths outside only remove a competitor. In
  `ReadersWriters` every child may die: `MaxDeaths` is their number, and bounds nothing.
* Two readers and two writers: the properties are about a writer against a
  writer, a writer against a reader, and the first and last of several readers.
* `IntModulus = 2` lets the shared int wrap; nothing reads its magnitude, and two values tell a lost increment.
  The strays have no bound of their own: there are never more than children inside.
  `UIntModulus = 8` and `ShortModulus = 8` are larger than any count that a
  correct run reaches, so a counter that passed below zero would show as 7.
* `Iter = 2`: the second round meets the state the first one leaves behind.
  In `HoareMonitor` one round of two writers meets it, since the second writer
  starts at any point of the first, and readers loop without bound.
* Two copies of a daemon: the race for the lock file is between pairs.
* `MaxLines = 1`: a unit is 20 bytes, so one line of 120 is read in two pieces of at most
  100 and already has two answers, which is how an answer is left unread.
  `OpenMax = 6` leaves two descriptors after the standard ones and the socket:
  the first client is served, the second gets no slot, the third meets the limit.
* `FileLen = 7`, `BufSize = 3`: two full buffers and a short one, as 24 letters are
  for buffers of 20 a full one and a short one; an odd length ends the turns unevenly.
* `MsgLen = 3`: enough for a read between two others.
* `Size = 7` bytes for the page, messages of 1 to 4 bytes with their newline: two or three messages fill it
  exactly, leave one byte, or pass its end by one or more. `MaxCalls = 4` is two more than the
  two calls that can overlap: what they spoil is met by a write and a read. `SeqRoom = 2` and `ReadLens` put
  a message on both sides of each buffer.
* `ModuleLife` has no bound but one caller and one mount at a time: the handler is at one place, an item is scheduled or not, and a module takes at most six resources.
* Four files: directories down to four levels, with the same
  name as another one somewhere else in half of the shapes, so that a lookup in the wrong directory finds something.
  `MaxOpen = 2` is one less than the deepest tree.
  Paths of no name (the root), one and two names, with `.` and `..` among them, from any directory. `MaxMoves = 2`: a file
  that is moved on and back, and counts that one move may add once are not checked with two.
* Two copies of the datagram server: the name is lost or kept between pairs (a third copy may bind what the second one removed, which the proof covers). A queue of one makes a client wait.
* `ProtectedMode` has no bound: memory is counted in one step, and a line that waits is not raised again.

`CHECK_DEADLOCK FALSE` stands where a program may really stop: after a death
inside, in the semaphore programs, for the daemons, whose copies exit
or run without further steps, and for the select server, which ends. The two Win32 programs are checked for deadlock.

## 5. Fairness

* Weak fairness of each process and thread: the scheduler runs what can run.
* Strong fairness of `StartWrite` and `StartRead` in `ReadersWriters`: the kernel keeps
  sleeping semop calls in a queue and tries them, oldest first, whenever a value
  changes, so a call whose array becomes performable again and again returns.
  It is fairness of the call that is performed: no call need fail.
  `ProducerConsumer` needs no more than weak fairness, because shares are finite.
* Strong fairness of `LockRead` and `LockWrite` in `HoareMonitor`: a mutex serves its
  waiters in the order of arrival. The readers take it in an endless loop, and
  without this a writer could wait for ever. `EventMonitor` has finite loops and
  weak fairness is enough.
* `SelectServer`: weak fairness of the server and of each client's `WritePid`, which
  nothing delays; none for typing, reading and leaving, which are the user's.
* `ProcessTree`: weak fairness of each process's own steps, not of `CtrlC` or `Interrupt`.
* `ModuleLife`: weak fairness of the steps of init and exit, of the handler, of bottom halves and of calls in
  the kernel, none of which sleeps for another one; strong fairness of `Drain`: tasklet_kill looks again and again at a tasklet that
  interrupts keep scheduling and that runs in between, and finds it not scheduled one day; none for `Interrupt`, `Call`, `Unload` and the mounts, which come from outside.
* `ProtectedMode`: weak fairness of the program and of `new_int08`, strong fairness of `new_int09`: the timer has priority, and
  a handler ends before the next tick, so between two ticks a key that waits is served.
* None of deaths, failing calls and hang-ups is fair: they may not happen.

The liveness properties say what a death or a failure excuses. `Termination` of
`ProducerConsumer` excuses a death and a failing fork (after a fork that fails
the consumers left behind sleep for ever); `ReaderProgress` and `WriterProgress`
ask the process itself to live, nobody to have died inside and no stray to remain of the kind that would
sleep in its stop call or keep the process out; `WriterProgress` also asks
that at most one reader is left, because two readers that overlap for ever keep
`SEM_AR` above zero and starve every writer. `Finish` asks of all writers to finish unless a CreateThread failed, so none may sleep for ever with the mutex or for it; it
excuses main and the readers when an increment is about to be lost: in a.c `c_write` starts signaled and manual-reset, two writers may
be inside together, and when one increment is lost the readers' loop, which
waits for the full count, never ends. `FirstIsAnswered` excuses a client that leaves and a
server that ended; without `WritePid` it is false, because the server reads a new
client's pid with a blocking read inside the loop. `EveryoneEnds` has no excuse: in
`lab4` a failing fork or a signal leaves nobody waiting. `LoadingEnds`
has none either, but a module may also end `stuck` (the kernel ends init in `FreeNull`). `EnterReturns` has one: while the memory is counted an
Enter, or a letter before it, may meet low memory. An Enter after that leads back.

## 6. Proofs

Each theorem holds for every value of the constants. "Run" says which property of section 4 it
states; the run shows that on a small instance.

| module | theorem | states | run |
|---|---|---|---|
| `ProducerConsumerProofs` | `SectionIsExclusive`, `SemaphoresCount`, `AccessesInBounds` | one child inside; what the semaphores count; no access outside the segment | `MutualExclusion`, `SemAccounting`, `AccessInBounds` |
| | `IncrementsAreAtomic` | what a store writes back is one more than what is there | |
| | `DeathInsideLocks` | nobody enters after a death inside | `NoEntryAfterDeathInside` |
| | `Refinement` | every step is a step of `BoundedFifo` or a stutter | `ImplementsFifo` |
| | `NeverStuck` | unless a producer dies or somebody inside, a child can go on until all have ended | |
| `ReadersWritersProofs` | `SectionIsExclusive`, `SemaphoresCount` | a writer inside is alone but for the strays; what the semaphores count whatever calls fail, and that no waiting count is ever seen raised | `Exclusion`, `SemAccounting` |
| | `IncrementsAreAtomic`, `DeathInsideLocks` | no increment is lost while no stray writer is left; who is let in after deaths inside | –, `NoEntryAfterDeathInside` |
| | `Refinement` | every step is a step of `RWStrayLock` or a stutter | `ImplementsLock` |
| | `NeverStuck` | who cannot enter waits for somebody inside who can go on, a reader only for a writer; who cannot leave is there because of a stray | |
| `EventMonitorProofs` | `EventsFollowCounters` | no counter wraps, and each event is signaled exactly when the other side's counter is zero | `CountersMatchEvents` |
| | `IncrementsAreAtomic`, `Refinement` | nobody stores between a load and its store; every step is one of `RWLock` or a stutter | –, `ImplementsLock` |
| | `NeverStuck` | while a thread is in its loop, one can go on | |
| `HoareMonitorProofs` | `ReadersPass` | a reader that waits with the mutex finds `c_read` signaled | `ReadersNeverSleep` |
| | `WritersAreWoken` | a writer that sleeps with the mutex has a waker that needs none | `SleepingWriterHasAWaker` |
| | `WaitingIsNeverSeen` | no thread meets a waiting count of the other side: the preference for writers is dead code | |
| | `NeverStuck` | while a thread is in its loop, one can go on, although they sleep with the mutex | |
| `SystemProofs` | `DaemonIsDetached`, `PidFileIsRight` | what a running copy of daemon.c is sure of, call by call that may have failed; whom the file names, whoever was ended | `RunningIsDetached`, `PidFileNamesRunning` |
| | `DaemonizeLosesTerminal`, `DaemonsLoseTerminal` | no terminal ever in daemonize.c, alone and in `MCDaemons` | `NoTerminalEver` |
| | `ParentsCollect` | whom a parent that returns has waited for, and what it has read | `ParentCollects` |
| | `MachineIsRestored`, `DigitsStayClear`, `OnlyTheWayThereIsUnsafe` | the machine after the program; the digits against the clock; when an interrupt goes astray | `AsItWas`, `DigitsMissTheClock`, `AstrayOnlyOnTheWayThere` |
| | `LeftBehind`, `AccidentsAreExplained` | what each kernel module leaves behind; who meets what is not there | `LeavesNothingBehind`, `AccidentsExplained` |
| | `ProgramsRunAlone` | each of the three specifications of `MCPrograms` implements that of its module alone | |
| `SelectServerProofs` | `OneIsServed`, `CleanLeavesEndNobody` | who has no slot when accepted is never answered and never closed; who leaves with everything read is never written to | `OnlyFirstServed`, `CleanLeaveIsHarmless` |
| `FilesProofs` | `FilesHaveOneServer` | who bound the name has it until a copy without a bind removes it; words printed in order | `OneServer` |
| | `FilesLoseNoLetter`, `FilesLeaveOneHalf` | where every letter of a file read twice is; what is left of one written twice | `EveryLetterAccounted`, `LastCloseWins` |
| | `FilesWalkCounts` | a walk over any tree, from any path, is where it takes itself to be, counts right and ends in the argument's parent | `WalkIsRight` |
| | `FilesRunFortune` | the composition runs `Fortune` as it is | |
| `FortuneProofs` | `PageIsTheLog` | the page holds the log, and both indices are ends of messages | `PotHoldsLog` |
| | `CookiesComeInOrder` | every step is a step of `CookieLog` or a stutter | `ImplementsCookieLog` |
| | `FaultsOnlyAtTheEdge` | which calls leave the page when no two overlap | `FaultsAtTheEdge` |

### Assumptions

One theorem states its own: `NeverStuck` of `ProducerConsumer` assumes that the consumers' shares add up to no more
letters than the producers' (`EnoughLetters`; 9 and 9 in the code), since a consumer with nothing left to take sleeps for ever.
Else nothing is assumed but the named ASSUMEs of the modules, which TLC evaluates in each run: the
constants have their types, and

* `ProducerConsumer`: every share is positive and all letters fit the
  segment (`Cardinality(Items) <= N`, in the code 3 + 3 + 3 = 9). It is needed: the
  positions never wrap, so one more producer would write past the end.
* `EventMonitor`, `HoareMonitor`: the counters are wider than the number of threads, or of
  writers' rounds (32 and 16 bits in the code).
* `SelectServer`: there is a descriptor for the socket and at most as many as slots; `Daemon`, `DgramServer`: the
  model values "nobody", "empty", "none", "garbage" name no copy or client.
* `OpenFiles` (in `FilesAssumption`): the buffer is not empty, and the alphabet has an even number of letters (26 in
  the code), half for each stream.
* `DirWalk` (in `TreesAssumption`): finitely many files in trees: the root is a directory, the others lie in directories, under a name of
  their own there that is neither `.` nor `..`, and no set of files each of which lies in another one of the set (`IsTree`).
* `ProcessTree` and `ModuleLife` (in `ProgramsAssumption`): the message has a byte.
* `Fortune`: there is a process and a byte; a message is a sequence of
  letters that are neither NUL nor newline; seq_file's first buffer is no longer than the page.

### The inductive invariants

No property of the table is inductive alone. Each module's `Inv` is the property with what it rests on:

* `ProducerConsumer`: exclusion needs `SEM_BINARY` to be zero whenever somebody is inside, the
  semaphores' values need exclusion and need increments not to be lost, and these need exclusion again. `LoopBound`,
  `NotForked` and `PositionIsCount` (the producers' position is the number of letters
  produced) close the circle. Bounds follow: a producer inside is about to produce an item not
  produced yet, so what is produced is a proper subset of `Items`; a consumer inside has taken from
  `SEM_FULL`, which is natural, so the producers are ahead. The refinement adds `PrintedSlots`
  and `LettersInOrder`.
* `ReadersWriters`: the same circle, with the waiting counts at zero between any two calls, and with the strays in each sum: `SemsExclude` says that the
  *counts* exclude each other, which no failed call can change, and `SemAccounting` what they say of who is inside.
* `EventMonitor`: `MutexOwner` and `ValueIsCount`, which says that `value` is the
  number of rounds stored, so that the abstract lock's value is the code's.
* `HoareMonitor`: `ReadersCounted` (nr is who is between its two counts), `WaitingCounted` (only the mutex's owner can
  be in a waiting count), `ClaimHasWriter` (wrt stays set only while somebody will clear it) and
  `SignalTaken` (c_read is down only inside the start_read that took it). A writer's waker is
  then one of these threads. The stop functions need no mutex, so the hard steps are those
  that pass the duty to wake from one thread to another.
* `Daemon`: what holds from which step on, but for the calls that failed. `Daemonize`: a child of setsid's leader leads no
  session, and only a leader can get a terminal.
* `ProcessTree`: `PlacesFit` says who stands where in which program, `WaitsCount` how often each process has called
  wait, which is how many of its children it has taken (`ReapedAreChildren`). What has been read followed by what is
  still in the pipe is a whole that only a write changes: `OncePerChild` says that it is one message at most of each
  child, and `NothingLost` that in task4.c, without a signal, every child that is done is in it. Somebody must
  therefore keep a reading end while a child has still to write, and a writing end while the parent
  has still to read; both are parts of `NothingLost`. `WholeMessage` is the same for task5.c.
* `ProtectedMode`: `Modes` and `Controllers` say at each instruction what the program has set so far. In `Digits` the place
  of the next digit is one of three that depend on whether, and when, a tick came (`ToPrint`), two less a digit.
* `ModuleLife`: what is left to do is always an end of one of the module's fixed sequences of calls (`OnCourse`), so its
  length says what has been done: `Tasklet`, `Queue`, `VirtualFc` and `FortuneModules` say for each length what is held,
  freed or still running. The error path of a refusal anywhere in init is an end of the longest one.
* `SelectServer`: `OneConnection`, `EndsByLeaving` and `AnswersForFirst`: slot 0 is not given to another client
  while an answer waits.
* `DgramServer`: `NameIsHeld`: who has bound the name has it unless it was robbed of it;
  so while no name is removed there is one queue, and its order with what is printed is one order (`InOrder`); of one copy it always is.
* `OpenFiles`: one statement per program of where its offsets and buffers are: buffers are runs of consecutive
  letters that end where a read began (`BuffersRun`), turns alternate (`TurnsCopy`), a writer's
  buffer is its half of the alphabet so far (`WritersBuffer`).
* `DirWalk`: `Path` (each open directory is the parent of the next, and the last is the working directory). How often a file is
  counted is not a matter of that file alone: what lies below a directory still to be read may be counted, too. `Counts`
  says that there is a set of files (`Ahead`) closed under going down, with every pending file in it and no directory the walk is
  in, none of which was counted since the last move. A step takes from the set the file it counts; a move makes all other files a new one. While nothing
  is moved `NothingMissed` says the rest: only what is below the argument is counted or pending (`Below`), what is below it and not counted is pending or
  its directory is not counted (`Complete`), the open directories are a chain from `top` down (`Stacked`), and an error has its cause (`Explained`). At
  the end nothing is pending, and a tree has no file without an end to that chain. This needs no induction over the tree: "below" is defined by
  closed sets (`Above`), and `AboveFacts` derives from them what the steps need. That too deep a tree was the cause of a failing opendir is a count of the chain.
* `Fortune`: `OneCall` (while no calls overlapped, no copy failed and none left the page, one process at most is in a call) turns the rest into a sequential
  argument: `PageEdges` says of the page's edges, at each step of that call, what `FaultsAtTheEdge` is about;
  `Layout` says where each message lies, also half way through a write. The end of the first k messages is stated
  as the cardinality of a set of pairs and not as a sum, because a sum over a sequence would
  be an induction; one message adds one block to the set. In the refinement `passed` is the number of messages that
  end at or before the read index, and `PassedIs` shows it to be k when the read index is the end of the k-th.

Deadlock freedom (`NeverStuck`) is the part of the liveness properties that needs no fairness. Each proof
starts from the same `Inv`. `ProducerConsumer` needs one more invariant, `ConsumedIsCount`: the consumers' position is the
number of letters taken, so if all the consumers sleep on `SEM_FULL` and all the producers have
ended there would be a letter left over. In `HoareMonitor` a sleeping writer's waker and a sleeping reader's signal are in `Inv`.
In `ReadersWriters` the statement is stronger, because deaths and failed calls are part of it: who waits to enter, waits for somebody inside.

Lemmas that several proofs need stand before them. `PerformAdd`, `PerformZero` and `SemopTwo` or
`SemopFive` state what semop does to the arrays of two and five operations of the programs; the recursion
over the array is unrolled, since its length is fixed. `MinExists` gives a least member to a set of naturals, which
the searches for a free descriptor and for the end of a text are; it follows from the finite sets' own
well-foundedness. A preservation proof has one lemma or case per action.

### Left to TLC

* Everything under fairness: `Termination`, `ReaderProgress`, `WriterProgress`, `Finish`,
  `FirstIsAnswered`, `EveryoneEnds`, `LoadingEnds`, `EnterReturns`. Of the first four, that nobody
  is stuck is proved.
* `semop` for arrays of any length, which is an induction over the array.

## 7. Findings

Each is a run that TLC ends with a counterexample.

* `SingleInstance` — `6-semestr/lab1/daemon.c:139` says that the lock file keeps the
  daemon to one copy. Line 56 calls `flock(fd, LOCK_EX | LOCK_UN)`, which is EINVAL and
  locks nothing: two copies run.
* `LostTerminal` — line 88 says that the terminal is lost. When fork fails, line 89 reports it and goes
  on; a group leader's setsid fails, and the daemon runs with its terminal.

Stated as properties that hold, because nothing in the repository says otherwise: the waiting
counts of task2.c never have an effect; a semop of task2.c that fails lets its process in without the lock, and the
lock is off by one until somebody's stop call fails; `waiting_writers` of main.cpp drifts by
one with every write; a reader of a.c never waits for a writer; the select server
serves one client at a time and leaks the descriptors of the others; two readers or
writers of the fortune files at once lose messages; the kernel modules meet the
accidents that `AccidentsExplained` lists; an interrupt of main.asm may go astray before its cli,
and an Enter that is handled while the memory is counted is lost; a datagram server whose bind failed can still remove the other's name.

## 8. Not modelled

* The proc reader (`lab4/part1/1.c`, `lab4/part11/main.c`) reads files of /proc one after another and writes
  what they say into a text file: input and output, and no state between two files. Its `daemonize` is modelled.
* `5-semestr/lab5/v2.c` stores through a null pointer (line 145) before its first fork and otherwise repeats task1.c.
* The module demos of `6-semestr/lab3` only print. `md3.c` refuses to load by design, and `md2.c` calls
  `md1_noexport`, which is not exported, so it does not link.
* `5-semestr/lab1` is a disassembly listing of the BIOS's timer handler.
* Of `main.asm`: the A20 line, the descriptors, the table of letters
  and the places they are typed to, what low memory holds, and the memory count itself.
* Of the kernel modules: the contents of inode, superblock and work items, the slab's constructor, and what the log prints.
