# ChibiOS/RT kernel, drivers and services: TLA+ models and proofs

The firmware in `src/` is ChibiOS/RT 2.6.0 on an STM32F4, with its HAL, a shell
over USB serial, a small POSIX layer over FatFS, lwIP and a JavaScript
interpreter.  This directory holds models of the kernel, of the drivers with
interrupts of their own and of the services above them, checked by TLC, and
proofs about the kernel, the drivers and the files, checked by TLAPS.  `PROJECT.json` relates every
definition to the lines it stands for, and lists the runs, the hazards and the
theorems.

## The system

### Parts, their state and their operations

| part | state | operations | meets |
|---|---|---|---|
| scheduler (`chschd.c`, `chinline.h`) | ready list, running thread; per thread `p_state`, `p_prio`, `p_preempt`, the union `p_u` | make ready, sleep, sleep with a timeout, wake, reschedule, yield, preempt on the way out of a handler | everything below |
| virtual timers (`chvt.c`, `chvt.h`) | the list of deltas, the system time | set, reset, tick | `wakeup()` of the scheduler, user callbacks |
| semaphores (`chsem.c`, `chbsem.h`) | counter and queue | wait (timed or not), signal, signal-and-wait, reset, add | scheduler, timeouts |
| mutexes, condition variables (`chmtx.c`, `chcond.c`) | owner, queue, stack of owned mutexes, `p_realprio` | lock, try, unlock, unlock all; wait, signal, broadcast | priorities, queues of other mutexes |
| mailboxes (`chmboxes.c`) | circular buffer, two semaphores | post, post ahead, fetch, reset; from threads and handlers | semaphores |
| threads (`chthreads.c`, `chdynamic.c`, `chregistry.c`) | references, registry links, waiting list, memory | create, exit, wait, add a reference, release, walk the registry, set the priority, sleep until | heap, scheduler |
| messages (`chmsg.c`) | queue of senders per thread | send, wait, get, release | scheduler |
| events (`chevents.c`) | listeners, pending masks, flags | register, broadcast, signal, wait for one, any, all | scheduler, timeouts |
| I/O queues (`chqueues.c`) | byte buffer, counter, waiting threads | get, put, read, write, reset | drivers through `q_notify` |
| memory (`chmemcore.c`, `chheap.c`, `chmempools.c`) | core, free list, pool | allocate, free | mutex or lock |
| USB serial (`serial_usb.c`, `usb.c`, `OTGv1/usb_lld.c`) | two queues, busy bits, FIFOs, the pump thread | read, write, endpoint callbacks, interrupt, pump | I/O queues, host |
| USB endpoint 0 (`usb.c`, `usbcfg.c`) | stage of the transfer, device state, FIFO memory | SETUP, IN, OUT, reset | host |
| Ethernet (`mac.c`, `mac_lld.c`, `lwipthread.c`) | two descriptor rings, link | wait for a descriptor, release, interrupt, drain | DMA, semaphores, events, lwIP |
| files (`posix*.c`, `ff.c`, `sdc.c`, `cmd_mount.c`) | descriptors, file objects, volume, card driver | mount, unmount, open, close, change of card | card |
| volume (`ff.c`, `fatfs_diskio.c`) | FAT, directory, window, file buffers | open, read, write, seek, sync, close, truncate, unlink, mkdir, rename | card, power |
| line editor, shell (`rdline.c`, `ngshell.c`) | edit buffer, history, arguments | keys, lines | terminal |
| other HAL drivers, lwIP port (`sys_arch.c`) | stop / ready / active | start, stop, transfer; wrappers | threads waiting for a handler |

### What is hard about it

- **Who may take a step.**  An `S` or `I` function runs with the kernel locked
  (BASEPRI raised), so it is atomic up to the point where its thread is switched
  out.  What a blocked thread does next happens when it runs again, which may be
  much later than when it was made ready.
- **Windows in the tick.**  `chVTDoTickI` releases the lock around each callback,
  when the timer is already out of the list.  `mcuconf.h` gives the
  ADC, I2C, timer and some other interrupts priorities 5 to 7, more urgent than
  the 8 of SysTick, so their handlers may run there; USB at 14 may not.
- **One union.**  `p_u` holds the object a thread waits on, then the message it is
  woken with, then its exit code.
- **Lists sorted by a value that changes.**  Priority inheritance changes `p_prio`
  of threads that are in sorted queues.
- **Unlocked tails and windows.**  `chThdRelease` decides under the lock and acts
  without it; `onotify` and `inotify` release their caller's lock between a test
  and what follows from it; `macWaitTransmitDescriptor` tests in one critical
  section and waits in another.
- **Hardware as a party.**  The USB core and the Ethernet DMA work on what the
  driver has prepared while the driver prepares more.
- **Unsigned time.**  Differences of `systime_t` wrap.
- **Power.**  FatFs has no journal.  What is on the card when the power fails is
  decided by the order in which one window moves over the FAT and the directory.
- **State in several layers.**  A file is valid if a descriptor, a file object, a
  volume and the state of the card driver agree, and the card may be changed.

The configuration is the application's (`src/app/chconf.h`): a time quantum,
first-in first-out semaphores, all kernel services, assertions compiled out.

## The models

`ChSched` holds the scheduler as one record `k` and each function of `chschd.c` as
an operator from the record to the one it leaves behind, under its name in the
code.  `ChSys` adds the contexts: `pc` is the call in which a thread was switched
out, `irq` where the tick handler is, `loop` the loop of a kernel function under
way.  A loop over a list of threads takes one step per round, with everything
else locked out, so that the proofs and the invariants speak about every round.
A list is the sequence of its threads; a message, a parameter or an exit code is
a member of a small set.

| module | code | actions |
|---|---|---|
| `ChSched` | `chschd.c/.h`, `chinline.h`, `chcore_v7m.c` | operators only: `chSchReadyI`, `chSchGoSleepS`, `wakeup`, `chSchWakeupS`, `chSchRescheduleS`, `chSchDoYieldS`, `_port_irq_epilogue` |
| `ChSys` | `chsys.c`, `chvt.h`, `chcore_v7m.c`, `chthreads.c` | chSysInit, start, sleep, yield, tick, expiry, callback, end of the tick; shared by the components |
| `ChSem` | `chsem.c`, `chbsem.h` | waits, signals, resets, additions, each from a thread and from a handler where the code allows |
| `ChMtx` | `chmtx.c`, `chcond.c`, `chThdSetPriority` | lock with the walk along the owners, unlock, unlock all, condition waits, signals, broadcasts |
| `ChMBox` | `chmboxes.c`, with `ChSem` as an instance | post, post ahead, fetch (threads and handlers), reset |
| `ChMsg` | `chmsg.c` | send, wait, get, release, with servers that answer in any order |
| `ChEvt` | `chevents.c` | register, unregister, broadcast with flags, signal, the three waits with and without a time |
| `ChQueues` | `chqueues.c` | get, read, put, write with timeouts; the handler's side; reset |
| `ChVT` | `chvt.c/.h`, `chThdSleepUntil` | set, reset, tick, expiry, call, return, sleep until |
| `ChThreads` | `chthreads.c`, `chdynamic.c`, `chregistry.c` | create, exit, wait, add a reference, release in its five steps, walk the registry in two critical zones for each step; the callers hand references on |
| `ChMem` | `chmemcore.c`, `chheap.c`, `chmempools.c` | core, heap (search and provider apart) and pool: allocate, free |
| `SerialUsb` | `serial_usb.c`, `usb.c`, `OTGv1/usb_lld.c` | put and get up to each unlock, the handler in two steps, the pump in seven, reset, configuration, stop, start |
| `UsbEp0` | `usb.c`, `usbcfg.c`, `OTGv1/usb_lld.c` | SETUP, IN and OUT completions, bus reset; the host |
| `Mac` | `mac.c`, `mac_lld.c`, `lwipthread.c` | lock, wait for and release a descriptor, interrupt, drain, link poll; the DMA |
| `Files` | `posix.c`, `posix_fatfs_provider.c`, `ff.c`, `fatfs_diskio.c`, `sdc.c`, `cmd_mount.c` | mount, unmount, open, close, opendir, closedir; the card |
| `FatFs` | `ff.c`, `fatfs_diskio.c` | open, read, write, seek, sync, close, truncate, unlink, mkdir, rename, each with a loss of power before any of its sector writes |
| `RdLine` | `rdline.c`, `ngshell.c` | every key, end of input, parsing; the terminal |
| `AbsSem`, `AbsMBox`, `AbsMsg`, `AbsQueue`, `AbsVT` | | what the component promises, with no scheduler |
| `MCSem`, `MCLive`, `MCMtx`, `MCIpc`, `MCThreads`, `MCServices`, `MCDrivers` | | instances |
| `ChSchedProofs`, `SemSteps`, `ChSemProofs`, `ChMsgProofs`, `MsgRefinement`, `UsbEp0Proofs`, `MacProofs`, `FilesProofs` | | proofs |

In `ChSys` an armed sleep timer may expire at any later tick; which one expires
when is the subject of `ChVT`, where time is counted and the threads are not
scheduled.  The two models split the question at the callback.  In the same way
`ChQueues` has the scheduler and an arbitrary handler, and `SerialUsb` the handler
and the notifications, with threads that interleave wherever the lock is free.

`Files` is about which card, volume and file object belong together, and leaves the
contents out; `FatFs` is about the contents, on one card that stays in.  Its volume
is a record: `card`, the image of the sectors; `seen`, the image with the window in
front of it; and the fields of FATFS.  Each function of `ff.c` is an operator from a
record to a record, and each `disk_write` appends the image it replaces to `trail`.  A
call is one step, since the volume is locked during a call (`_FS_REENTRANT`), and ends
either as the code has it or with the power lost and an image of the trail on the
card.  `kept` remembers what FatFs has reported to be done, `want` what was written
to an open file.  A cluster is a sector of two units, a directory sector holds one
entry, and a sector of the FAT two, so that chains cross sectors of the FAT.

The hardware, the host, the card and the terminal are modelled from what the code
does with them, and marked external: a core that sends what is prepared and
pushed; a DMA that goes around its rings and stops at a descriptor it does not
own; a host that follows the stages of a transfer; a card that may be pulled and
replaced and answers only after it was connected; a row of cells with a cursor.

`MCIpc`, `MCLive`, `MCServices` and `MCDrivers` each put several components side by
side that share no state of their own.  The variable `part` is chosen at the start,
the component it names takes all the steps, and the variables of the others keep
their initial values: the behaviours are the union of those of the components,
and every invariant is checked on every component's.  The fairness of such a
specification is that of the component explored.  `MCMtx` and `MCThreads` do
the same with `setup` for environments of one component, `MCSem` for the semaphores
and the timers.

An operator whose comment begins with "Mutant" is a wrong version of the
definition that follows it.  It is used by no specification; putting it in the
place of the definition must make the property named in `PROJECT.json` fail.

## What the runs check

All instances with a scheduler have the idle thread beside the threads named here,
and a quantum of one tick, so that every tick can end a time slice.

| run | instance | shows |
|---|---|---|
| `sem`, semaphores | 3 threads of 2 priorities, a counting and a binary semaphore | threads are in the list their state says; the counter and the queue agree; the highest priority runs; timers on stacks are gone before their frame; a call returns the message it was woken with; refinement of `AbsSem` |
| `sem`, timers | 2 timers, 1 sleeping thread, a `systime_t` of 6 values | refinement of `AbsVT`: each timer is called in its tick; a timer is in the list when it is armed; a sleeper wakes on time, across the overflow too |
| `live`, semaphores | 2 threads of one priority, one semaphore | a timed wait or sleep ends; a ready thread gets its turn among its peers |
| `live`, messages | 2 clients, a server that outranks them and one of their priority, which may hold 2 messages | refinement of `AbsMsg`: each message is answered once, to its sender; a client whose message is held sleeps; no message waits beside a server that sleeps; a message sent is received |
| `mtx` | 3 threads of 3 priorities, 2 mutexes, 1 condition variable, in three setups: fixed priorities, raised ones, raised and lowered ones | lists, ownership, and inheritance: a thread runs at the highest priority of those it holds up, no more and no less, unless an owner lowers its own |
| `threads`, heap | 4 threads, 2 of them in the heap | exit codes, references and the heap, each reference with the thread that took it |
| `threads`, shared | 3 threads, 1 of them in the heap, up to 2 references each | references are handed on and found in the registry, so that two threads may give theirs back at once: the memory stays while there is a reference and is freed once |
| `threads`, static | 3 static threads | walks count references; every active static thread is in the registry |
| `ipc`, mailboxes | 3 threads, handlers, 2 slots, 2 messages | refinement of `AbsMBox` with promised slots accounted for; nobody sleeps on what is there |
| `ipc`, events | 2 threads, 2 listeners, 2 events, a flag | nobody sleeps over an event it waits for; a wait returns events it asked for, or none after its time; flags set are announced |
| `ipc`, queues | 2 threads, 2 bytes of room, both directions | refinement of `AbsQueue`, a bounded FIFO of bytes; no thread sleeps while there is a byte, or room, that nobody was woken for |
| `services`, memory | 2 clients, 16 addresses, 2 sizes and a pool | the blocks in use, free and in the pool tile what the core has given; the free list is sorted and coalesced; a block has the room asked for |
| `services`, line editor | 4 characters of buffer, 2 lines of history | the screen shows the buffer after every key; the buffer and the history hold whole strings; the arguments are the words of the line |
| `services`, files | 2 files, 1 directory, 3 cards | nothing FatFs accepts belongs to another card than the one that answers; file objects are owned by descriptors held |
| `services`, volume | 4 clusters, 2 names, 1 file object, 2 values, up to 8 calls | at every write the volume on the card is sound, and no cluster is lost while the power is on; what FatFs has reported to be done survives; `f_read`, of any length at any position reached, returns what was written there last |
| `drivers`, serial | a writer and a reader, two writers, or two readers; queues of 2 packets of 2 bytes, a FIFO of 1 packet | no transfer runs past a queue although sizes are read before the lock is released; no output is left behind; only a transfer that fits in the FIFO can lose its completion; a blocked writer goes on unless one is lost |
| `drivers`, endpoint 0 | sizes 0 to 5, packets of 2 | device and host agree on the stage; every transfer ends |
| `drivers`, Ethernet | 2 senders, rings of 2 | the rings are stretches in order, with each descriptor in one hand; a frame given to the DMA is sent; a frame received is taken |

Three threads are the least number with a waiter, an owner and someone in
between, and give queues long enough for a wrong end or a wrong place to show.
The system time of six values overflows within a few steps of any state.  Sixteen
addresses hold three heap blocks with a free one between two others, which is
what merging on both sides takes.  Sizes up to 5 with packets of 2 have every case
of a transfer: empty, short, whole packets, shorter or longer than the host asked
for.  Queues of two packets, twice the FIFO as in the application (256 and 128
bytes), let one fill while the other is sent and make the pump wait for the FIFO
in the middle of a transfer.  Rings of two
are full, empty and half full.  Two lines of history let a line be recalled,
changed and entered again.  Two file objects let one file be open while
another is opened and fails.  Four clusters, one of them the root directory, are
enough for a file of two clusters, a directory that grows and a full card; eight
calls for a file to be written, truncated and its clusters used by another name.
Two values of a unit, 2 only over what is there, tell an overwrite from what was
there before.

Named bounds: `MaxCnt` for the counter of a semaphore, `MaxRefs` for the references
to a thread, `MaxHeld` for the messages a server, or the references a thread, holds, `MaxN` for the bytes of a
read or write, `MaxLines` for the lines entered (one less than the arena has
entries), `MaxCards` for insertions, `MaxIds` for mounts, `MaxSize` for
the size of a file and `MaxCalls` for the calls of FatFs; each is a guard of the
action that counts up.  Symmetry is used for mutexes, message values and timers,
which no definition tells apart, and in no liveness run.

Where the code promises a behaviour only under a condition, the condition is a
constant or a setup of the model, or a conjunct of the next-state relation in an
`MC` module.  Some of the runs that lift one are findings:

| run | finding |
|---|---|
| `mtx_inheritance_doc` | `chThdSetPriority` lowers an owner that has a waiter of equal priority; a later lock stops its walk there, and the owner above is not raised |
| `mbox_reset` | a reset while a woken poster has not run lets the count of used slots exceed the size |
| `threads_registry` | `REG_REMOVE` in `chThdRelease` is not locked; a thread created in the middle is lost from the registry |
| `mac_tx_wait` | a transmit descriptor freed between the test and the wait of `macWaitTransmitDescriptor` wakes nobody; the sender is queued beside a free descriptor |
| `usb_reconfigure` | `usb_event` initialises the endpoints at every SET_CONFIGURATION and only a bus reset gives FIFO memory back: the seventh, with the sizes of the application, exceeds the memory of the core ("OTG FIFO memory overflow"); the assertion "already initialized" of `usbInitEndpointI` fails at the second |

`PriorityAsNeeded` leaves out the setup in which owners
lower their priority, and `ResetAnyTime` is off in `ipc`: with the behaviour of the
finding, the properties of those runs do not hold.  The endpoint 0 of `drivers` is
configured again as long as there is FIFO memory.  `WakesOnTime` speaks of sleeps that have a timer: `chThdSleepUntil` of the
tick just before the present one computes `TIME_INFINITE` and sets none.

`VolumeSound` and `SyncedSurvives` leave out a loss of power in three critical
sections: `f_rename`, whose comment says so; `f_truncate` until the next `f_sync`,
when the entry still has the old size; and `dir_next` between the link to a new
cluster of the directory and its clearing.

### Remarks on the code without a run

- `chSchWakeupS` puts the caller it preempts behind its peers, where a
  `chSchReadyI` followed by a `chSchRescheduleS` puts it ahead of them.
- `chVTDoTickI` reads `vt_func` before and `vt_par` after the unlock: a handler more
  urgent than the tick that sets the timer again in between changes the argument
  of the callback.  No property speaks of the parameter.
- `onotify` and `inotify` release the lock between the test of the endpoint and the
  start of the transaction.  A second thread that finds the endpoint free in that
  window prepares its own transaction over what the first has started, or over
  what the pump has begun to push, and `TransfersFit` fails.  `NoneOverrun` in
  `MCDrivers` leaves that out: two writers, or two readers, compete everywhere else.
  In the same window a bus reset or `sduStop` makes the driver start a transaction
  on a port that is down, and `NothingStalls` fails; `OrderlyUpAndDown` has the port
  come up and go down between transactions.
- `otg_epin_handler` reads DIEPINT and then clears all of its bits.  A transfer that
  ends between the two accesses loses its completion, and its writer is not served
  any more.  The model has the case, and the properties say how far it goes:
  `CompletionKept` that a transfer longer than the FIFO is safe, `WriterServed`
  that nothing but a lost completion stops a writer.
- A walk of the registry can end with a reference to a thread that is freed, against
  the comment of `chRegFirstThread` ("A reference is added to the returned thread in
  order to make sure its status is not lost"), in two ways: `chThdRelease` has
  found no reference left, and a walk takes one before the memory is freed; or the walk goes
  on from a static thread that has left the registry and keeps its `p_newer`.
  `Undisturbed` in `MCThreads` leaves both out; without either of its conjuncts
  `ReferencesOK` fails.
- `f_truncate` frees the cluster whose sector is in the buffer of the file and leaves
  `FA__DIRTY` set.  `BufferKept` in `MCServices` leaves that case out, so the runs
  do not show `f_truncate` correct.  Without it `VolumeSound` and
  `SyncedSurvives` fail without any loss of power: a file is written, sought to 0 and
  truncated, `f_mkdir` takes the cluster, and the next `f_write` to the file writes
  the old buffer over the new directory.  No text in the repository says what `f_truncate` promises.
- An empty reception is prepared with a packet count of 0 (`usb_lld.c`); the model
  takes the status packet to arrive all the same.
- A SETUP in the middle of a transfer resets `ep0state` but not the busy bits.
  The host of the model ends a transfer, or resets the bus, before the next.
- When low_level_input finds no pbuf it returns NULL, and lwip_thread takes the
  ring for empty; the rest of the ring waits for another frame.
- A failed `posix_open` gives the file object back and keeps the descriptor; with no
  descriptor left `posix_get_streamfree` returns 0, and the next open goes over
  stdin.  The opens of the model have a descriptor left.
- `mount` of what is mounted connects the card again and disconnects it, under the
  mounted volume; the files are then refused until the next mount.
- `MEM_ALIGN_NEXT` wraps for sizes next to the largest `size_t`; `Asks` of the run
  stays below.
- `history_insert` and `ngshell_parse` have no bound on lines and arguments.

## Fairness

`Fairness` of `ChSem` assumes that the hardware serves a pending
tick (strong fairness, because a critical zone disables the tick for a while),
that the tick handler ends, that an armed timer reaches its deadline and its
callback is called, and that a thread that holds the kernel lock goes on, which
it does since nothing can interrupt it.  Nothing is assumed of the threads: one
may keep the processor for as long as it likes.  Hence the properties end where
the kernel's duty ends: `TimeoutsArrive` in the ready list, `RoundRobin` where
only threads of the same priority compete.

`MsgFairness` assumes that a server that gets the processor again and again goes on with its
loop of wait and release, and the interrupt hardware as above: `MessagesReceived`
is then the kernel's doing.

Serial port (`MCFairness` of `MCDrivers`): the handler follows its interrupt, the host polls, a thread goes on
with a call it has begun, and the pump is
not starved by the others, of which it has the lowest priority and which block on
the port or the network; strong fairness because the handler disables it for a while.  Nothing
is assumed of the time of a write, of readers that start or of the bytes the host
sends.  `Ep0Fairness`: the handler follows its interrupt and the host goes on with
its transfer.  `MacFairness`: the DMA, the interrupt and the receiving thread go on,
and a sender finishes a frame it has begun; that frames come at all is assumed
only where the pool may be empty, where the code needs it.

## What is proved

`ChSemProofs` proves the safety properties of `ChSem` for every set of threads
and semaphores, every assignment of priorities above that of the idle thread,
every quantum and every bound: `TypeCorrect`, `ListsCorrect`, `CountersCorrect`,
`PriorityCorrect`, `TimersCorrect`, `MessagesCorrect`, `BinaryCorrect`.  The
assumptions are those of the modules: the idle thread exists and has the lowest
priority, the quantum and the bound are positive, and names of different kinds
differ.

None of the properties is inductive by itself.  That the counter of a semaphore is
minus the length of its queue survives a timeout only if the thread in state
WTSEM is in the queue of the semaphore its `p_u` names; that is known only if
`p_u` was not overwritten, that is, if every thread in the queue is still
blocked; and that the callback finds a thread that is in that call, and not in a
later one, needs the fact that a timer on the stack is gone when its call ends.
`IInv` ties these together:

- `Good`: the record is well formed, the ready list is sorted and holds the READY
  threads, the idle thread is runnable;
- `SemLists` and `SemaphoresConsistent`: a thread is in the queue of a semaphore
  exactly if it is in WTSEM with the semaphore in `p_u`, and the counters agree;
- `Calls`: which states, timers and answers go with the call a thread is in;
- `Context`: outside handlers and loops nobody outranks the running thread, which
  is in the middle of no call while a handler or a loop is active.

The proof is in layers: `ChSchedProofs` on inserting into and cutting from lists
and on what each scheduler function keeps, `SemSteps` on the shapes
of step a semaphore makes, `ChSemProofs` with one lemma per action.  The first
does not mention semaphores and serves `ChMsgProofs` too.

`ChMsgProofs` proves `ServersCorrect`: `MessagesOK` for any clients and servers.  The
invariant adds to it that the inbox of a server holds exactly the senders in SNDMSGQ
whose `p_u` names it, and which states go with the call a thread is in.
`MsgRefinement` proves from it that every step of `ChMsg` is a step of `AbsMsg` or
invisible to it (`MessagesRefine`).

`UsbEp0Proofs` proves `StagesCorrect`: `ControlOK` for all sizes of packets, requests
and answers, however often the host resets or configures the device.
The invariant `Stage` has one clause for each state of `ep0state`, which says where
the host is and how much both sides have left to send.

`MacProofs` proves `RingsCorrect`: `RingsOK` for rings of any length and any number of
senders, by the invariant that what is locked or owned by the DMA is one stretch
of the ring, counted modulo its length.

`FilesProofs` proves `DescriptorsCorrect` and `AccessCorrect`: `FilesOK` and
`NoStaleAccess` for any number of descriptors, cards and mounts.  The invariant
needs three more facts: numbers of mounts are not used twice, a volume that is
analysed while the driver is ready is on the card that answers, and descriptors
held and file objects in use correspond one to one, from which `new_fil` finds a
free object whenever there is a free descriptor.

## What is only model-checked

Liveness, which is out of the prover's reach; refinement of `AbsSem`, `AbsMBox`,
`AbsQueue` and `AbsVT`; everything about mutexes, mailboxes, events, queues, timers,
threads, memory, the serial port, the volume and the line editor.  `FatFs` uses recursive
operators, which the prover does not take.

## What is not modelled

Of the kernel: threads from pools, `chThdTerminate`, `chThdResume`, the event timer
(a timer whose callback broadcasts, both of which are modelled),
`chTimeIsWithin`, which changes nothing, and the debug
checks, which are compiled out.  Of the drivers: suspend and wake-up of USB, the
interrupt endpoint, starting and stopping the Ethernet controller, the PHY; and
all drivers the configuration switches off, which share one state machine (stop,
ready, active).  Of the files: long names, paths of
more than one segment, `f_mkfs`, `f_chmod`, `f_utime`, FAT12 and FAT16, disk errors other
than a loss of power (`FR_DISK_ERR` and what the code does about it), several open
files at once on the volume, and a file that is opened twice, or removed or
renamed while open, which `_FS_SHARE` 0 leaves to the caller.  `sys_arch.c` wraps semaphores and mailboxes.  The remaining low-level
drivers are register accesses.  lwIP, the Unicode tables of FatFS, CMSIS and the
JavaScript interpreter are vendored code, by far the larger part of `src/`, and out
of TLC's reach: their state is packets, sectors and syntax trees.

## Plan

1. Proofs: the mutexes' lists and ownership and the threads' references on top of
   `ChSchedProofs`; the tiling of the heap; the mailbox as a client of the
   semaphores.
2. Liveness of mutexes under the assumption that owners release them.
3. The state machine that the simple HAL drivers share.
